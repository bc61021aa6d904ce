-------------------------- MODULE DecodedTextProps --------------------------
(***************************************************************************)
(* What a run promises about the text it generates: a tag is taken as it   *)
(* was said however tokens cut it, no command comes from anywhere else,    *)
(* the reader sees what is outside the thought, and a command's result is  *)
(* the result of that command.                                             *)
(***************************************************************************)
EXTENDS DecodedText

Symbols == UNION {Range(piece) : piece \in Vocabulary}
Texts == Seq(Symbols)
FilterStates == {"passthrough", "buffering_open", "thinking",
                 "buffering_close", "output"}

\* The state of a call of execute_command() is well typed and its output
\* fits the buffer (src/agent/cmd_exec.c).
CommandTypeOK ==
    /\ call \in {"idle", "select", "waitpid", "timeout"}
    /\ child \in {"none", "running", "closed", "zombie", "reaped"}
    /\ status \in ExitCodes \union {-1, 0}
    /\ written \in Nat /\ total_read \in 0 .. OutSize - 1
    /\ Pipe \in 0 .. PipeSize
    /\ clock \in 0 .. Timeout
    /\ res \in [exit_code : ExitCodes \union {-1, 0, 127},
                timed_out : BOOLEAN, stdout_len : 0 .. OutSize - 1]

\* The scanners and the command are well typed and no buffer overflows
\* (run_agent_loop(), generate_with_reasoning()).
TypeOK ==
    /\ mode \in {"agent", "reasoning"}
    /\ said.text \in Texts /\ said.pieces \in 0 .. MaxPieces
    /\ shown \in Texts /\ buf \in Texts /\ Len(buf) <= BufferSize
    /\ cut \in BOOLEAN /\ asked \in BOOLEAN
    /\ taken \in Seq(Range(Tags) \X Texts)
    /\ \A k \in DOMAIN taken : Len(taken[k][2]) < TagSize
    /\ filter \in [state : FilterStates, held : Texts, count : Nat,
                   out : Texts]
    /\ Len(filter.held) < Len(IF filter.state = "buffering_open"
                                THEN OPEN_TAG ELSE CLOSE_TAG)
    /\ filter.count <= Len(said.text)
    /\ Len(filter.out) < OutputSize
    /\ CommandTypeOK

-----------------------------------------------------------------------------
\* Where tags stand in a text, as a reader of the whole text sees them.

Spans(s) ==
    UNION {{<<t, i, j>> : i \in Finds(s, Open(t), 1),
                          j \in Finds(s, Close(t), 1)} : t \in Range(Tags)}
Marks(s) ==
    UNION {{<<"open", t, i>> : i \in Finds(s, Open(t), 1)}
           \union {<<"close", t, i>> : i \in Finds(s, Close(t), 1)} :
             t \in Range(Tags)}
Pairs(s) == {p \in Spans(s) : /\ p[2] < p[3]
                              /\ \A m \in Marks(s) : ~(p[2] < m[3]
                                                       /\ m[3] < p[3])}
Between(s, p) == Inner(SubSeq(s, p[2] + Len(Open(p[1])), p[3] - 1))

\* Tags follow one another, each closed before the next is opened.
Proper(s) ==
    \A m \in Marks(s) :
       \/ \E p \in Pairs(s) : m \in {<<"open", p[1], p[2]>>,
                                     <<"close", p[1], p[3]>>}
       \/ m[1] = "open" /\ \A n \in Marks(s) : n[3] <= m[3]
\* They are the tags of s, each with its text, from left to right.
InOrder(tags, s) ==
    \E at \in [DOMAIN tags -> Pairs(s)] :
      /\ Range(at) = Pairs(s)
      /\ \A k \in DOMAIN tags :
           /\ tags[k] = <<at[k][1], Between(s, at[k])>>
           /\ \A l \in 1 .. k - 1 : at[l][2] < at[k][2]

\* However the tokens cut a text, each of its tags is taken once, in order,
\* and as it was said, unless the buffer had run full: the hazard of
\* ti_process_piece()'s table order and of its 8191 bytes.
TagsAsSaid ==
    mode = "agent" /\ ~cut /\ Proper(said.text)
      => InOrder(taken, said.text)

\* Of any text whatever, nested and unbalanced tags included: what the agent
\* loop takes for a tag, and so every command it offers to run, was said
\* between that tag's brackets, and no part of the text was taken twice.
TakenWasSaid ==
    ~cut => \E at \in [DOMAIN taken -> Spans(said.text)] :
              \A k \in DOMAIN taken :
                 /\ at[k][1] = taken[k][1]
                 /\ at[k][2] + Len(Open(at[k][1])) <= at[k][3]
                 /\ Between(said.text, at[k]) = taken[k][2]
                 /\ \A l \in 1 .. k - 1 : at[l][3] < at[k][2]

-----------------------------------------------------------------------------
\* The thought filter.

\* s[j .. i - 1] is the beginning of the tag d.
Begins(s, d, j, i) ==
    i - j < Len(d) /\ SubSeq(s, j, i - 1) = SubSeq(d, 1, i - j)
\* Whether position i is in a tag begun before: what stands there goes on
\* with that tag or breaks it off, and does not begin one itself.
InTag(s, d, from) ==
    LET in[i \in from .. Len(s) + 1] ==
          \E j \in from .. i - 1 : Begins(s, d, j, i) /\ ~in[j]
    IN in
TagsOf(s, d, from) ==
    {i \in Finds(s, d, from) : ~InTag(s, d, from)[i]}
\* The text before the first opening tag and behind the closing tag.
Outside(s) ==
    LET opens == TagsOf(s, OPEN_TAG, 1)
        closes == TagsOf(s, CLOSE_TAG, FirstOf(opens) + Len(OPEN_TAG))
    IN IF opens = {} THEN s
       ELSE SubSeq(s, 1, FirstOf(opens) - 1)
            \o (IF closes = {} THEN <<>>
                ELSE SubSeq(s, FirstOf(closes) + Len(CLOSE_TAG), Len(s)))
Undecided == IF filter.state = "buffering_open" THEN filter.held ELSE <<>>

\* Of any text, wherever tokens cut it, the reader sees what is outside the
\* first thought, all of it, in order and nothing else; only the beginning of
\* what may yet be the opening tag is held back (thought_filter_process()).
\* A thought is one the filter can find: it never looks back, so a "<" that
\* breaks off one tag does not begin the next (thought_filter.c:62,100).
\* Behind "<th<think>" the thought is shown, and behind "</th</think>" the
\* answer is not.
ShownIsOutside ==
    mode = "reasoning" => shown \o Undecided = Outside(said.text)

-----------------------------------------------------------------------------
\* The command.

\* The result of a call is that of its child: a child that was waited for is
\* reported with its own exit code, or as timed out once the time is over;
\* one that was not has exit code 0 whatever it does, and then all of its
\* output was read unless the buffer is full (execute_command()).
ResultIsTheChilds ==
    call = "idle" /\ child # "none" =>
      /\ res.stdout_len = total_read
      /\ IF child = "reaped"
           THEN IF res.timed_out
                  THEN clock = Timeout /\ res.exit_code = -1
                  ELSE res.exit_code = status
           ELSE /\ res.exit_code = 0 /\ ~res.timed_out
                /\ res.stdout_len \in {written, OutSize - 1}

\* A command that never ends does not hold the agent for ever: a quiet one
\* runs into the timeout, one that keeps talking fills the buffer.
CallReturns == Busy ~> ~Busy
=============================================================================
