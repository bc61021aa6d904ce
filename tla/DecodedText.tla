---------------------------- MODULE DecodedText ----------------------------
(***************************************************************************)
(* What a command line run does with the text it generates: the agent loop *)
(* (src/agent/agent_loop.c) looks for tags and runs the commands between   *)
(* <exec> and </exec>, the reasoning mode (src/reasoning/                  *)
(* reasoning_generate.c) prints all but the <think> tag.  The model may    *)
(* say anything, cut into pieces anywhere its vocabulary allows.  What is  *)
(* injected after a tag goes to the KV cache (KvSession) and is not        *)
(* scanned; the memory tags end in VectorDb.                               *)
(***************************************************************************)
EXTENDS TextTags, CommandRun, FiniteSets

CONSTANTS Vocabulary, \* the pieces tokens decode to
          MaxPieces   \* bound: pieces of a run

\* No token is empty.  One piece fits the output of the filter together with
\* the start of a tag that was held back (reasoning_generate.c:89), and it
\* does not hold a whole tag behind the end of another: the interceptor takes
\* one tag of a piece at most, and looks again with the next piece.
ASSUME VocabularyAssumption ==
    \A piece \in Vocabulary :
      /\ piece \in Seq(Range(piece)) /\ piece # <<>>
      /\ Len(piece) + Len(OPEN_TAG) <= OutputSize
      /\ \A t \in Range(Tags) :
           \A i \in Finds(piece, Open(t), 1), k \in 1 .. Len(piece) :
             piece[k] = ">" /\ k < i => Finds(piece, Close(t), i) = {}

ASSUME BoundAssumption == MaxPieces \in Nat

VARIABLES mode,   \* "agent" or "reasoning"
          said,   \* the text generated so far, with the ends of its pieces
          shown,  \* the text printed
          buf,    \* the interceptor's buffer
          cut,    \* text has been dropped at its end
          taken,  \* the tags taken from it, with their texts
          asked,  \* the loop is at the tag <exec>
          filter  \* the thought filter

textVars == <<mode, said, shown, buf, cut, taken, asked, filter>>
vars == <<textVars, commandVars>>

Init ==
    /\ mode \in {"agent", "reasoning"}
    /\ said = [text |-> <<>>, pieces |-> 0] /\ shown = <<>>
    /\ buf = <<>> /\ cut = FALSE /\ taken = <<>> /\ asked = FALSE
    /\ filter = Passing
    /\ CommandInit

\* A token was sampled and decoded.
Generate(piece) ==
    /\ call = "idle" /\ ~asked
    /\ said.pieces < MaxPieces
    /\ said' = [text |-> said.text \o piece, pieces |-> said.pieces + 1]
    /\ UNCHANGED <<mode, commandVars>>

AgentPiece(piece) ==
    LET full == Appended(buf, piece)
    IN /\ mode = "agent" /\ Generate(piece)
       /\ cut' = (cut \/ IsCut(buf, piece))
       /\ IF Complete(full) = {}
            THEN /\ buf' = full
                 /\ shown' = shown \o piece
                 /\ UNCHANGED <<taken, asked>>
            ELSE LET tag == Taken(full)
                 IN /\ buf' = tag.rest
                    /\ taken' = Append(taken, <<tag.tag, tag.text>>)
                    /\ asked' = (tag.tag = "exec")
                    /\ UNCHANGED shown
       /\ UNCHANGED filter

ReasoningPiece(piece) ==
    /\ mode = "reasoning" /\ Generate(piece)
    /\ filter' = Filtered(filter, piece)
    /\ shown' = shown \o filter'.out
    /\ UNCHANGED <<buf, cut, taken, asked>>

-----------------------------------------------------------------------------
\* The tag <exec>.

Command == Last(taken)[2]
\* argv[0]: the text up to the first blank that follows it.
Letters(s) == {i \in 1 .. Len(s) : s[i] # " "}
FirstWord(s) ==
    LET first == FirstOf(Letters(s))
        ends == {j \in first .. Len(s) : s[j] = " "} \union {Len(s) + 1}
    IN SubSeq(s, first, FirstOf(ends) - 1)

Answered ==
    /\ asked /\ asked' = FALSE
    /\ UNCHANGED <<mode, said, shown, buf, cut, taken, filter>>
\* The user says no, or there is no memory for argv.
Skip == Answered /\ UNCHANGED commandVars
RunEmpty == Answered /\ Letters(Command) = {} /\ ExecuteNothing
RunCommand ==
    /\ Answered /\ Letters(Command) # {}
    /\ Execute(FirstWord(Command))
DuringCall == InCall /\ UNCHANGED textVars

Next ==
    \/ \E piece \in Vocabulary : AgentPiece(piece)
    \/ \E piece \in Vocabulary : ReasoningPiece(piece)
    \/ Skip
    \/ RunEmpty
    \/ RunCommand
    \/ DuringCall

\* The parent's loop runs: nothing is assumed of the child or of the user.
Spec == Init /\ [][Next]_vars /\ WF_vars(ParentStep /\ UNCHANGED textVars)
=============================================================================
