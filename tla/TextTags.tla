------------------------------ MODULE TextTags ------------------------------
(***************************************************************************)
(* The two scanners that decoded text goes through: the tool interceptor   *)
(* (src/agent/tool_interceptor.c), which buffers text until it holds a     *)
(* complete tag, and the thought filter (src/reasoning/thought_filter.c),  *)
(* which hides the text of one <think> tag as it is printed.  Text is a    *)
(* sequence of symbols: the brackets, the slash, names, and symbols of no  *)
(* meaning to a scanner.  The interceptor, which searches its whole        *)
(* buffer, finds the name of a tag as one symbol; the tags of the filter   *)
(* are any two sequences that begin with a bracket, so a text may break    *)
(* off in the middle of their name.                                        *)
(***************************************************************************)
EXTENDS Integers, Sequences, SequencesExt

CONSTANTS Tags,       \* names of the tags, in the order of the table
          BufferSize, \* what the interceptor's buffer holds
          TagSize,    \* out_buf_size of the interceptor
          OutputSize, \* output_buf_size of the filter
          OPEN_TAG,   \* the tags of the filter
          CLOSE_TAG

\* A name is not a bracket; the buffers hold something.
ASSUME TagsAssumption ==
    Tags \in Seq(STRING) /\ Range(Tags) \intersect {"<", "/", ">"} = {}
\* The filter begins a tag at its bracket, and its buffer holds a tag.
ASSUME ThinkAssumption ==
    \A d \in {OPEN_TAG, CLOSE_TAG} :
      d \in Seq(STRING) /\ Len(d) \in 2 .. 15 /\ d[1] = "<"
ASSUME SizesAssumption ==
    /\ BufferSize \in Nat
    /\ TagSize \in Nat \ {0} /\ OutputSize \in Nat \ {0}

Open(t) == <<"<", t, ">">>
Close(t) == <<"<", "/", t, ">">>

\* strstr(): d is found in s from position i.
At(s, d, i) == SubSeq(s, i, i + Len(d) - 1) = d
Finds(s, d, from) == {i \in from .. Len(s) - Len(d) + 1 : At(s, d, i)}
FirstOf(S) == CHOOSE i \in S : \A j \in S : i <= j
\* What fits into n bytes of it.
Fitting(s, n) == SubSeq(s, 1, IF Len(s) < n THEN Len(s) ELSE n)

-----------------------------------------------------------------------------
\* The tool interceptor.

\* Mutant: the piece is not cut at the end of the buffer.
Appended_Mut(buf, piece) == buf \o piece
Appended(buf, piece) ==
    buf \o Fitting(piece, BufferSize - Len(buf))
IsCut(buf, piece) == Len(buf) + Len(piece) > BufferSize

Opens(buf, t) == Finds(buf, Open(t), 1)
\* Mutant: the text starts one byte early.
Inside_Mut(buf, t) == FirstOf(Opens(buf, t)) + Len(Open(t)) - 1
Inside(buf, t) == FirstOf(Opens(buf, t)) + Len(Open(t))
Closes(buf, t) ==
    IF Opens(buf, t) = {} THEN {}
    ELSE Finds(buf, Close(t), Inside(buf, t))
Complete(buf) == {k \in 1 .. Len(Tags) : Closes(buf, Tags[k]) # {}}

Inner(s) == Fitting(s, TagSize - 1)
\* Mutant: the tag stays in the buffer.
Taken_Mut(buf) ==
    LET t == Tags[FirstOf(Complete(buf))]
        close == FirstOf(Closes(buf, t))
    IN [tag |-> t,
        text |-> Inner(SubSeq(buf, Inside(buf, t), close - 1)),
        rest |-> buf]
\* The first tag of the table that is complete, its text, and what is left:
\* everything before the tag goes with it.
Taken(buf) ==
    LET t == Tags[FirstOf(Complete(buf))]
        close == FirstOf(Closes(buf, t))
    IN [tag |-> t,
        text |-> Inner(SubSeq(buf, Inside(buf, t), close - 1)),
        rest |-> SubSeq(buf, close + Len(Close(t)), Len(buf))]

-----------------------------------------------------------------------------
\* The thought filter, one symbol at a time.

Passing == [state |-> "passthrough", held |-> <<>>, count |-> 0,
            out |-> <<>>]

Emit(f, s) == IF Len(f.out) + Len(s) < OutputSize
                THEN [f EXCEPT !.out = @ \o s] ELSE f
Enter(f, state) == [f EXCEPT !.state = state, !.held = <<>>]
Hold(f, state, h) == [f EXCEPT !.state = state, !.held = h]

Passthrough(f, c) ==
    IF c = "<" THEN Hold(f, "buffering_open", <<c>>) ELSE Emit(f, <<c>>)
\* Mutant: a mismatch loses the character that did not match.
BufferingOpen_Mut(f, c) ==
    LET h == Append(f.held, c)
    IN IF h = OPEN_TAG THEN Enter(f, "thinking")
       ELSE IF IsPrefix(h, OPEN_TAG) THEN Hold(f, f.state, h)
       ELSE Enter(Emit(f, f.held), "passthrough")
BufferingOpen(f, c) ==
    LET h == Append(f.held, c)
    IN IF h = OPEN_TAG THEN Enter(f, "thinking")
       ELSE IF IsPrefix(h, OPEN_TAG) THEN Hold(f, f.state, h)
       ELSE Enter(Emit(f, h), "passthrough")
Thinking(f, c) ==
    LET g == [f EXCEPT !.count = @ + 1]
    IN IF c = "<" THEN Hold(g, "buffering_close", <<c>>) ELSE g
BufferingClose(f, c) ==
    LET h == Append(f.held, c)
    IN IF h = CLOSE_TAG THEN Enter(f, "output")
       ELSE IF IsPrefix(h, CLOSE_TAG) THEN Hold(f, f.state, h)
       ELSE Enter(f, "thinking")

Symbol(f, c) ==
    CASE f.state = "passthrough" -> Passthrough(f, c)
      [] f.state = "buffering_open" -> BufferingOpen(f, c)
      [] f.state = "thinking" -> Thinking(f, c)
      [] f.state = "buffering_close" -> BufferingClose(f, c)
      [] f.state = "output" -> Emit(f, <<c>>)

Filtered(f, piece) ==
    LET after[n \in 0 .. Len(piece)] ==
          IF n = 0 THEN [f EXCEPT !.out = <<>>]
                   ELSE Symbol(after[n - 1], piece[n])
    IN after[Len(piece)]
=============================================================================
