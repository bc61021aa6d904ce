------------------------- MODULE DecodedTextProofs -------------------------
(***************************************************************************)
(* Proofs about DecodedText, for every vocabulary, tag table, allow-list   *)
(* and size.  Three invariants carry them.  IInv, of the commands: the     *)
(* result of execute_command() is that of its child, whatever the text     *)
(* holds.  ReadOK, of the agent: where in the text the tags taken so far   *)
(* stand, and which tail of it the buffer still holds.  FollowOK, of the   *)
(* reasoning mode: what the state of the thought filter says of all the    *)
(* symbols it was fed.                                                     *)
(***************************************************************************)
EXTENDS DecodedTextProps, TextTagsProofs, TLAPS

\* The poll that is running has read all that a full buffer would have ended
\* it for, and its child has not been waited for.
Running ==
    Busy => /\ child \in {"running", "closed", "zombie"}
            /\ total_read < OutSize - 1

IInv == CommandTypeOK /\ Running /\ ResultIsTheChilds

LEMMA InitEstablishes == Init => IInv
<1> SUFFICES ASSUME Init PROVE IInv
  OBVIOUS
<1> USE CommandAssumption
<1>1. CommandTypeOK
  BY SMT DEF Init, CommandInit, CommandTypeOK, Pipe
<1> QED
  BY <1>1 DEF Init, CommandInit, IInv, Running, ResultIsTheChilds, Busy

\* A call begins, or is answered without one.
LEMMA BeginningKeeps ==
  ASSUME IInv, NEW name, Execute(name) \/ ExecuteNothing
  PROVE  IInv'
<1> USE CommandAssumption
<1> USE DEF IInv, CommandTypeOK, Running, ResultIsTheChilds, Busy, Pipe,
            Refuse, Result
<1>1. CASE ExecuteNothing
  BY <1>1 DEF ExecuteNothing, NoCommand
<1>2. CASE Execute(name)
  <2>1. CASE Denied(name)
    BY <2>1 DEF Denied
  <2>2. CASE NoProcess(name)
    BY <2>2 DEF NoProcess
  <2>3. CASE Fork(name)
    BY <2>3 DEF Fork
  <2> QED
    BY <1>2, <2>1, <2>2, <2>3 DEF Execute
<1> QED
  BY <1>1, <1>2

\* The child writes, closes its output, or dies.
LEMMA ChildKeeps ==
  ASSUME IInv, ChildStep
  PROVE  IInv'
<1> USE CommandAssumption
<1> USE DEF IInv, CommandTypeOK, Running, ResultIsTheChilds, Busy, Pipe
<1>1. CASE Write
  BY <1>1 DEF Write
<1>2. CASE CloseOutput
  BY <1>2 DEF CloseOutput
<1>3. ASSUME NEW code \in ExitCodes \union {-1}, Die(code)
      PROVE  IInv'
  BY <1>3 DEF Die
<1> QED
  BY <1>1, <1>2, <1>3 DEF ChildStep

\* The parent polls, leaves with what it has, or kills the child.
LEMMA ParentKeeps ==
  ASSUME IInv, ParentStep
  PROVE  IInv'
<1> USE CommandAssumption
<1> USE DEF IInv, CommandTypeOK, Running, ResultIsTheChilds, Busy, Pipe,
            Return, Result
<1>1. CASE ReadOutput
  <2>1. clock' \in 0 .. Timeout
    BY <1>1 DEF ReadOutput, Later
  <2>2. /\ total_read' \in 0 .. OutSize - 1
        /\ written' - total_read' \in 0 .. PipeSize
    BY <1>1 DEF ReadOutput, Room
  <2>3. CASE total_read' >= OutSize - 1
    <3>1. total_read' = OutSize - 1
      BY <2>2, <2>3
    <3>2. /\ call' = "idle" /\ child' = child /\ status' = status
          /\ child # "reaped"
          /\ res' = [exit_code |-> 0, timed_out |-> FALSE,
                     stdout_len |-> total_read']
      BY <1>1, <2>3 DEF ReadOutput
    <3>3. CommandTypeOK'
      BY <1>1, <2>1, <2>2, <3>2 DEF ReadOutput
    <3>4. ResultIsTheChilds'
      BY <3>1, <3>2
    <3> QED
      BY <3>2, <3>3, <3>4
  <2>4. CASE ~(total_read' >= OutSize - 1)
    BY <1>1, <2>1, <2>2, <2>4 DEF ReadOutput
  <2> QED
    BY <2>3, <2>4
<1>2. CASE ReadEnd
  BY <1>2 DEF ReadEnd
<1>3. CASE Quiet
  BY <1>3 DEF Quiet, Later
<1>4. CASE Reap
  BY <1>4 DEF Reap
<1>5. CASE StillRunning
  BY <1>5 DEF StillRunning
<1>6. CASE PollAgain
  BY <1>6 DEF PollAgain
<1>7. CASE KillChild
  <2>1. clock' = Timeout
    BY <1>7 DEF KillChild
  <2> QED
    BY <1>7, <2>1 DEF KillChild
<1> QED
  BY <1>1, <1>2, <1>3, <1>4, <1>5, <1>6, <1>7 DEF ParentStep

LEMMA StepKeeps == IInv /\ [Next]_vars => IInv'
<1> SUFFICES ASSUME IInv, [Next]_vars PROVE IInv'
  OBVIOUS
<1>0. ASSUME UNCHANGED commandVars PROVE IInv'
  BY <1>0 DEF commandVars, IInv, CommandTypeOK, Running, ResultIsTheChilds,
              Busy, Pipe
<1>1. ASSUME NEW piece \in Vocabulary,
             AgentPiece(piece) \/ ReasoningPiece(piece)
      PROVE  IInv'
  BY <1>0, <1>1 DEF AgentPiece, ReasoningPiece, Generate
<1>2. CASE Skip
  BY <1>0, <1>2 DEF Skip
<1>3. CASE RunEmpty
  BY <1>3, BeginningKeeps DEF RunEmpty
<1>4. CASE RunCommand
  BY <1>4, BeginningKeeps DEF RunCommand
<1>5. CASE DuringCall
  BY <1>5, ChildKeeps, ParentKeeps DEF DuringCall, InCall
<1>6. CASE UNCHANGED vars
  BY <1>0, <1>6 DEF vars
<1> QED
  BY <1>1, <1>2, <1>3, <1>4, <1>5, <1>6 DEF Next

LEMMA Invariant == Spec => []IInv
<1> QED
  BY InitEstablishes, StepKeeps, PTL DEF Spec

\* The state of a call is well typed, what is read never overruns the
\* buffer, and the pipe never holds more than it can.
THEOREM CommandTypeCorrect == Spec => []CommandTypeOK
<1>1. IInv => CommandTypeOK
  BY DEF IInv
<1> QED
  BY <1>1, Invariant, PTL

\* A result is that of the child of its call: its exit code if it was waited
\* for, and otherwise 0 and all of its output or a full buffer.
THEOREM ResultIsOfTheChild == Spec => []ResultIsTheChilds
<1>1. IInv => ResultIsTheChilds
  BY DEF IInv
<1> QED
  BY <1>1, Invariant, PTL

-----------------------------------------------------------------------------
(* The scanners: types.                                                    *)

LEMMA PieceIsText ==
  ASSUME NEW piece \in Vocabulary
  PROVE  piece \in Texts /\ Len(piece) \in Nat
<1>1. piece \in Seq(Range(piece))
  BY VocabularyAssumption
<1>2. Range(piece) \subseteq Symbols
  BY DEF Symbols
<1>3. piece \in Seq(Symbols)
  BY <1>1, <1>2, SeqMonotonic
<1> QED
  BY <1>3, LenProperties DEF Texts

ScannersOK ==
  /\ mode \in {"agent", "reasoning"}
  /\ said.text \in Texts /\ said.pieces \in 0 .. MaxPieces
  /\ shown \in Texts /\ buf \in Texts /\ Len(buf) <= BufferSize
  /\ cut \in BOOLEAN /\ asked \in BOOLEAN
  /\ taken \in Seq(Range(Tags) \X Texts)
  /\ \A k \in DOMAIN taken : Len(taken[k][2]) < TagSize
  /\ FilterOK(Symbols, filter) /\ filter.count <= Len(said.text)

LEMMA ScannersStart == Init => ScannersOK
<1> SUFFICES ASSUME Init PROVE ScannersOK
  OBVIOUS
<1>1. <<>> \in Texts /\ Len(<<>>) = 0 /\ Len(<<>>) <= BufferSize
  BY EmptySeq, SizesAssumption DEF Texts
<1>2. /\ FilterOK(Symbols, filter) /\ filter.count = 0
  <2>1. <<>> \in Seq(Symbols) /\ Len(<<>>) < OutputSize
    BY EmptySeq, SizesAssumption
  <2>2. /\ filter.state = "passthrough" /\ filter.held = <<>>
        /\ filter.count = 0 /\ filter.out = <<>>
        /\ filter \in [state : {"passthrough", "buffering_open", "thinking",
                                "buffering_close", "output"},
                       held : Seq(Symbols), count : Nat, out : Seq(Symbols)]
    BY <2>1 DEF Init, Passing
  <2> QED
    BY <2>1, <2>2 DEF FilterOK
<1>3. taken = <<>> /\ taken \in Seq(Range(Tags) \X Texts)
  BY EmptySeq DEF Init
<1>4. 0 \in 0 .. MaxPieces
  BY BoundAssumption
<1>5. /\ said.text = <<>> /\ said.pieces = 0 /\ shown = <<>> /\ buf = <<>>
      /\ mode \in {"agent", "reasoning"} /\ cut = FALSE /\ asked = FALSE
  BY DEF Init
<1>6. \A k \in DOMAIN taken : Len(taken[k][2]) < TagSize
  <2>1. DOMAIN taken = {}
    BY <1>3
  <2> QED
    BY <2>1
<1>7. filter.count <= Len(said.text)
  BY <1>1, <1>2, <1>5
<1> QED
  BY <1>1, <1>2, <1>3, <1>4, <1>5, <1>6, <1>7 DEF ScannersOK

\* A token was said.
LEMMA SaidIs ==
  ASSUME ScannersOK, NEW piece \in Vocabulary, Generate(piece)
  PROVE  /\ said'.text = said.text \o piece /\ said'.text \in Texts
         /\ Len(said'.text) = Len(said.text) + Len(piece)
         /\ Len(said.text) \in Nat /\ Len(piece) \in Nat
         /\ said'.pieces \in 0 .. MaxPieces /\ mode' = mode
<1>1. piece \in Texts /\ said.text \in Texts
  BY PieceIsText DEF ScannersOK
<1>2. said'.text = said.text \o piece /\ said'.pieces = said.pieces + 1
  BY DEF Generate
<1>3. said'.pieces \in 0 .. MaxPieces
  BY <1>2, BoundAssumption DEF Generate, ScannersOK
<1> DEFINE s == said.text
<1>4. /\ s \o piece \in Texts /\ Len(s \o piece) = Len(s) + Len(piece)
      /\ Len(s) \in Nat /\ Len(piece) \in Nat
  <2> HIDE DEF s
  <2> QED
    BY <1>1, Joined DEF Texts, s
<1> QED
  BY <1>2, <1>3, <1>4 DEF Generate

LEMMA AgentPieceTyped ==
  ASSUME ScannersOK, NEW piece \in Vocabulary, AgentPiece(piece)
  PROVE  ScannersOK'
<1> DEFINE full == Appended(buf, piece)
<1>1. /\ said'.text \in Texts /\ Len(said'.text) >= Len(said.text)
      /\ said'.pieces \in 0 .. MaxPieces /\ mode' = mode
      /\ Len(said.text) \in Nat
  BY SaidIs DEF AgentPiece
<1>2. buf \in Texts /\ piece \in Texts /\ Len(buf) <= BufferSize
  BY PieceIsText DEF ScannersOK
<1>3. full \in Texts /\ Len(full) <= BufferSize /\ Len(full) \in Nat
  BY <1>2, AppendedIs, LenProperties DEF Texts
<1> HIDE DEF full
<1>4. filter' = filter /\ filter.count <= Len(said'.text)
  <2>1. filter.count \in Nat /\ Len(said'.text) \in Nat
    BY <1>1, FilterParts, LenProperties DEF ScannersOK, Texts
  <2> QED
    BY <1>1, <2>1 DEF AgentPiece, ScannersOK
<1>5. cut' \in BOOLEAN
  BY DEF AgentPiece, ScannersOK
<1>6. CASE Complete(full) = {}
  <2>1. buf' = full /\ shown' = shown \o piece /\ UNCHANGED <<taken, asked>>
    BY <1>6 DEF AgentPiece, full
  <2>2. shown \o piece \in Texts
    BY <1>2, ConcatProperties DEF ScannersOK, Texts
  <2> QED
    BY <1>1, <1>3, <1>4, <1>5, <2>1, <2>2 DEF ScannersOK
<1>7. CASE Complete(full) # {}
  <2> DEFINE tag == Taken(full)
             new == <<tag.tag, tag.text>>
  <2>1. /\ buf' = tag.rest /\ taken' = Append(taken, new)
        /\ asked' \in BOOLEAN /\ UNCHANGED shown
    BY <1>7 DEF AgentPiece, full
  <2>2. /\ tag.tag \in Range(Tags) /\ tag.text \in Texts
        /\ Len(tag.text) < TagSize /\ tag.rest \in Texts
        /\ Len(tag.rest) <= Len(full)
    BY <1>3, <1>7, TakenTyped DEF Texts
  <2>3. Len(tag.rest) <= BufferSize
    <3>1. Len(tag.rest) \in Nat
      BY <2>2, LenProperties DEF Texts
    <3> QED
      BY <1>3, <2>2, <3>1, SizesAssumption
  <2>4. new \in Range(Tags) \X Texts /\ new[2] = tag.text
    BY <2>2
  <2> HIDE DEF tag, new
  <2>5. /\ taken' \in Seq(Range(Tags) \X Texts)
        /\ \A k \in DOMAIN taken' : Len(taken'[k][2]) < TagSize
    <3> DEFINE S == Range(Tags) \X Texts
               n == Len(taken)
    <3>1. taken \in Seq(S) /\ new \in S
      BY <2>4 DEF ScannersOK
    <3> HIDE DEF S
    <3>2. /\ Append(taken, new) \in Seq(S)
          /\ Len(Append(taken, new)) = n + 1
          /\ Append(taken, new)[n + 1] = new
          /\ \A k \in 1 .. n : Append(taken, new)[k] = taken[k]
      BY <3>1, Appends
    <3>3. /\ DOMAIN taken = 1 .. n /\ n \in Nat
          /\ DOMAIN Append(taken, new) = 1 .. n + 1
      BY <3>1, <3>2, LenProperties
    <3>4. ASSUME NEW k \in DOMAIN taken'
          PROVE  Len(taken'[k][2]) < TagSize
      <4>1. k = n + 1 \/ k \in 1 .. n
        BY <2>1, <3>3
      <4>2. CASE k = n + 1
        BY <2>1, <2>2, <2>4, <3>2, <4>2
      <4>3. CASE k \in 1 .. n
        <5>1. taken'[k] = taken[k] /\ k \in DOMAIN taken
          BY <2>1, <3>2, <3>3, <4>3
        <5> QED
          BY <5>1 DEF ScannersOK
      <4> QED
        BY <4>1, <4>2, <4>3
    <3> QED
      BY <2>1, <3>2, <3>4 DEF S
  <2> QED
    BY <1>1, <1>4, <1>5, <2>1, <2>2, <2>3, <2>5 DEF ScannersOK
<1> QED
  BY <1>6, <1>7

LEMMA ReasoningPieceTyped ==
  ASSUME ScannersOK, NEW piece \in Vocabulary, ReasoningPiece(piece)
  PROVE  ScannersOK'
<1>1. /\ said'.text \in Texts
      /\ Len(said'.text) = Len(said.text) + Len(piece)
      /\ Len(said.text) \in Nat /\ Len(piece) \in Nat
      /\ said'.pieces \in 0 .. MaxPieces /\ mode' = mode
  BY SaidIs DEF ReasoningPiece
<1>2. piece \in Seq(Symbols) /\ FilterOK(Symbols, filter)
  BY PieceIsText DEF ScannersOK, Texts
<1>3. /\ FilterOK(Symbols, filter')
      /\ filter'.count <= filter.count + Len(piece)
  BY <1>2, FilteredKeeps DEF ReasoningPiece
<1>4. filter'.count <= Len(said'.text)
  <2>1. filter'.count \in Nat /\ filter.count \in Nat
    BY <1>2, <1>3, FilterParts
  <2> QED
    BY <1>1, <1>3, <2>1 DEF ScannersOK
<1>5. shown' \in Texts
  <2>1. filter'.out \in Seq(Symbols)
    BY <1>3, FilterParts
  <2>2. shown \o filter'.out \in Seq(Symbols)
    BY <2>1, ConcatProperties DEF ScannersOK, Texts
  <2> QED
    BY <2>2 DEF ReasoningPiece, Texts
<1> QED
  BY <1>1, <1>3, <1>4, <1>5 DEF ScannersOK, ReasoningPiece

LEMMA ScannersStay == ScannersOK /\ [Next]_vars => ScannersOK'
<1> SUFFICES ASSUME ScannersOK, [Next]_vars PROVE ScannersOK'
  OBVIOUS
<1>1. ASSUME NEW piece \in Vocabulary, AgentPiece(piece)
      PROVE  ScannersOK'
  BY <1>1, AgentPieceTyped
<1>2. ASSUME NEW piece \in Vocabulary, ReasoningPiece(piece)
      PROVE  ScannersOK'
  BY <1>2, ReasoningPieceTyped
<1>3. CASE Answered
  BY <1>3 DEF Answered, ScannersOK
<1>4. CASE UNCHANGED textVars
  BY <1>4 DEF textVars, ScannersOK
<1> QED
  BY <1>1, <1>2, <1>3, <1>4
     DEF Next, Skip, RunEmpty, RunCommand, DuringCall, vars

LEMMA ScannersInvariant == Spec => []ScannersOK
<1> QED
  BY ScannersStart, ScannersStay, PTL DEF Spec

\* Everything is well typed and no buffer overflows: the interceptor's, the
\* text of a tag, the filter's output and what it holds back.
THEOREM TypeCorrect == Spec => []TypeOK
<1>1. ASSUME FilterOK(Symbols, filter)
      PROVE  /\ filter \in [state : FilterStates, held : Texts, count : Nat,
                            out : Texts]
             /\ Len(filter.held) < Len(IF filter.state = "buffering_open"
                                         THEN OPEN_TAG ELSE CLOSE_TAG)
             /\ Len(filter.out) < OutputSize
  <2>1. /\ Len(OPEN_TAG) \in Nat /\ 2 <= Len(OPEN_TAG)
        /\ Len(CLOSE_TAG) \in Nat /\ 2 <= Len(CLOSE_TAG)
    BY FilterTags
  <2>2. CASE filter.state = "buffering_open"
    <3>1. Len(filter.held) < Len(OPEN_TAG)
      BY <1>1, <2>2 DEF FilterOK, Starts
    <3> QED
      BY <1>1, <2>2, <3>1 DEF FilterOK, FilterStates, Texts
  <2>3. CASE filter.state = "buffering_close"
    <3>1. Len(filter.held) < Len(CLOSE_TAG)
      BY <1>1, <2>3 DEF FilterOK, Starts
    <3> QED
      BY <1>1, <2>3, <3>1 DEF FilterOK, FilterStates, Texts
  <2>4. CASE filter.state \notin {"buffering_open", "buffering_close"}
    <3>1. filter.held = <<>> /\ Len(<<>>) = 0 /\ 0 < Len(CLOSE_TAG)
      BY <1>1, <2>1, <2>4 DEF FilterOK
    <3> QED
      BY <1>1, <2>4, <3>1 DEF FilterOK, FilterStates, Texts
  <2> QED
    BY <2>2, <2>3, <2>4
<1>2. ScannersOK /\ IInv => TypeOK
  BY <1>1 DEF ScannersOK, IInv, TypeOK
<1> QED
  BY <1>2, ScannersInvariant, Invariant, PTL

-----------------------------------------------------------------------------
(* Where the tags of a text stand.                                         *)

NoMarks(s, i, j) ==
  \A u \in Range(Tags), q \in Nat :
     i < q /\ q < j => ~OpenAt(s, u, q) /\ ~CloseAt(s, u, q)

LEMMA OpensAt ==
  ASSUME NEW S, NEW s \in Seq(S), NEW t, NEW i
  PROVE  i \in Finds(s, Open(t), 1) <=> i \in Nat /\ OpenAt(s, t, i)
<1>0. s \in Seq(S) /\ 1 \in Nat /\ 1 <= 1
  OBVIOUS
<1>1. /\ Finds(s, Open(t), 1) \subseteq Nat
      /\ \A k \in Nat :
           k \in Finds(s, Open(t), 1) <=> OpenAt(s, t, k) /\ 1 <= k
  BY <1>0, FindsOpen, Z3
<1>2. OpenAt(s, t, i) => 1 <= i
  BY DEF OpenAt
<1> QED
  BY <1>1, <1>2

LEMMA ClosesAt ==
  ASSUME NEW S, NEW s \in Seq(S), NEW t, NEW i
  PROVE  i \in Finds(s, Close(t), 1) <=> i \in Nat /\ CloseAt(s, t, i)
<1>0. s \in Seq(S) /\ 1 \in Nat /\ 1 <= 1
  OBVIOUS
<1>1. /\ Finds(s, Close(t), 1) \subseteq Nat
      /\ \A k \in Nat :
           k \in Finds(s, Close(t), 1) <=> CloseAt(s, t, k) /\ 1 <= k
  BY <1>0, FindsClose, Z3
<1>2. CloseAt(s, t, i) => 1 <= i
  BY DEF CloseAt
<1> QED
  BY <1>1, <1>2

LEMMA SpansAre ==
  ASSUME NEW S, NEW s \in Seq(S)
  PROVE  /\ \A t \in Range(Tags), i \in Nat, j \in Nat :
              OpenAt(s, t, i) /\ CloseAt(s, t, j) => <<t, i, j>> \in Spans(s)
         /\ \A x \in Spans(s) : \E t \in Range(Tags) : \E i, j \in Nat :
              x = <<t, i, j>> /\ OpenAt(s, t, i) /\ CloseAt(s, t, j)
<1>0. s \in Seq(S)
  OBVIOUS
<1>1. ASSUME NEW t
      PROVE  /\ \A i : i \in Finds(s, Open(t), 1) <=>
                         i \in Nat /\ OpenAt(s, t, i)
             /\ \A i : i \in Finds(s, Close(t), 1) <=>
                         i \in Nat /\ CloseAt(s, t, i)
  BY <1>0, OpensAt, ClosesAt, Z3
<1>2. ASSUME NEW t \in Range(Tags), NEW i \in Nat, NEW j \in Nat,
             OpenAt(s, t, i), CloseAt(s, t, j)
      PROVE  <<t, i, j>> \in Spans(s)
  BY <1>1, <1>2 DEF Spans
<1>3. ASSUME NEW x \in Spans(s)
      PROVE  \E t \in Range(Tags) : \E i, j \in Nat :
               x = <<t, i, j>> /\ OpenAt(s, t, i) /\ CloseAt(s, t, j)
  <2>1. PICK t \in Range(Tags) :
          \E i \in Finds(s, Open(t), 1), j \in Finds(s, Close(t), 1) :
             x = <<t, i, j>>
    BY <1>3 DEF Spans
  <2> QED
    BY <1>1, <2>1
<1> QED
  BY <1>2, <1>3

LEMMA MarksAre ==
  ASSUME NEW S, NEW s \in Seq(S)
  PROVE  /\ \A u \in Range(Tags), q \in Nat :
              /\ OpenAt(s, u, q) => <<"open", u, q>> \in Marks(s)
              /\ CloseAt(s, u, q) => <<"close", u, q>> \in Marks(s)
         /\ \A m \in Marks(s) : \E u \in Range(Tags), q \in Nat :
              \/ m = <<"open", u, q>> /\ OpenAt(s, u, q)
              \/ m = <<"close", u, q>> /\ CloseAt(s, u, q)
<1>0. s \in Seq(S)
  OBVIOUS
<1>1. ASSUME NEW t
      PROVE  /\ \A i : i \in Finds(s, Open(t), 1) <=>
                         i \in Nat /\ OpenAt(s, t, i)
             /\ \A i : i \in Finds(s, Close(t), 1) <=>
                         i \in Nat /\ CloseAt(s, t, i)
  BY <1>0, OpensAt, ClosesAt, Z3
<1>2. ASSUME NEW u \in Range(Tags), NEW q \in Nat
      PROVE  /\ OpenAt(s, u, q) => <<"open", u, q>> \in Marks(s)
             /\ CloseAt(s, u, q) => <<"close", u, q>> \in Marks(s)
  BY <1>1 DEF Marks
<1>3. ASSUME NEW m \in Marks(s)
      PROVE  \E u \in Range(Tags), q \in Nat :
               \/ m = <<"open", u, q>> /\ OpenAt(s, u, q)
               \/ m = <<"close", u, q>> /\ CloseAt(s, u, q)
  <2>1. PICK u \in Range(Tags) :
          \/ \E q \in Finds(s, Open(u), 1) : m = <<"open", u, q>>
          \/ \E q \in Finds(s, Close(u), 1) : m = <<"close", u, q>>
    BY <1>3 DEF Marks
  <2> QED
    BY <1>1, <2>1
<1> QED
  BY <1>2, <1>3

LEMMA PairsAre ==
  ASSUME NEW S, NEW s \in Seq(S)
  PROVE  /\ \A t \in Range(Tags), i \in Nat, j \in Nat :
              <<t, i, j>> \in Pairs(s) <=>
                /\ OpenAt(s, t, i) /\ CloseAt(s, t, j)
                /\ i < j /\ NoMarks(s, i, j)
         /\ \A x \in Pairs(s) : \E t \in Range(Tags) : \E i, j \in Nat :
              x = <<t, i, j>>
<1>0. s \in Seq(S)
  OBVIOUS
<1>1. ASSUME NEW i \in Nat, NEW j \in Nat
      PROVE  (\A m \in Marks(s) : ~(i < m[3] /\ m[3] < j))
                <=> NoMarks(s, i, j)
  <2>1. ASSUME \A m \in Marks(s) : ~(i < m[3] /\ m[3] < j),
               NEW u \in Range(Tags), NEW q \in Nat, i < q, q < j,
               OpenAt(s, u, q) \/ CloseAt(s, u, q)
        PROVE  FALSE
    <3>1. \/ <<"open", u, q>> \in Marks(s)
          \/ <<"close", u, q>> \in Marks(s)
      BY <1>0, <2>1, MarksAre, Z3
    <3>2. <<"open", u, q>>[3] = q /\ <<"close", u, q>>[3] = q
      OBVIOUS
    <3> QED
      BY <2>1, <3>1, <3>2
  <2>2. ASSUME NoMarks(s, i, j), NEW m \in Marks(s), i < m[3], m[3] < j
        PROVE  FALSE
    <3>1. PICK u \in Range(Tags), q \in Nat :
            \/ m = <<"open", u, q>> /\ OpenAt(s, u, q)
            \/ m = <<"close", u, q>> /\ CloseAt(s, u, q)
      BY <1>0, MarksAre, Z3
    <3>2. m[3] = q /\ (OpenAt(s, u, q) \/ CloseAt(s, u, q))
      BY <3>1
    <3> QED
      BY <2>2, <3>2 DEF NoMarks
  <2> QED
    BY <2>1, <2>2 DEF NoMarks
<1>2. ASSUME NEW t \in Range(Tags), NEW i \in Nat, NEW j \in Nat
      PROVE  <<t, i, j>> \in Pairs(s) <=>
                /\ OpenAt(s, t, i) /\ CloseAt(s, t, j)
                /\ i < j /\ NoMarks(s, i, j)
  <2> DEFINE x == <<t, i, j>>
  <2>1. x[1] = t /\ x[2] = i /\ x[3] = j
    OBVIOUS
  <2>2. x \in Spans(s) <=> OpenAt(s, t, i) /\ CloseAt(s, t, j)
    <3>1. OpenAt(s, t, i) /\ CloseAt(s, t, j) => x \in Spans(s)
      BY <1>0, SpansAre, Z3
    <3>2. ASSUME x \in Spans(s)
          PROVE  OpenAt(s, t, i) /\ CloseAt(s, t, j)
      <4>1. PICK u \in Range(Tags), k \in Nat, l \in Nat :
              x = <<u, k, l>> /\ OpenAt(s, u, k) /\ CloseAt(s, u, l)
        BY <1>0, <3>2, SpansAre
      <4>2. t = u /\ i = k /\ j = l
        BY <4>1
      <4> QED
        BY <4>1, <4>2
    <3> QED
      BY <3>1, <3>2
  <2> HIDE DEF x
  <2>3. x \in Pairs(s) <=>
          /\ x \in Spans(s) /\ i < j
          /\ \A m \in Marks(s) : ~(i < m[3] /\ m[3] < j)
    BY <2>1 DEF Pairs
  <2> QED
    BY <1>1, <2>2, <2>3 DEF x
<1>3. ASSUME NEW x \in Pairs(s)
      PROVE  \E t \in Range(Tags) : \E i, j \in Nat : x = <<t, i, j>>
  <2>1. x \in Spans(s)
    BY <1>3 DEF Pairs
  <2> QED
    BY <1>0, <2>1, SpansAre
<1> QED
  BY <1>2, <1>3

\* No bracket is inside a delimiter but its own.
LEMMA Brackets ==
  ASSUME NEW s, NEW t \in Range(Tags), NEW i \in Nat
  PROVE  /\ OpenAt(s, t, i) =>
              s[i] = "<" /\ s[i + 1] # "<" /\ s[i + 2] # "<"
         /\ CloseAt(s, t, i) =>
              /\ s[i] = "<" /\ s[i + 1] # "<"
              /\ s[i + 2] # "<" /\ s[i + 3] # "<"
<1>1. t # "<" /\ "/" # "<" /\ ">" # "<"
  BY TableOfTags
<1> QED
  BY <1>1 DEF OpenAt, CloseAt

\* Delimiters do not overlap, and none is of both kinds.
LEMMA Apart ==
  ASSUME NEW s, NEW t \in Range(Tags), NEW u \in Range(Tags),
         NEW i \in Nat, NEW q \in Nat,
         OpenAt(s, u, q) \/ CloseAt(s, u, q)
  PROVE  /\ OpenAt(s, t, i) /\ i < q => i + 3 <= q
         /\ CloseAt(s, t, i) /\ i < q => i + 4 <= q
         /\ OpenAt(s, t, i) /\ CloseAt(s, u, q) => i # q
<1>1. s[q] = "<"
  BY Brackets
<1>2. ASSUME OpenAt(s, t, i), i < q
      PROVE  i + 3 <= q
  <2>1. q # i + 1 /\ q # i + 2
    BY <1>1, <1>2, Brackets
  <2> QED
    BY <1>2, <2>1
<1>3. ASSUME CloseAt(s, t, i), i < q
      PROVE  i + 4 <= q
  <2>1. q # i + 1 /\ q # i + 2 /\ q # i + 3
    BY <1>1, <1>3, Brackets
  <2> QED
    BY <1>3, <2>1
<1>4. ASSUME OpenAt(s, t, i), CloseAt(s, u, q)
      PROVE  i # q
  <2>1. s[i + 1] = t /\ s[q + 1] = "/" /\ t # "/"
    BY <1>4, TableOfTags DEF OpenAt, CloseAt
  <2> QED
    BY <2>1
<1> QED
  BY <1>2, <1>3, <1>4

\* The pairs of a text are those of what it grows to that end in it.
LEMMA PairsGrow ==
  ASSUME NEW S, NEW s \in Seq(S), NEW p \in Seq(S),
         NEW t \in Range(Tags), NEW i \in Nat, NEW j \in Nat
  PROVE  <<t, i, j>> \in Pairs(s) <=>
           <<t, i, j>> \in Pairs(s \o p) /\ j + 3 <= Len(s)
<1> DEFINE sp == s \o p
<1>1. sp \in Seq(S) /\ s \in Seq(S)
  BY Joined
<1>2. ASSUME NEW u, NEW q \in Nat
      PROVE  /\ OpenAt(s, u, q) <=> OpenAt(sp, u, q) /\ q + 2 <= Len(s)
             /\ CloseAt(s, u, q) <=> CloseAt(sp, u, q) /\ q + 3 <= Len(s)
  BY HeadDelimiters
<1> HIDE DEF sp
<1>3. /\ <<t, i, j>> \in Pairs(s) <=>
           /\ OpenAt(s, t, i) /\ CloseAt(s, t, j) /\ i < j
           /\ NoMarks(s, i, j)
      /\ <<t, i, j>> \in Pairs(sp) <=>
           /\ OpenAt(sp, t, i) /\ CloseAt(sp, t, j) /\ i < j
           /\ NoMarks(sp, i, j)
  BY <1>1, PairsAre, Z3
<1>4. Len(s) \in Nat
  BY <1>1, LenProperties
<1>5. ASSUME CloseAt(sp, t, j), j + 3 <= Len(s)
      PROVE  NoMarks(s, i, j) <=> NoMarks(sp, i, j)
  <2>1. ASSUME NEW u \in Range(Tags), NEW q \in Nat, q < j
        PROVE  /\ OpenAt(s, u, q) <=> OpenAt(sp, u, q)
               /\ CloseAt(s, u, q) <=> CloseAt(sp, u, q)
    <3>1. q + 3 <= Len(s) /\ q + 2 <= Len(s)
      BY <1>4, <1>5, <2>1
    <3> QED
      BY <1>2, <3>1
  <2> QED
    BY <2>1 DEF NoMarks
<1>6. ASSUME j + 3 <= Len(s), i < j
      PROVE  i + 2 <= Len(s)
  BY <1>4, <1>6
<1> QED
  BY <1>2, <1>3, <1>5, <1>6 DEF sp

LEMMA ProperMeans ==
  ASSUME NEW S, NEW s \in Seq(S)
  PROVE  Proper(s) <=>
           \A u \in Range(Tags), q \in Nat :
             /\ CloseAt(s, u, q) =>
                  \E i \in Nat : <<u, i, q>> \in Pairs(s)
             /\ OpenAt(s, u, q) =>
                  \/ \E j \in Nat : <<u, q, j>> \in Pairs(s)
                  \/ \A v \in Range(Tags), r \in Nat :
                       OpenAt(s, v, r) \/ CloseAt(s, v, r) => r <= q
<1>0. s \in Seq(S)
  OBVIOUS
<1>1. \A u \in Range(Tags), q \in Nat :
        /\ OpenAt(s, u, q) => <<"open", u, q>> \in Marks(s)
        /\ CloseAt(s, u, q) => <<"close", u, q>> \in Marks(s)
  BY <1>0, MarksAre
<1>2. ASSUME NEW m \in Marks(s)
      PROVE  \E u \in Range(Tags), q \in Nat :
               \/ m = <<"open", u, q>> /\ OpenAt(s, u, q)
               \/ m = <<"close", u, q>> /\ CloseAt(s, u, q)
  <2>1. \A n \in Marks(s) : \E u \in Range(Tags), q \in Nat :
          \/ n = <<"open", u, q>> /\ OpenAt(s, u, q)
          \/ n = <<"close", u, q>> /\ CloseAt(s, u, q)
    BY <1>0, MarksAre
  <2> QED
    BY <2>1
<1>3. ASSUME NEW x \in Pairs(s)
      PROVE  \E t \in Range(Tags) : \E i, j \in Nat : x = <<t, i, j>>
  BY <1>0, PairsAre, Z3
<1>4. ASSUME NEW q \in Nat
      PROVE  (\A n \in Marks(s) : n[3] <= q) <=>
               \A v \in Range(Tags), r \in Nat :
                 OpenAt(s, v, r) \/ CloseAt(s, v, r) => r <= q
  <2>1. ASSUME \A n \in Marks(s) : n[3] <= q,
               NEW v \in Range(Tags), NEW r \in Nat,
               OpenAt(s, v, r) \/ CloseAt(s, v, r)
        PROVE  r <= q
    <3>1. <<"open", v, r>>[3] = r /\ <<"close", v, r>>[3] = r
      OBVIOUS
    <3> QED
      BY <1>1, <2>1, <3>1
  <2>2. ASSUME \A v \in Range(Tags), r \in Nat :
                 OpenAt(s, v, r) \/ CloseAt(s, v, r) => r <= q,
               NEW n \in Marks(s)
        PROVE  n[3] <= q
    <3>1. PICK v \in Range(Tags), r \in Nat :
            \/ n = <<"open", v, r>> /\ OpenAt(s, v, r)
            \/ n = <<"close", v, r>> /\ CloseAt(s, v, r)
      BY <1>2
    <3>2. n[3] = r
      BY <3>1
    <3> QED
      BY <2>2, <3>1, <3>2
  <2> QED
    BY <2>1, <2>2
<1>5. ASSUME NEW u, NEW q
      PROVE  /\ (\E p \in Pairs(s) :
                   <<"close", u, q>> \in {<<"open", p[1], p[2]>>,
                                          <<"close", p[1], p[3]>>})
                  <=> \E i \in Nat : <<u, i, q>> \in Pairs(s)
             /\ (\E p \in Pairs(s) :
                   <<"open", u, q>> \in {<<"open", p[1], p[2]>>,
                                         <<"close", p[1], p[3]>>})
                  <=> \E j \in Nat : <<u, q, j>> \in Pairs(s)
  <2>1. ASSUME NEW p \in Pairs(s)
        PROVE  /\ <<"close", u, q>> \in {<<"open", p[1], p[2]>>,
                                         <<"close", p[1], p[3]>>}
                    => \E i \in Nat : <<u, i, q>> \in Pairs(s)
               /\ <<"open", u, q>> \in {<<"open", p[1], p[2]>>,
                                        <<"close", p[1], p[3]>>}
                    => \E j \in Nat : <<u, q, j>> \in Pairs(s)
    <3>1. PICK t \in Range(Tags), i \in Nat, j \in Nat : p = <<t, i, j>>
      BY <1>3
    <3>2. p[1] = t /\ p[2] = i /\ p[3] = j /\ "open" # "close"
      BY <3>1
    <3>3. ASSUME <<"close", u, q>> \in {<<"open", p[1], p[2]>>,
                                        <<"close", p[1], p[3]>>}
          PROVE  u = t /\ q = j
      BY <3>2, <3>3
    <3>4. ASSUME <<"open", u, q>> \in {<<"open", p[1], p[2]>>,
                                       <<"close", p[1], p[3]>>}
          PROVE  u = t /\ q = i
      BY <3>2, <3>4
    <3> QED
      BY <3>1, <3>3, <3>4
  <2>2. ASSUME NEW i, <<u, i, q>> \in Pairs(s)
        PROVE  \E p \in Pairs(s) :
                  <<"close", u, q>> \in {<<"open", p[1], p[2]>>,
                                         <<"close", p[1], p[3]>>}
    <3>1. <<u, i, q>>[1] = u /\ <<u, i, q>>[3] = q
      OBVIOUS
    <3> QED
      BY <2>2, <3>1
  <2>3. ASSUME NEW j, <<u, q, j>> \in Pairs(s)
        PROVE  \E p \in Pairs(s) :
                  <<"open", u, q>> \in {<<"open", p[1], p[2]>>,
                                        <<"close", p[1], p[3]>>}
    <3>1. <<u, q, j>>[1] = u /\ <<u, q, j>>[2] = q
      OBVIOUS
    <3> QED
      BY <2>3, <3>1
  <2> QED
    BY <2>1, <2>2, <2>3
<1> DEFINE OK(m) == \/ \E p \in Pairs(s) : m \in {<<"open", p[1], p[2]>>,
                                                  <<"close", p[1], p[3]>>}
                    \/ m[1] = "open" /\ \A n \in Marks(s) : n[3] <= m[3]
<1>6. ASSUME NEW u \in Range(Tags), NEW q \in Nat
      PROVE  /\ OK(<<"close", u, q>>) <=>
                  \E i \in Nat : <<u, i, q>> \in Pairs(s)
             /\ OK(<<"open", u, q>>) <=>
                  \/ \E j \in Nat : <<u, q, j>> \in Pairs(s)
                  \/ \A v \in Range(Tags), r \in Nat :
                       OpenAt(s, v, r) \/ CloseAt(s, v, r) => r <= q
  <2>1. /\ <<"close", u, q>>[1] # "open" /\ <<"open", u, q>>[1] = "open"
        /\ <<"open", u, q>>[3] = q
    OBVIOUS
  <2> QED
    BY <1>4, <1>5, <2>1
<1>7. Proper(s) <=> \A m \in Marks(s) : OK(m)
  BY DEF Proper
<1> HIDE DEF OK
<1>8. (\A m \in Marks(s) : OK(m)) <=>
        \A u \in Range(Tags), q \in Nat :
          /\ CloseAt(s, u, q) => OK(<<"close", u, q>>)
          /\ OpenAt(s, u, q) => OK(<<"open", u, q>>)
  <2>1. ASSUME \A m \in Marks(s) : OK(m),
               NEW u \in Range(Tags), NEW q \in Nat
        PROVE  /\ CloseAt(s, u, q) => OK(<<"close", u, q>>)
               /\ OpenAt(s, u, q) => OK(<<"open", u, q>>)
    BY <1>1, <2>1
  <2>2. ASSUME \A u \in Range(Tags), q \in Nat :
                 /\ CloseAt(s, u, q) => OK(<<"close", u, q>>)
                 /\ OpenAt(s, u, q) => OK(<<"open", u, q>>),
               NEW m \in Marks(s)
        PROVE  OK(m)
    <3>1. PICK u \in Range(Tags), q \in Nat :
            \/ m = <<"open", u, q>> /\ OpenAt(s, u, q)
            \/ m = <<"close", u, q>> /\ CloseAt(s, u, q)
      BY <1>2
    <3> QED
      BY <2>2, <3>1
  <2> QED
    BY <2>1, <2>2
<1> QED
  BY <1>6, <1>7, <1>8

LEMMA ProperShrinks ==
  ASSUME NEW S, NEW s \in Seq(S), NEW p \in Seq(S), Proper(s \o p)
  PROVE  Proper(s)
<1> DEFINE sp == s \o p
<1>1. sp \in Seq(S) /\ s \in Seq(S) /\ Len(s) \in Nat
  BY Joined
<1>2. ASSUME NEW u, NEW q \in Nat
      PROVE  /\ OpenAt(s, u, q) <=> OpenAt(sp, u, q) /\ q + 2 <= Len(s)
             /\ CloseAt(s, u, q) <=> CloseAt(sp, u, q) /\ q + 3 <= Len(s)
  BY HeadDelimiters
<1>3. ASSUME NEW t \in Range(Tags), NEW i \in Nat, NEW j \in Nat
      PROVE  <<t, i, j>> \in Pairs(s) <=>
               <<t, i, j>> \in Pairs(sp) /\ j + 3 <= Len(s)
  BY PairsGrow
<1>4. \A u \in Range(Tags), q \in Nat :
        /\ CloseAt(sp, u, q) => \E i \in Nat : <<u, i, q>> \in Pairs(sp)
        /\ OpenAt(sp, u, q) =>
             \/ \E j \in Nat : <<u, q, j>> \in Pairs(sp)
             \/ \A v \in Range(Tags), r \in Nat :
                  OpenAt(sp, v, r) \/ CloseAt(sp, v, r) => r <= q
  BY <1>1, ProperMeans
<1> HIDE DEF sp
<1>5. ASSUME NEW u \in Range(Tags), NEW q \in Nat, CloseAt(s, u, q)
      PROVE  \E i \in Nat : <<u, i, q>> \in Pairs(s)
  <2>1. CloseAt(sp, u, q) /\ q + 3 <= Len(s)
    BY <1>2, <1>5
  <2>2. PICK i \in Nat : <<u, i, q>> \in Pairs(sp)
    BY <1>4, <2>1
  <2> QED
    BY <1>3, <2>1, <2>2
<1>6. ASSUME NEW u \in Range(Tags), NEW q \in Nat, OpenAt(s, u, q),
             NEW v \in Range(Tags), NEW r \in Nat,
             OpenAt(s, v, r) \/ CloseAt(s, v, r), ~(r <= q)
      PROVE  \E j \in Nat : <<u, q, j>> \in Pairs(s)
  <2>1. /\ OpenAt(sp, u, q) /\ q < r /\ r + 2 <= Len(s)
        /\ OpenAt(sp, v, r) \/ CloseAt(sp, v, r)
    <3>1. OpenAt(sp, u, q) /\ q < r
      BY <1>2, <1>6
    <3>2. OpenAt(s, v, r) => OpenAt(sp, v, r) /\ r + 2 <= Len(s)
      BY <1>2
    <3>3. CloseAt(s, v, r) => CloseAt(sp, v, r) /\ r + 3 <= Len(s)
      BY <1>2
    <3>4. r + 3 <= Len(s) => r + 2 <= Len(s)
      BY <1>1
    <3> QED
      BY <1>6, <3>1, <3>2, <3>3, <3>4
  <2>2. PICK j \in Nat : <<u, q, j>> \in Pairs(sp)
    BY <1>4, <1>6, <2>1
  <2>3. CloseAt(sp, u, j) /\ q < j /\ NoMarks(sp, q, j)
    BY <1>1, <2>2, PairsAre, Z3
  <2>4. j <= r
    BY <2>1, <2>3 DEF NoMarks
  <2>5. j < r => j + 4 <= r
    BY <2>1, <2>3, Apart
  <2>6. j = r => CloseAt(s, v, r) /\ r + 3 <= Len(s)
    <3>1. ASSUME j = r, OpenAt(s, v, r)
          PROVE  FALSE
      <4>1. OpenAt(sp, v, r) /\ CloseAt(sp, u, j)
        BY <1>2, <2>3, <3>1
      <4> QED
        BY <3>1, <4>1, Apart
    <3>2. CloseAt(s, v, r) => r + 3 <= Len(s)
      BY <1>2
    <3> QED
      BY <1>6, <3>1, <3>2
  <2>7. j + 3 <= Len(s)
    BY <1>1, <2>1, <2>4, <2>5, <2>6
  <2> QED
    BY <1>3, <2>2, <2>7
<1> QED
  <2>1. \A u \in Range(Tags), q \in Nat :
          /\ CloseAt(s, u, q) => \E i \in Nat : <<u, i, q>> \in Pairs(s)
          /\ OpenAt(s, u, q) =>
               \/ \E j \in Nat : <<u, q, j>> \in Pairs(s)
               \/ \A v \in Range(Tags), r \in Nat :
                    OpenAt(s, v, r) \/ CloseAt(s, v, r) => r <= q
    BY <1>5, <1>6
  <2> QED
    BY <1>1, <2>1, ProperMeans

\* No piece holds a whole tag behind the end of another.
LEMMA OneTagOfPiece ==
  ASSUME NEW S, NEW s \in Seq(S), NEW piece \in Vocabulary, piece \in Seq(S),
         NEW t \in Range(Tags), NEW i \in Nat, NEW j \in Nat, NEW e \in Nat,
         OpenAt(s \o piece, t, i), CloseAt(s \o piece, t, j), i < j,
         Len(s) < e, e < i, (s \o piece)[e] = ">"
  PROVE  FALSE
<1> DEFINE sp == s \o piece
           n == Len(s)
<1>1. /\ sp \in Seq(S) /\ Len(sp) = n + Len(piece)
      /\ n \in Nat /\ Len(piece) \in Nat
      /\ \A k \in 1 .. Len(piece) : sp[n + k] = piece[k]
  BY Joined
<1> HIDE DEF sp
<1>2. IsTail(piece, sp)
  <2>1. Len(sp) - Len(piece) = n /\ Len(piece) <= Len(sp)
    BY <1>1
  <2> HIDE DEF n
  <2> QED
    BY <1>1, <2>1 DEF IsTail
<1>3. ASSUME NEW k \in Nat, 1 <= k
      PROVE  /\ OpenAt(piece, t, k) <=> OpenAt(sp, t, n + k)
             /\ CloseAt(piece, t, k) <=> CloseAt(sp, t, n + k)
  <2>1. Len(sp) - Len(piece) = n
    BY <1>1
  <2>2. /\ OpenAt(piece, t, k) <=> OpenAt(sp, t, Len(sp) - Len(piece) + k)
        /\ CloseAt(piece, t, k) <=> CloseAt(sp, t, Len(sp) - Len(piece) + k)
    <3>1. piece \in Seq(S) /\ sp \in Seq(S) /\ k \in Nat /\ 1 <= k
      BY <1>1, <1>3
    <3> QED
      BY <1>2, <3>1, TailDelimiters, Z3
  <2> HIDE DEF n
  <2> QED
    BY <2>1, <2>2
<1>4. /\ i - n \in Nat /\ 1 <= i - n /\ n + (i - n) = i
      /\ j - n \in Nat /\ 1 <= j - n /\ n + (j - n) = j
      /\ e - n \in 1 .. Len(piece) /\ n + (e - n) = e
      /\ e - n < i - n /\ i - n <= j - n
  <2>1. OpenAt(sp, t, i)
    BY DEF sp
  <2>2. i + 2 <= n + Len(piece)
    BY <1>1, <2>1 DEF OpenAt
  <2> HIDE DEF n
  <2> QED
    BY <1>1, <2>2 DEF n
<1>5. OpenAt(piece, t, i - n) /\ CloseAt(piece, t, j - n)
  <2>1. OpenAt(sp, t, i) /\ CloseAt(sp, t, j)
    BY DEF sp
  <2> HIDE DEF n
  <2> QED
    BY <1>3, <1>4, <2>1
<1>6. piece[e - n] = ">"
  <2>1. sp[e] = ">"
    BY DEF sp
  <2> HIDE DEF n
  <2> QED
    BY <1>1, <1>4, <2>1
<1>7. piece \in Seq(S)
  OBVIOUS
<1>8. i - n \in Finds(piece, Open(t), 1)
  BY <1>4, <1>5, <1>7, OpensAt, Z3
<1>9. j - n \in Finds(piece, Close(t), i - n)
  <2> DEFINE a == i - n
             c == j - n
  <2>1. a \in Nat /\ 1 <= a /\ c \in Nat /\ CloseAt(piece, t, c) /\ a <= c
    BY <1>4, <1>5
  <2> HIDE DEF a, c
  <2>2. c \in Finds(piece, Close(t), a)
    BY <1>7, <2>1, FindsClose, Z3
  <2> QED
    BY <2>2 DEF a, c
<1> QED
  BY <1>4, <1>6, <1>8, <1>9, VocabularyAssumption

-----------------------------------------------------------------------------
(* What has been taken, and where it was said.                             *)

\* at[k] is the span of the k-th tag, behind the one before it, and the
\* buffer b holds what was said behind the last.
ReadAt(at, tags, s, b) ==
  /\ IsTail(b, s)
  /\ at \in [DOMAIN tags -> Spans(s)]
  /\ \A k \in DOMAIN tags :
       /\ at[k][1] = tags[k][1] /\ at[k][2] + 3 <= at[k][3]
       /\ Between(s, at[k]) = tags[k][2]
       /\ at[k][3] + 3 <= Len(s) - Len(b)
       /\ \A l \in 1 .. k - 1 : at[l][3] < at[k][2]
  /\ Len(s) - Len(b) = IF tags = <<>> THEN 0 ELSE at[Len(tags)][3] + 3

\* In a text with no nested or unbalanced tag, all of them.
Read(tags, s, b) ==
  \E at : ReadAt(at, tags, s, b) /\ (Proper(s) => Range(at) = Pairs(s))

LEMMA SpanKept ==
  ASSUME NEW S, NEW s \in Seq(S), NEW p \in Seq(S),
         NEW x \in Spans(s), x[2] + 3 <= x[3]
  PROVE  x \in Spans(s \o p) /\ Between(s \o p, x) = Between(s, x)
<1>1. PICK t \in Range(Tags), i \in Nat, j \in Nat :
        x = <<t, i, j>> /\ OpenAt(s, t, i) /\ CloseAt(s, t, j)
  BY SpansAre
<1>2. x[1] = t /\ x[2] = i /\ x[3] = j /\ i + 3 <= j
  BY <1>1
<1>3. OpenAt(s \o p, t, i) /\ CloseAt(s \o p, t, j)
  BY <1>1, HeadDelimiters
<1>4. x \in Spans(s \o p)
  <2> DEFINE sp == s \o p
  <2>1. sp \in Seq(S) /\ OpenAt(sp, t, i) /\ CloseAt(sp, t, j)
    BY <1>3, Joined
  <2> HIDE DEF sp
  <2>2. <<t, i, j>> \in Spans(sp)
    BY <2>1, SpansAre, Z3
  <2> QED
    BY <1>1, <2>2 DEF sp
<1>5. /\ i + 3 \in 1 .. Len(s) + 1 /\ j - 1 \in (i + 3) - 1 .. Len(s)
  <2>1. Len(s) \in Nat /\ j + 3 <= Len(s)
    BY <1>1, LenProperties DEF CloseAt
  <2> QED
    BY <1>2, <2>1
<1>6. SubSeq(s \o p, i + 3, j - 1) = SubSeq(s, i + 3, j - 1)
  BY <1>5, HeadPart
<1> QED
  BY <1>2, <1>4, <1>6, OpenIs DEF Between

\* What was read stays where it was said as the text grows.
LEMMA ReadKept ==
  ASSUME NEW S, NEW s \in Seq(S), NEW b \in Seq(S), NEW p \in Seq(S),
         NEW at, NEW tags, ReadAt(at, tags, s, b)
  PROVE  ReadAt(at, tags, s \o p, b \o p)
<1> DEFINE sp == s \o p
           bp == b \o p
<1>1. IsTail(bp, sp)
  BY TailJoined DEF ReadAt
<1>2. Len(sp) - Len(bp) = Len(s) - Len(b)
  <2>1. Len(sp) = Len(s) + Len(p) /\ Len(bp) = Len(b) + Len(p)
    BY Joined
  <2>2. Len(s) \in Nat /\ Len(b) \in Nat /\ Len(p) \in Nat
    BY LenProperties
  <2> HIDE DEF sp, bp
  <2> QED
    BY <2>1, <2>2
<1>3. ASSUME NEW k \in DOMAIN tags
      PROVE  at[k] \in Spans(sp) /\ Between(sp, at[k]) = tags[k][2]
  <2>1. /\ at[k] \in Spans(s) /\ at[k][2] + 3 <= at[k][3]
        /\ Between(s, at[k]) = tags[k][2]
    BY DEF ReadAt
  <2> QED
    BY <2>1, SpanKept
<1> HIDE DEF sp, bp
<1>4. at \in [DOMAIN tags -> Spans(sp)]
  BY <1>3 DEF ReadAt
<1> QED
  BY <1>1, <1>2, <1>3, <1>4 DEF ReadAt, sp, bp

\* A pair that ends in the new piece begins in the buffer.
LEMMA PairInBuffer ==
  ASSUME NEW S, NEW s \in Seq(S), NEW b \in Seq(S), NEW p \in Seq(S),
         NEW T, NEW tags \in Seq(T), NEW at,
         ReadAt(at, tags, s, b), Range(at) \subseteq Pairs(s),
         NEW u \in Range(Tags), NEW a \in Nat, NEW c \in Nat,
         <<u, a, c>> \in Pairs(s \o p), Len(s) < c + 3
  PROVE  Len(s) - Len(b) < a
<1> DEFINE sp == s \o p
           o == Len(s) - Len(b)
           n == Len(tags)
<1>1. sp \in Seq(S)
  BY Joined
<1>2. /\ OpenAt(sp, u, a) /\ CloseAt(sp, u, c) /\ a < c /\ NoMarks(sp, a, c)
  <2>1. <<u, a, c>> \in Pairs(sp)
    OBVIOUS
  <2> HIDE DEF sp
  <2> QED
    BY <1>1, <2>1, PairsAre, Z3
<1>3. Len(s) \in Nat /\ Len(b) \in Nat /\ o \in Nat /\ o <= Len(s)
  BY LenProperties DEF ReadAt, IsTail
<1>4. CASE tags = <<>>
  <2>1. o = 0
    BY <1>4 DEF ReadAt
  <2> QED
    BY <1>2, <2>1 DEF OpenAt
<1>5. CASE tags # <<>>
  <2>1. n \in DOMAIN tags
    <3>1. n \in Nat /\ DOMAIN tags = 1 .. n /\ n # 0
      BY <1>5, LenProperties, EmptySeq
    <3> QED
      BY <3>1
  <2>2. at[n] \in Pairs(s) /\ o = at[n][3] + 3
    <3>1. at[n] \in Range(at)
      BY <2>1 DEF ReadAt, Range
    <3> QED
      BY <1>5, <3>1 DEF ReadAt
  <2>3. PICK t \in Range(Tags), i \in Nat, j \in Nat :
          at[n] = <<t, i, j>>
    BY <2>2, PairsAre
  <2>4. o = j + 3 /\ <<t, i, j>> \in Pairs(s)
    BY <2>2, <2>3
  <2>5. CloseAt(s, t, j)
    <3>1. s \in Seq(S)
      OBVIOUS
    <3> QED
      BY <2>4, <3>1, PairsAre, Z3
  <2>6. CloseAt(sp, t, j)
    BY <2>5, HeadDelimiters
  <2> HIDE DEF sp, o, n
  <2>7. j < c
    BY <1>3, <2>4
  <2>8. ~(a < j)
    BY <1>2, <2>6, <2>7 DEF NoMarks
  <2>9. a # j
    BY <1>2, <2>6, Apart
  <2>10. j + 4 <= a
    <3>1. j < a
      BY <2>8, <2>9
    <3> QED
      BY <1>2, <2>6, <3>1, Apart
  <2> QED
    BY <1>3, <2>4, <2>10 DEF o
<1> QED
  BY <1>4, <1>5

LEMMA PairTyped ==
  ASSUME NEW S, NEW s \in Seq(S), NEW x \in Pairs(s)
  PROVE  \E t \in Range(Tags) : \E i, j \in Nat :
           /\ x = <<t, i, j>> /\ OpenAt(s, t, i) /\ CloseAt(s, t, j)
           /\ i < j /\ NoMarks(s, i, j)
<1>0. s \in Seq(S)
  OBVIOUS
<1>1. PICK t \in Range(Tags), i \in Nat, j \in Nat : x = <<t, i, j>>
  BY PairsAre
<1>2. <<t, i, j>> \in Pairs(s)
  BY <1>1
<1>3. OpenAt(s, t, i) /\ CloseAt(s, t, j) /\ i < j /\ NoMarks(s, i, j)
  BY <1>0, <1>2, PairsAre, Z3
<1> QED
  BY <1>1, <1>3

\* The delimiters of the buffer and those of the text.
LEMMA InBuffer ==
  ASSUME NEW S, NEW s \in Seq(S), NEW b \in Seq(S), IsTail(b, s),
         NEW u, NEW q \in Nat, Len(s) - Len(b) < q
  PROVE  /\ q - (Len(s) - Len(b)) \in Nat
         /\ OpenAt(b, u, q - (Len(s) - Len(b))) <=> OpenAt(s, u, q)
         /\ CloseAt(b, u, q - (Len(s) - Len(b))) <=> CloseAt(s, u, q)
<1> DEFINE o == Len(s) - Len(b)
           k == q - o
<1>1. o \in Nat
  BY LenProperties DEF IsTail
<1>2. k \in Nat /\ 1 <= k /\ o + k = q
  <2> HIDE DEF o
  <2> QED
    BY <1>1 DEF o
<1> HIDE DEF k
<1>3. /\ OpenAt(b, u, k) <=> OpenAt(s, u, o + k)
      /\ CloseAt(b, u, k) <=> CloseAt(s, u, o + k)
  BY <1>2, TailDelimiters
<1> QED
  BY <1>2, <1>3 DEF k

\* The buffer grows by a piece and still holds no complete tag.
LEMMA ReadMore ==
  ASSUME NEW S, NEW s \in Seq(S), NEW b \in Seq(S), NEW p \in Seq(S),
         NEW T, NEW tags \in Seq(T),
         Read(tags, s, b), Complete(b \o p) = {}
  PROVE  Read(tags, s \o p, b \o p)
<1> DEFINE sp == s \o p
           bp == b \o p
<1>1. PICK at : ReadAt(at, tags, s, b) /\ (Proper(s) => Range(at) = Pairs(s))
  BY DEF Read
<1>2. ReadAt(at, tags, sp, bp)
  BY <1>1, ReadKept
<1>3. sp \in Seq(S) /\ bp \in Seq(S)
  BY Joined
<1>4. Len(sp) - Len(bp) = Len(s) - Len(b) /\ Len(s) \in Nat
  <2>1. Len(sp) = Len(s) + Len(p) /\ Len(bp) = Len(b) + Len(p)
    BY Joined
  <2>2. Len(s) \in Nat /\ Len(b) \in Nat /\ Len(p) \in Nat
    BY LenProperties
  <2> HIDE DEF sp, bp
  <2> QED
    BY <2>1, <2>2
<1>5. ASSUME Proper(sp)
      PROVE  Range(at) = Pairs(sp)
  <2>1. Range(at) = Pairs(s)
    BY <1>1, <1>5, ProperShrinks
  <2>2. ASSUME NEW x \in Pairs(s)
        PROVE  x \in Pairs(sp)
    <3>1. PICK t \in Range(Tags), i \in Nat, j \in Nat : x = <<t, i, j>>
      BY PairsAre
    <3> QED
      BY <3>1, PairsGrow
  <2>3. ASSUME NEW x \in Pairs(sp)
        PROVE  x \in Pairs(s)
    <3> HIDE DEF sp
    <3>1. PICK t \in Range(Tags), i \in Nat, j \in Nat :
            x = <<t, i, j>> /\ OpenAt(sp, t, i) /\ CloseAt(sp, t, j) /\ i < j
      BY <1>3, PairTyped
    <3> USE DEF sp
    <3>2. CASE j + 3 <= Len(s)
      BY <3>1, <3>2, PairsGrow
    <3>3. CASE ~(j + 3 <= Len(s))
      <4>1. Len(s) < j + 3
        BY <1>4, <3>3
      <4>2. Len(s) - Len(b) < i
        BY <1>1, <2>1, <3>1, <4>1, PairInBuffer
      <4>3. i + 3 <= j
        BY <3>1, Apart
      <4> DEFINE o == Len(sp) - Len(bp)
      <4>4. o \in Int /\ o < i /\ o < j
        <5>1. Len(s) - Len(b) \in Int
          BY LenProperties
        <5> HIDE DEF sp, bp
        <5> QED
          BY <1>4, <3>1, <4>2, <5>1
      <4>5. /\ i - o \in Nat /\ j - o \in Nat
            /\ OpenAt(bp, t, i - o) /\ CloseAt(bp, t, j - o)
        <5>1. IsTail(bp, sp)
          BY <1>2 DEF ReadAt
        <5> HIDE DEF sp, bp
        <5> QED
          BY <1>3, <3>1, <4>4, <5>1, InBuffer
      <4>6. i - o + 3 <= j - o
        <5> HIDE DEF o
        <5> QED
          BY <4>3, <4>4
      <4> HIDE DEF o, sp
      <4>7. Complete(bp) = {}
        OBVIOUS
      <4> HIDE DEF bp
      <4> QED
        BY <1>3, <4>5, <4>6, <4>7, NoneComplete
    <3> QED
      BY <3>2, <3>3
  <2> QED
    BY <2>1, <2>2, <2>3
<1> QED
  BY <1>2, <1>5 DEF Read

\* In a text with no nested or unbalanced tag, the first closing delimiter
\* behind an opening one is its own.
LEMMA FirstCloseIsOwn ==
  ASSUME NEW S, NEW s \in Seq(S), Proper(s),
         NEW t \in Range(Tags), NEW i \in Nat, NEW j \in Nat,
         OpenAt(s, t, i), CloseAt(s, t, j), i < j,
         \A k \in Nat : CloseAt(s, t, k) /\ i + 3 <= k => j <= k
  PROVE  <<t, i, j>> \in Pairs(s)
<1>1. \/ \E c \in Nat : <<t, i, c>> \in Pairs(s)
      \/ \A v \in Range(Tags), r \in Nat :
           OpenAt(s, v, r) \/ CloseAt(s, v, r) => r <= i
  BY ProperMeans
<1>2. PICK c \in Nat : <<t, i, c>> \in Pairs(s)
  BY <1>1
<1>3. CloseAt(s, t, c) /\ i < c /\ NoMarks(s, i, c)
  <2>1. s \in Seq(S)
    OBVIOUS
  <2> QED
    BY <1>2, <2>1, PairsAre, Z3
<1>4. i + 3 <= c
  BY <1>3, Apart
<1>5. j <= c
  BY <1>3, <1>4
<1>6. ~(j < c)
  BY <1>3 DEF NoMarks
<1>7. j = c
  BY <1>5, <1>6
<1> QED
  BY <1>2, <1>7

\* Of the pairs that end in one piece, none ends before the other.
LEMMA EndsOnce ==
  ASSUME NEW S, NEW s \in Seq(S), NEW piece \in Vocabulary, piece \in Seq(S),
         NEW t \in Range(Tags), NEW j \in Nat, CloseAt(s \o piece, t, j),
         NEW u \in Range(Tags), NEW a \in Nat, NEW c \in Nat,
         <<u, a, c>> \in Pairs(s \o piece), Len(s) < j + 3, j < c
  PROVE  FALSE
<1> DEFINE sp == s \o piece
<1>1. sp \in Seq(S) /\ <<u, a, c>> \in Pairs(sp) /\ CloseAt(sp, t, j)
  BY Joined
<1> HIDE DEF sp
<1>2. OpenAt(sp, u, a) /\ CloseAt(sp, u, c) /\ a < c /\ NoMarks(sp, a, c)
  BY <1>1, PairsAre, Z3
<1>3. ~(a < j)
  BY <1>1, <1>2 DEF NoMarks
<1>4. a # j
  BY <1>1, <1>2, Apart
<1>5. j + 4 <= a
  <2>1. j < a
    BY <1>3, <1>4
  <2> QED
    BY <1>1, <1>2, <2>1, Apart
<1>6. sp[j + 3] = ">"
  BY <1>1 DEF CloseAt
<1>7. j + 3 \in Nat /\ j + 3 < a
  BY <1>5
<1> QED
  BY <1>2, <1>6, <1>7, OneTagOfPiece DEF sp

LEMMA OnePairOfPiece ==
  ASSUME NEW S, NEW s \in Seq(S), NEW piece \in Vocabulary, piece \in Seq(S),
         NEW t \in Range(Tags), NEW i \in Nat, NEW j \in Nat,
         NEW u \in Range(Tags), NEW a \in Nat, NEW c \in Nat,
         <<t, i, j>> \in Pairs(s \o piece), Len(s) < j + 3,
         <<u, a, c>> \in Pairs(s \o piece), Len(s) < c + 3
  PROVE  t = u /\ i = a /\ j = c
<1> DEFINE sp == s \o piece
<1>1. sp \in Seq(S) /\ <<u, a, c>> \in Pairs(sp) /\ <<t, i, j>> \in Pairs(sp)
  BY Joined
<1> HIDE DEF sp
<1>2. OpenAt(sp, u, a) /\ CloseAt(sp, u, c) /\ a < c /\ NoMarks(sp, a, c)
  BY <1>1, PairsAre, Z3
<1>3. OpenAt(sp, t, i) /\ CloseAt(sp, t, j) /\ i < j /\ NoMarks(sp, i, j)
  BY <1>1, PairsAre, Z3
<1>4. ~(j < c)
  BY <1>3, EndsOnce DEF sp
<1>5. ~(c < j)
  BY <1>2, EndsOnce DEF sp
<1>6. j = c
  BY <1>4, <1>5
<1>7. t = u
  BY <1>2, <1>3, <1>6 DEF CloseAt
<1>8. ~(i < a) /\ ~(a < i)
  BY <1>2, <1>3, <1>6 DEF NoMarks
<1> QED
  BY <1>6, <1>7, <1>8

\* A tag is added to those that were read.
LEMMA ReadAppend ==
  ASSUME NEW S, NEW s \in Seq(S), NEW b \in Seq(S), NEW r \in Seq(S),
         NEW T, NEW tags \in Seq(T), NEW new \in T, NEW at,
         ReadAt(at, tags, s, b), IsTail(r, s),
         NEW x \in Spans(s), x[2] \in Nat, x[3] \in Nat, x[2] + 3 <= x[3],
         Len(s) - Len(b) < x[2], Len(s) - Len(r) = x[3] + 3,
         x[1] = new[1], Between(s, x) = new[2]
  PROVE  ReadAt([k \in 1 .. Len(tags) + 1 |->
                   IF k = Len(tags) + 1 THEN x ELSE at[k]],
                Append(tags, new), s, r)
<1> DEFINE n == Len(tags)
           more == Append(tags, new)
           on == [k \in 1 .. n + 1 |-> IF k = n + 1 THEN x ELSE at[k]]
           o == Len(s) - Len(b)
<1>1. /\ n \in Nat /\ DOMAIN tags = 1 .. n
      /\ Len(more) = n + 1 /\ DOMAIN more = 1 .. n + 1 /\ more # <<>>
      /\ more[n + 1] = new /\ \A k \in 1 .. n : more[k] = tags[k]
  <2>1. more \in Seq(T) /\ Len(more) = n + 1
    BY Appends
  <2>2. DOMAIN more = 1 .. Len(more) /\ (more = <<>> => Len(more) = 0)
    BY <2>1, LenProperties, EmptySeq
  <2>3. n \in Nat /\ DOMAIN tags = 1 .. n
    BY LenProperties
  <2>4. more[n + 1] = new /\ \A k \in 1 .. n : more[k] = tags[k]
    BY Appends
  <2> HIDE DEF more
  <2> QED
    BY <2>1, <2>2, <2>3, <2>4
<1>2. on[n + 1] = x /\ \A k \in 1 .. n : on[k] = at[k] /\ k # n + 1
  BY <1>1
<1>3. o \in Int /\ o <= x[3] + 3
  <2>1. o \in Int
    BY LenProperties
  <2> HIDE DEF o
  <2> QED
    BY <2>1 DEF o
<1>4. on \in [1 .. n + 1 -> Spans(s)]
  <2>1. ASSUME NEW k \in 1 .. n + 1
        PROVE  (IF k = n + 1 THEN x ELSE at[k]) \in Spans(s)
    <3>1. k # n + 1 => k \in DOMAIN tags
      BY <1>1
    <3> QED
      BY <3>1 DEF ReadAt
  <2> QED
    BY <2>1
<1> HIDE DEF on, more
<1>5. ASSUME NEW k \in 1 .. n
      PROVE  /\ on[k] = at[k] /\ on[k][3] \in Nat
             /\ on[k][1] = more[k][1] /\ on[k][2] + 3 <= on[k][3]
             /\ Between(s, on[k]) = more[k][2]
             /\ on[k][3] + 3 <= o
             /\ \A l \in 1 .. k - 1 : on[l][3] < on[k][2]
  <2>1. k \in DOMAIN tags /\ on[k] = at[k] /\ more[k] = tags[k]
    BY <1>1, <1>2
  <2>2. /\ at[k][1] = tags[k][1] /\ at[k][2] + 3 <= at[k][3]
        /\ Between(s, at[k]) = tags[k][2]
        /\ at[k][3] + 3 <= o /\ at[k] \in Spans(s)
        /\ \A l \in 1 .. k - 1 : at[l][3] < at[k][2]
    BY <2>1 DEF ReadAt
  <2>3. at[k][3] \in Nat
    <3> DEFINE y == at[k]
    <3>1. y \in Spans(s)
      BY <2>2
    <3> HIDE DEF y
    <3>2. PICK t \in Range(Tags) : \E i, j \in Nat : y = <<t, i, j>>
      BY <3>1, SpansAre
    <3>3. y[3] \in Nat
      BY <3>2
    <3> QED
      BY <3>3 DEF y
  <2>4. \A l \in 1 .. k - 1 : on[l] = at[l]
    <3>1. \A l \in 1 .. k - 1 : l \in 1 .. n
      BY <1>1
    <3> QED
      BY <1>2, <3>1
  <2> HIDE DEF o
  <2> QED
    BY <2>1, <2>2, <2>3, <2>4
<1>6. ASSUME NEW k \in 1 .. n + 1
      PROVE  /\ on[k][1] = more[k][1] /\ on[k][2] + 3 <= on[k][3]
             /\ Between(s, on[k]) = more[k][2]
             /\ on[k][3] + 3 <= x[3] + 3
             /\ \A l \in 1 .. k - 1 : on[l][3] < on[k][2]
  <2>1. CASE k = n + 1
    <3>1. /\ on[k] = x /\ more[k] = new
      BY <1>1, <1>2, <2>1
    <3>2. ASSUME NEW l \in 1 .. k - 1
          PROVE  on[l][3] < x[2]
      <4>1. l \in 1 .. n
        BY <1>1, <2>1
      <4>2. on[l][3] + 3 <= o /\ on[l][3] \in Nat
        BY <1>5, <4>1
      <4>3. o < x[2]
        OBVIOUS
      <4> DEFINE u == on[l][3]
                 v == x[2]
      <4> HIDE DEF o, u, v
      <4>4. u + 3 <= o /\ u \in Nat /\ o < v /\ v \in Nat /\ o \in Int
        BY <1>3, <4>2, <4>3 DEF u, v
      <4>5. u < v
        BY <4>4
      <4> QED
        BY <4>5 DEF u, v
    <3> QED
      BY <3>1, <3>2
  <2>2. CASE k # n + 1
    <3>1. k \in 1 .. n
      BY <1>1, <2>2
    <3>2. on[k][3] + 3 <= o /\ on[k][3] \in Nat
      BY <1>5, <3>1
    <3> DEFINE u == on[k][3]
               v == x[3]
    <3> HIDE DEF o, u, v
    <3>3. on[k][3] + 3 <= x[3] + 3
      <4>1. u + 3 <= o /\ u \in Nat /\ o <= v + 3 /\ v \in Nat /\ o \in Int
        BY <1>3, <3>2 DEF u, v
      <4>2. u + 3 <= v + 3
        BY <4>1
      <4> QED
        BY <4>2 DEF u, v
    <3> QED
      BY <1>5, <3>1, <3>3
  <2> QED
    BY <2>1, <2>2
<1>7. Len(s) - Len(r) = on[Len(more)][3] + 3
  BY <1>1, <1>2
<1> HIDE DEF n
<1>8. ReadAt(on, more, s, r)
  BY <1>1, <1>4, <1>6, <1>7 DEF ReadAt
<1> QED
  BY <1>8 DEF on, more, n

\* The buffer and a piece hold a complete tag: it goes, and what is left
\* holds none.
LEMMA ReadTake ==
  ASSUME NEW S, NEW s \in Seq(S), NEW b \in Seq(S),
         NEW piece \in Vocabulary, piece \in Seq(S),
         NEW T, NEW tags \in Seq(T), Read(tags, s, b),
         Complete(b) = {}, Complete(b \o piece) # {},
         NEW tag, tag = Taken(b \o piece), <<tag.tag, tag.text>> \in T
  PROVE  /\ Complete(tag.rest) = {}
         /\ Read(Append(tags, <<tag.tag, tag.text>>), s \o piece, tag.rest)
<1> DEFINE sp == s \o piece
           bp == b \o piece
           o == Len(s) - Len(b)
<1>1. PICK at : ReadAt(at, tags, s, b) /\ (Proper(s) => Range(at) = Pairs(s))
  BY DEF Read
<1>2. ReadAt(at, tags, sp, bp) /\ IsTail(bp, sp)
  <2>1. piece \in Seq(S)
    OBVIOUS
  <2>2. ReadAt(at, tags, sp, bp)
    BY <1>1, <2>1, ReadKept
  <2> QED
    BY <2>2 DEF ReadAt
<1>3. sp \in Seq(S) /\ bp \in Seq(S)
  BY Joined
<1>4. /\ Len(sp) - Len(bp) = o /\ Len(s) \in Nat /\ o \in Nat
      /\ Len(bp) \in Nat /\ Len(sp) \in Nat /\ Len(sp) = o + Len(bp)
  <2>1. Len(sp) = Len(s) + Len(piece) /\ Len(bp) = Len(b) + Len(piece)
    BY Joined
  <2>2. Len(s) \in Nat /\ Len(b) \in Nat /\ Len(piece) \in Nat
    BY LenProperties
  <2>3. Len(b) <= Len(s)
    BY <1>1 DEF ReadAt, IsTail
  <2> HIDE DEF sp, bp
  <2> QED
    BY <2>1, <2>2, <2>3
<1>5. Complete(bp) # {}
  OBVIOUS
<1> HIDE DEF bp
<1>6. PICK t \in Range(Tags), i \in Nat, j \in Nat :
        /\ OpenAt(bp, t, i) /\ CloseAt(bp, t, j) /\ i + 3 <= j
        /\ \A k \in Nat : CloseAt(bp, t, k) /\ i + 3 <= k => j <= k
        /\ Taken(bp) = [tag |-> t, text |-> Inner(SubSeq(bp, i + 3, j - 1)),
                        rest |-> SubSeq(bp, j + 4, Len(bp))]
  <2>1. \E t \in Range(Tags) : \E i, j \in Nat :
           /\ OpenAt(bp, t, i) /\ CloseAt(bp, t, j) /\ i + 3 <= j
           /\ \A k \in Nat : OpenAt(bp, t, k) => i <= k
           /\ \A k \in Nat : CloseAt(bp, t, k) /\ i + 3 <= k => j <= k
           /\ Taken(bp) = [tag |-> t, text |-> Inner(SubSeq(bp, i + 3, j - 1)),
                           rest |-> SubSeq(bp, j + 4, Len(bp))]
    <3>1. bp \in Seq(S) /\ Complete(bp) # {}
      BY <1>3, <1>5
    <3> QED
      BY <3>1, TakenIs, Zenon
  <2> QED
    BY <2>1, Zenon
<1> DEFINE I == o + i
           J == o + j
           r == SubSeq(bp, j + 4, Len(bp))
           x == <<t, I, J>>
           new == <<tag.tag, tag.text>>
<1>7. /\ tag.tag = t /\ tag.text = Inner(SubSeq(bp, i + 3, j - 1))
      /\ tag.rest = r
  <2> DEFINE y == Inner(SubSeq(bp, i + 3, j - 1))
  <2>1. tag = [tag |-> t, text |-> y, rest |-> r]
    <3>1. tag = Taken(bp)
      BY DEF bp
    <3> QED
      BY <1>6, <3>1
  <2> HIDE DEF y, r
  <2>2. tag.tag = t /\ tag.text = y /\ tag.rest = r
    BY <2>1
  <2> QED
    BY <2>2 DEF y
<1>8. /\ 1 <= i /\ 1 <= j /\ j + 3 <= Len(bp)
  BY <1>6 DEF OpenAt, CloseAt
<1> HIDE DEF o
<1>9. /\ I \in Nat /\ J \in Nat /\ I + 3 <= J /\ I < J /\ o < I /\ o < J
      /\ I - o = i /\ J - o = j
  BY <1>4, <1>6, <1>8
<1>10. OpenAt(sp, t, I) /\ CloseAt(sp, t, J)
  <2>1. /\ OpenAt(bp, t, i) <=> OpenAt(sp, t, Len(sp) - Len(bp) + i)
        /\ CloseAt(bp, t, j) <=> CloseAt(sp, t, Len(sp) - Len(bp) + j)
    <3> HIDE DEF sp
    <3> QED
      BY <1>2, <1>3, <1>8, TailDelimiters
  <2> HIDE DEF sp
  <2> QED
    BY <1>4, <1>6, <2>1
<1>11. /\ r \in Seq(S) /\ Len(r) = Len(bp) + 1 - (j + 4) /\ IsTail(r, sp)
       /\ Len(sp) - Len(r) = J + 3
  <2>1. j + 4 \in 1 .. Len(bp) + 1
    BY <1>4, <1>8
  <2>2. r \in Seq(S) /\ Len(r) = Len(bp) + 1 - (j + 4) /\ IsTail(r, sp)
    <3> HIDE DEF sp
    <3> QED
      BY <1>2, <1>3, <2>1, TailOfTail
  <2> HIDE DEF sp, r
  <2> QED
    BY <1>4, <2>2
<1>12. Between(sp, x) = tag.text
  <2>1. i + 3 \in 1 .. Len(bp) + 1 /\ j - 1 \in (i + 3) - 1 .. Len(bp)
    BY <1>4, <1>6, <1>8
  <2>2. SubSeq(bp, i + 3, j - 1)
          = SubSeq(sp, Len(sp) - Len(bp) + (i + 3),
                       Len(sp) - Len(bp) + (j - 1))
    <3> HIDE DEF sp
    <3> QED
      BY <1>2, <1>3, <2>1, TailPart
  <2>3. /\ Len(sp) - Len(bp) + (i + 3) = I + 3
        /\ Len(sp) - Len(bp) + (j - 1) = J - 1
    <3> HIDE DEF sp
    <3> QED
      BY <1>4
  <2>4. x[1] = t /\ x[2] = I /\ x[3] = J /\ Len(Open(t)) = 3
    BY OpenIs
  <2> HIDE DEF sp, x, I, J
  <2> QED
    BY <1>7, <2>2, <2>3, <2>4 DEF Between
<1> HIDE DEF sp
<1>13. x \in Spans(sp) /\ x[1] = t /\ x[2] = I /\ x[3] = J
  <2>1. x \in Spans(sp)
    <3> HIDE DEF I, J
    <3> QED
      BY <1>3, <1>9, <1>10, SpansAre, Z3
  <2> QED
    BY <2>1
<1> HIDE DEF r, I, J
<1>14. Len(s) < J + 3
  <2>1. ASSUME J + 3 <= Len(s)
        PROVE  FALSE
    <3>1. I + 2 <= Len(s)
      BY <1>4, <1>9, <2>1
    <3>2. OpenAt(s, t, I) /\ CloseAt(s, t, J)
      BY <1>10, <2>1, <3>1, <1>9, HeadDelimiters DEF sp
    <3>3. IsTail(b, s) /\ Len(s) - Len(b) < I /\ Len(s) - Len(b) < J
      BY <1>1, <1>9 DEF ReadAt, o
    <3>4. OpenAt(b, t, i) /\ CloseAt(b, t, j)
      <4>1. /\ OpenAt(b, t, I - (Len(s) - Len(b))) <=> OpenAt(s, t, I)
            /\ CloseAt(b, t, J - (Len(s) - Len(b))) <=> CloseAt(s, t, J)
        BY <1>9, <3>3, InBuffer
      <4> QED
        BY <1>9, <3>2, <4>1 DEF o
    <3> QED
      BY <1>6, <3>4, NoneComplete
  <2> QED
    BY <1>4, <1>9, <2>1
<1>15. Complete(r) = {}
  <2>1. ASSUME Complete(r) # {}
        PROVE  FALSE
    <3>1. PICK u \in Range(Tags), k \in Nat, l \in Nat :
            OpenAt(r, u, k) /\ CloseAt(r, u, l) /\ k + 3 <= l
      BY <1>11, <2>1, TakenIs
    <3>2. 1 <= k /\ 1 <= l
      BY <3>1 DEF OpenAt, CloseAt
    <3> DEFINE a == J + 3 + k
               c == J + 3 + l
    <3>3. OpenAt(sp, u, a) /\ CloseAt(sp, u, c)
      <4>1. /\ OpenAt(r, u, k) <=> OpenAt(sp, u, Len(sp) - Len(r) + k)
            /\ CloseAt(r, u, l) <=> CloseAt(sp, u, Len(sp) - Len(r) + l)
        BY <1>3, <1>11, <3>2, TailDelimiters
      <4> QED
        BY <1>11, <3>1, <4>1
    <3>4. /\ a \in Nat /\ c \in Nat /\ a < c
          /\ J + 3 \in Nat /\ J + 3 < a
      BY <1>9, <3>1, <3>2
    <3>5. sp[J + 3] = ">"
      BY <1>10 DEF CloseAt
    <3> HIDE DEF a, c
    <3> QED
      BY <1>14, <3>3, <3>4, <3>5, OneTagOfPiece DEF sp
  <2> QED
    BY <2>1
<1> DEFINE n == Len(tags)
           on == [k \in 1 .. n + 1 |-> IF k = n + 1 THEN x ELSE at[k]]
<1>16. ReadAt(on, Append(tags, new), sp, r)
  <2>1. new \in T /\ new[1] = t /\ new[2] = tag.text
    BY <1>7
  <2>2. /\ x[2] \in Nat /\ x[3] \in Nat /\ x[2] + 3 <= x[3]
        /\ Len(sp) - Len(bp) < x[2] /\ Len(sp) - Len(r) = x[3] + 3
        /\ x[1] = new[1] /\ Between(sp, x) = new[2]
    BY <1>4, <1>9, <1>11, <1>12, <1>13, <2>1
  <2>3. sp \in Seq(S) /\ bp \in Seq(S) /\ r \in Seq(S) /\ IsTail(r, sp)
    BY <1>3, <1>11
  <2>4. x \in Spans(sp) /\ new \in T
    BY <1>13, <2>1
  <2> HIDE DEF x, new
  <2> QED
    BY <1>2, <2>2, <2>3, <2>4, ReadAppend
<1>17. ASSUME Proper(sp)
       PROVE  Range(on) = Pairs(sp)
  <2>1. Range(at) = Pairs(s)
    <3>1. piece \in Seq(S) /\ Proper(s \o piece)
      BY <1>17 DEF sp
    <3> QED
      BY <1>1, <3>1, ProperShrinks
  <2>2. x \in Pairs(sp)
    <3>1. ASSUME NEW k \in Nat, CloseAt(sp, t, k), I + 3 <= k
          PROVE  J <= k
      <4>1. o < k
        BY <1>4, <1>9, <3>1
      <4>2. k - o \in Nat /\ CloseAt(bp, t, k - o)
        <5>1. /\ k - (Len(sp) - Len(bp)) \in Nat
              /\ CloseAt(bp, t, k - (Len(sp) - Len(bp)))
                   <=> CloseAt(sp, t, k)
          BY <1>2, <1>3, <1>4, <4>1, InBuffer
        <5> QED
          BY <1>4, <3>1, <5>1
      <4>3. i + 3 <= k - o
        BY <1>4, <1>9, <3>1, <4>2
      <4>4. j <= k - o
        BY <1>6, <4>2, <4>3
      <4> QED
        BY <1>4, <1>9, <4>2, <4>4
    <3> QED
      BY <1>3, <1>9, <1>10, <1>17, <3>1, FirstCloseIsOwn
  <2>3. n \in Nat /\ DOMAIN at = 1 .. n
    <3>1. n \in Nat /\ DOMAIN tags = 1 .. n
      BY LenProperties
    <3> QED
      BY <1>1, <3>1 DEF ReadAt
  <2>4. ASSUME NEW y \in Range(on)
        PROVE  y \in Pairs(sp)
    <3>1. PICK k \in 1 .. n + 1 : y = on[k]
      BY DEF Range
    <3>2. CASE k = n + 1
      BY <2>2, <3>1, <3>2
    <3>3. CASE k # n + 1
      <4>1. k \in 1 .. n /\ y = at[k]
        BY <2>3, <3>1, <3>3
      <4>2. y \in Pairs(s)
        BY <2>1, <2>3, <4>1 DEF Range
      <4>3. PICK u \in Range(Tags), a \in Nat, c \in Nat : y = <<u, a, c>>
        BY <4>2, PairsAre
      <4>4. piece \in Seq(S)
        OBVIOUS
      <4> QED
        BY <4>2, <4>3, <4>4, PairsGrow DEF sp
    <3> QED
      BY <3>2, <3>3
  <2>5. ASSUME NEW y \in Pairs(sp)
        PROVE  y \in Range(on)
    <3>1. PICK u \in Range(Tags), a \in Nat, c \in Nat :
            /\ y = <<u, a, c>> /\ OpenAt(sp, u, a) /\ CloseAt(sp, u, c)
            /\ a < c
      BY <1>3, PairTyped
    <3>2. CASE c + 3 <= Len(s)
      <4>1. piece \in Seq(S)
        OBVIOUS
      <4>2. y \in Pairs(s)
        BY <3>1, <3>2, <4>1, PairsGrow DEF sp
      <4>3. PICK k \in 1 .. n : y = at[k]
        BY <2>1, <2>3, <4>2 DEF Range
      <4>4. k \in 1 .. n + 1 /\ y = on[k]
        BY <2>3, <4>3
      <4> QED
        BY <4>4 DEF Range
    <3>3. CASE ~(c + 3 <= Len(s))
      <4>1. Len(s) < c + 3
        BY <1>4, <3>3
      <4>2. /\ x \in Pairs(s \o piece) /\ y \in Pairs(s \o piece)
            /\ piece \in Seq(S)
        BY <2>2 DEF sp
      <4>3. <<t, I, J>> \in Pairs(s \o piece)
        BY <4>2
      <4>4. <<u, a, c>> \in Pairs(s \o piece)
        BY <3>1, <4>2
      <4>5. t = u /\ I = a /\ J = c
        BY <1>9, <1>14, <4>1, <4>3, <4>4, OnePairOfPiece
      <4>6. y = x
        BY <3>1, <4>5
      <4>7. n + 1 \in 1 .. n + 1 /\ on[n + 1] = x
        BY <2>3
      <4> QED
        BY <4>6, <4>7 DEF Range
    <3> QED
      BY <3>2, <3>3
  <2> QED
    BY <2>4, <2>5
<1> QED
  BY <1>7, <1>15, <1>16, <1>17 DEF Read, sp

ReadOK ==
  /\ mode = "reasoning" => buf = <<>> /\ taken = <<>>
  /\ mode = "agent" /\ ~cut =>
       Complete(buf) = {} /\ Read(taken, said.text, buf)

LEMMA NothingComplete == Complete(<<>>) = {}
<1>1. <<>> \in Seq({"<"}) /\ Len(<<>>) = 0
  BY EmptySeq
<1>2. ASSUME Complete(<<>>) # {}
      PROVE  FALSE
  <2>1. PICK t \in Range(Tags), i \in Nat, j \in Nat : OpenAt(<<>>, t, i)
    BY <1>1, <1>2, TakenIs
  <2> QED
    BY <1>1, <2>1 DEF OpenAt
<1> QED
  BY <1>2

LEMMA NothingRead == Read(<<>>, <<>>, <<>>)
<1>1. /\ <<>> \in Seq({"<"}) /\ Len(<<>>) = 0 /\ 1 .. Len(<<>>) = {}
      /\ DOMAIN <<>> = {}
  BY EmptySeq
<1> DEFINE e == <<>>
<1>2. e \in Seq({"<"}) /\ Len(e) = 0 /\ 1 .. Len(e) = {} /\ DOMAIN e = {}
  BY <1>1
<1> HIDE DEF e
<1> DEFINE at == [k \in {} |-> e]
<1>3. at \in [DOMAIN e -> Spans(e)] /\ Range(at) = {}
  BY <1>2 DEF Range
<1>4. IsTail(e, e)
  BY <1>2 DEF IsTail
<1>5. Pairs(e) = {}
  <2>1. ASSUME NEW x \in Pairs(e)
        PROVE  FALSE
    <3>1. PICK t \in Range(Tags), i \in Nat, j \in Nat : OpenAt(e, t, i)
      BY <1>2, PairTyped
    <3> QED
      BY <1>2, <3>1 DEF OpenAt
  <2> QED
    BY <2>1
<1>6. Len(e) - Len(e) = IF e = <<>> THEN 0 ELSE at[Len(e)][3] + 3
  BY <1>2 DEF e
<1> HIDE DEF at
<1>7. ReadAt(at, e, e, e)
  BY <1>2, <1>3, <1>4, <1>6 DEF ReadAt
<1> QED
  BY <1>3, <1>5, <1>7 DEF Read, e

LEMMA ReadStarts == Init => ReadOK
BY NothingComplete, NothingRead DEF Init, ReadOK

LEMMA ReadStays ==
  ASSUME ScannersOK, ReadOK, [Next]_vars
  PROVE  ReadOK'
<1>1. ASSUME NEW piece \in Vocabulary, AgentPiece(piece)
      PROVE  ReadOK'
  <2>1. SUFFICES ASSUME cut' = FALSE
                 PROVE  /\ Complete(buf') = {}
                        /\ Read(taken', said'.text, buf')
    BY <1>1 DEF AgentPiece, Generate, ReadOK
  <2>2. mode = "agent" /\ ~cut /\ ~IsCut(buf, piece)
    BY <1>1, <2>1 DEF AgentPiece, ScannersOK
  <2>3. Complete(buf) = {} /\ Read(taken, said.text, buf)
    BY <2>2 DEF ReadOK
  <2> DEFINE T == Range(Tags) \X Texts
             s == said.text
             full == buf \o piece
             tag == Taken(full)
             new == <<tag.tag, tag.text>>
  <2>4. /\ s \in Texts /\ buf \in Texts /\ piece \in Texts
        /\ Len(buf) <= BufferSize /\ taken \in Seq(T)
    BY PieceIsText DEF ScannersOK
  <2>5. Appended(buf, piece) = full /\ full \in Texts
    BY <2>2, <2>4, AppendedIs DEF Texts
  <2>6. said'.text = s \o piece
    BY <1>1 DEF AgentPiece, Generate
  <2>7. CASE Complete(full) = {}
    <3>1. buf' = full /\ taken' = taken
      BY <1>1, <2>5, <2>7 DEF AgentPiece
    <3>2. Read(taken, s \o piece, full)
      <4> HIDE DEF s, T
      <4> QED
        BY <2>3, <2>4, <2>7, ReadMore DEF Texts, s
    <3> QED
      BY <2>6, <2>7, <3>1, <3>2
  <2>8. CASE Complete(full) # {}
    <3>1. buf' = tag.rest /\ taken' = Append(taken, new)
      BY <1>1, <2>5, <2>8 DEF AgentPiece
    <3>2. new \in T
      <4>1. tag.tag \in Range(Tags) /\ tag.text \in Texts
        BY <2>5, <2>8, TakenTyped DEF Texts
      <4> QED
        BY <4>1
    <3>3. /\ Complete(tag.rest) = {}
          /\ Read(Append(taken, new), s \o piece, tag.rest)
      <4> HIDE DEF s, T, tag
      <4>1. tag = Taken(buf \o piece)
        BY DEF tag
      <4>2. Read(taken, s, buf)
        BY <2>3 DEF s
      <4> QED
        BY <1>1, <2>3, <2>4, <2>8, <3>2, <4>1, <4>2, ReadTake DEF Texts
    <3> QED
      BY <2>6, <3>1, <3>3
  <2> QED
    BY <2>7, <2>8
<1>2. ASSUME NEW piece \in Vocabulary, ReasoningPiece(piece)
      PROVE  ReadOK'
  BY <1>2 DEF ReasoningPiece, Generate, ReadOK
<1>3. CASE Answered
  BY <1>3 DEF Answered, ReadOK
<1>4. CASE UNCHANGED textVars
  BY <1>4 DEF textVars, ReadOK
<1> QED
  BY <1>1, <1>2, <1>3, <1>4
     DEF Next, Skip, RunEmpty, RunCommand, DuringCall, vars

LEMMA ReadInvariant == Spec => [](ScannersOK /\ ReadOK)
<1>1. Init => ScannersOK /\ ReadOK
  BY ScannersStart, ReadStarts
<1>2. ScannersOK /\ ReadOK /\ [Next]_vars => (ScannersOK /\ ReadOK)'
  BY ScannersStay, ReadStays
<1> QED
  BY <1>1, <1>2, PTL DEF Spec

\* Whatever is said, nested and unbalanced tags included: each tag that was
\* taken, and so each command, was said between the brackets of that tag,
\* and no part of the text was taken twice (ti_process_piece()).
THEOREM TakenWasSaidAlways == Spec => []TakenWasSaid
<1>1. ASSUME ScannersOK, ReadOK
      PROVE  TakenWasSaid
  <2>1. SUFFICES ASSUME ~cut
                 PROVE  \E at \in [DOMAIN taken -> Spans(said.text)] :
                          \A k \in DOMAIN taken :
                            /\ at[k][1] = taken[k][1]
                            /\ at[k][2] + Len(Open(at[k][1])) <= at[k][3]
                            /\ Between(said.text, at[k]) = taken[k][2]
                            /\ \A l \in 1 .. k - 1 : at[l][3] < at[k][2]
    BY DEF TakenWasSaid
  <2>2. CASE mode = "agent"
    <3>1. PICK at : ReadAt(at, taken, said.text, buf)
      BY <1>1, <2>1, <2>2 DEF ReadOK, Read
    <3>2. \A k \in DOMAIN taken : Len(Open(at[k][1])) = 3
      BY OpenIs
    <3> QED
      BY <3>1, <3>2 DEF ReadAt
  <2>3. CASE mode = "reasoning"
    <3>1. taken = <<>> /\ DOMAIN <<>> = {}
      BY <1>1, <2>3 DEF ReadOK
    <3> DEFINE at == [k \in {} |-> <<>>]
    <3>2. at \in [DOMAIN taken -> Spans(said.text)] /\ DOMAIN taken = {}
      BY <3>1
    <3> HIDE DEF at
    <3> QED
      BY <3>2
  <2> QED
    BY <1>1, <2>2, <2>3 DEF ScannersOK
<1> QED
  BY <1>1, ReadInvariant, PTL

\* However tokens cut a text without nested or unbalanced tags, each of its
\* tags is taken once, in order, and as it was said, unless the buffer of
\* 8191 bytes had run full (ti_process_piece()).
THEOREM TagsAsSaidAlways == Spec => []TagsAsSaid
<1>1. ASSUME ScannersOK, ReadOK, mode = "agent", ~cut, Proper(said.text)
      PROVE  InOrder(taken, said.text)
  <2>1. PICK at : /\ ReadAt(at, taken, said.text, buf)
                  /\ Range(at) = Pairs(said.text)
    BY <1>1 DEF ReadOK, Read
  <2>2. taken \in Seq(Range(Tags) \X Texts) /\ said.text \in Seq(Symbols)
    BY <1>1 DEF ScannersOK, Texts
  <2>3. DOMAIN at = DOMAIN taken /\ DOMAIN taken = 1 .. Len(taken)
    BY <2>1, <2>2, LenProperties DEF ReadAt
  <2>4. ASSUME NEW k \in DOMAIN taken
        PROVE  /\ at[k] \in Pairs(said.text) /\ at[k][2] \in Nat
               /\ at[k][3] \in Nat /\ at[k][2] < at[k][3]
               /\ taken[k] = <<at[k][1], Between(said.text, at[k])>>
    <3>1. at[k] \in Pairs(said.text)
      BY <2>1, <2>3 DEF Range
    <3>2. PICK t \in Range(Tags), i \in Nat, j \in Nat :
            at[k] = <<t, i, j>> /\ i < j
      BY <2>2, <3>1, PairTyped
    <3>3. /\ at[k][1] = taken[k][1]
          /\ Between(said.text, at[k]) = taken[k][2]
      BY <2>1 DEF ReadAt
    <3>4. taken[k] = <<taken[k][1], taken[k][2]>>
      <4>1. taken[k] \in Range(Tags) \X Texts
        BY <2>2, <2>3, ElementOfSeq
      <4> QED
        BY <4>1
    <3> QED
      BY <3>1, <3>2, <3>3, <3>4
  <2>5. ASSUME NEW k \in DOMAIN taken, NEW l \in 1 .. k - 1
        PROVE  at[l][2] < at[k][2]
    <3>1. l \in DOMAIN taken
      BY <2>2, <2>3, LenProperties
    <3>2. at[l][3] < at[k][2]
      BY <2>1 DEF ReadAt
    <3> QED
      BY <2>4, <3>1, <3>2
  <2>6. at \in [DOMAIN taken -> Pairs(said.text)]
    BY <2>1, <2>4 DEF ReadAt
  <2> QED
    BY <2>1, <2>4, <2>5, <2>6 DEF InOrder
<1>2. ScannersOK /\ ReadOK => TagsAsSaid
  BY <1>1 DEF TagsAsSaid
<1> QED
  BY <1>2, ReadInvariant, PTL

-----------------------------------------------------------------------------
(* The thought filter: where a tag of a text is one for its reader.        *)

\* g is InTag() up to position m.
Walk(g, s, d, a, m) ==
  g = [i \in a .. m |-> \E j \in a .. i - 1 : Begins(s, d, j, i) /\ ~g[j]]

LEMMA WalkExists ==
  ASSUME NEW s, NEW d, NEW a \in Nat, 1 <= a, NEW m \in Nat
  PROVE  \E g : Walk(g, s, d, a, m)
<1> DEFINE T == {n \in Nat : \E g : Walk(g, s, d, a, n)}
           E(g, i) == \E j \in a .. i - 1 : Begins(s, d, j, i) /\ ~g[j]
<1>1. 0 \in T
  <2> DEFINE g == [i \in a .. 0 |-> TRUE]
  <2>1. a .. 0 = {}
    OBVIOUS
  <2>2. g = [i \in a .. 0 |-> E(g, i)]
    <3> HIDE DEF E
    <3> QED
      BY <2>1
  <2> HIDE DEF g
  <2> QED
    BY <2>2 DEF Walk
<1>2. ASSUME NEW n \in Nat, n \in T
      PROVE  n + 1 \in T
  <2>1. PICK g : Walk(g, s, d, a, n)
    BY <1>2
  <2> DEFINE k == [i \in a .. n + 1 |-> IF i = n + 1 THEN E(g, i) ELSE g[i]]
  <2>2. ASSUME NEW i \in a .. n + 1
        PROVE  k[i] = E(k, i)
    <3>1. \A j \in a .. i - 1 : k[j] = g[j]
      <4> HIDE DEF E
      <4> QED
        OBVIOUS
    <3>2. E(k, i) = E(g, i)
      <4> HIDE DEF k
      <4> QED
        BY <3>1
    <3>3. CASE i = n + 1
      <4> HIDE DEF E
      <4> QED
        BY <3>2, <3>3
    <3>4. CASE i # n + 1
      <4>1. i \in a .. n /\ k[i] = g[i]
        <5> HIDE DEF E
        <5> QED
          BY <3>4
      <4>2. g[i] = E(g, i)
        BY <2>1, <4>1 DEF Walk
      <4> HIDE DEF k, E
      <4> QED
        BY <3>2, <4>1, <4>2
    <3> QED
      BY <3>3, <3>4
  <2>3. k = [i \in a .. n + 1 |-> E(k, i)]
    <3>1. DOMAIN k = a .. n + 1 /\ k = [i \in DOMAIN k |-> k[i]]
      <4> HIDE DEF E
      <4> QED
        OBVIOUS
    <3> HIDE DEF k, E
    <3> QED
      BY <2>2, <3>1
  <2>4. Walk(k, s, d, a, n + 1)
    <3> HIDE DEF k
    <3> QED
      BY <2>3 DEF Walk
  <2> QED
    BY <2>4
<1>3. Nat \subseteq T
  <2> HIDE DEF T
  <2> QED
    BY <1>1, <1>2, Induction
<1> QED
  BY <1>3

\* The recursion of InTag().
LEMMA InTagIs ==
  ASSUME NEW s, NEW d, NEW a \in Nat, 1 <= a, Len(s) \in Nat,
         NEW i \in a .. Len(s) + 1
  PROVE  InTag(s, d, a)[i] =
           \E j \in a .. i - 1 : Begins(s, d, j, i) /\ ~InTag(s, d, a)[j]
<1> DEFINE m == Len(s) + 1
           in == InTag(s, d, a)
<1>1. \E g : Walk(g, s, d, a, m)
  <2>1. m \in Nat
    OBVIOUS
  <2> HIDE DEF m
  <2> QED
    BY <2>1, WalkExists
<1>2. in = CHOOSE g : Walk(g, s, d, a, m)
  BY DEF InTag, Walk
<1> HIDE DEF in
<1>3. Walk(in, s, d, a, m)
  BY <1>1, <1>2
<1>4. in[i] = \E j \in a .. i - 1 : Begins(s, d, j, i) /\ ~in[j]
  BY <1>3 DEF Walk
<1> QED
  BY <1>4 DEF in

\* The symbols of s from j up to i are those d begins with.
Matches(s, d, j, i) == \A k \in 1 .. i - j : s[j + k - 1] = d[k]

LEMMA BeginsIs ==
  ASSUME NEW S, NEW D, NEW s \in Seq(S), NEW d \in Seq(D),
         NEW j \in Nat, 1 <= j, NEW i \in Nat, j <= i, i <= Len(s) + 1
  PROVE  Begins(s, d, j, i) <=> i - j < Len(d) /\ Matches(s, d, j, i)
<1> DEFINE x == SubSeq(s, j, i - 1)
           y == SubSeq(d, 1, i - j)
<1>1. Len(s) \in Nat /\ Len(d) \in Nat
  BY LenProperties
<1>2. ASSUME i - j < Len(d)
      PROVE  x = y <=> Matches(s, d, j, i)
  <2> DEFINE b == i - 1
             m == i - j
  <2>1. /\ j \in 1 .. Len(s) + 1 /\ b \in j - 1 .. Len(s)
        /\ 1 \in 1 .. Len(d) + 1 /\ m \in 1 - 1 .. Len(d) /\ m \in Nat
        /\ b - j + 1 = m /\ m - 1 + 1 = m
    BY <1>1, <1>2
  <2> HIDE DEF b, m
  <2>2. /\ SubSeq(s, j, b) \in Seq(S) /\ Len(SubSeq(s, j, b)) = m
        /\ \A k \in 1 .. m : SubSeq(s, j, b)[k] = s[j + k - 1]
    BY <2>1, SubSeqElements
  <2>3. /\ SubSeq(d, 1, m) \in Seq(D) /\ Len(SubSeq(d, 1, m)) = m
        /\ \A k \in 1 .. m : SubSeq(d, 1, m)[k] = d[k]
    <3>1. /\ SubSeq(d, 1, m) \in Seq(D) /\ Len(SubSeq(d, 1, m)) = m - 1 + 1
          /\ \A k \in 1 .. m - 1 + 1 : SubSeq(d, 1, m)[k] = d[1 + k - 1]
      BY <2>1, SubSeqElements
    <3>2. \A k \in 1 .. m : 1 + k - 1 = k
      BY <2>1
    <3> QED
      BY <2>1, <3>1, <3>2
  <2>4. /\ x \in Seq(S) /\ y \in Seq(D) /\ Len(x) = m /\ Len(y) = m
        /\ \A k \in 1 .. m : x[k] = s[j + k - 1] /\ y[k] = d[k]
    BY <2>2, <2>3 DEF b, m
  <2> HIDE DEF x, y
  <2>5. ASSUME \A k \in 1 .. m : x[k] = y[k]
        PROVE  x = y
    <3>1. Len(x) = Len(y) /\ \A k \in 1 .. Len(y) : x[k] = y[k]
      BY <2>4, <2>5
    <3> QED
      BY <2>4, <3>1, SameSymbols
  <2>6. (\A k \in 1 .. m : x[k] = y[k]) <=> Matches(s, d, j, i)
    BY <2>4 DEF Matches, m
  <2> QED
    BY <2>5, <2>6
<1> QED
  BY <1>2 DEF Begins

\* A tag is being begun where i is.
Begun(in, s, d, a, i) ==
  \E j \in a .. i - 1 : i - j < Len(d) /\ Matches(s, d, j, i) /\ ~in[j]

\* InTag(), symbol by symbol.
LEMMA InTagMeans ==
  ASSUME NEW S, NEW D, NEW s \in Seq(S), NEW d \in Seq(D),
         NEW a \in Nat, 1 <= a, NEW i \in a .. Len(s) + 1
  PROVE  InTag(s, d, a)[i] = Begun(InTag(s, d, a), s, d, a, i)
<1>1. Len(s) \in Nat
  BY LenProperties
<1>2. ASSUME NEW j \in a .. i - 1
      PROVE  Begins(s, d, j, i) <=> i - j < Len(d) /\ Matches(s, d, j, i)
  <2>1. j \in Nat /\ 1 <= j /\ i \in Nat /\ j <= i /\ i <= Len(s) + 1
    BY <1>1
  <2>2. s \in Seq(S) /\ d \in Seq(D)
    OBVIOUS
  <2> QED
    BY <2>1, <2>2, BeginsIs, Z3
<1>3. InTag(s, d, a)[i] =
        \E j \in a .. i - 1 : Begins(s, d, j, i) /\ ~InTag(s, d, a)[j]
  BY <1>1, InTagIs
<1> QED
  BY <1>2, <1>3 DEF Begun

LEMMA TagsAre ==
  ASSUME NEW S, NEW D, NEW s \in Seq(S), NEW d \in Seq(D),
         NEW a \in Nat, 1 <= a
  PROVE  /\ TagsOf(s, d, a) \subseteq Nat
         /\ \A i \in Nat : i \in TagsOf(s, d, a) <=>
              /\ a <= i /\ i + Len(d) - 1 <= Len(s)
              /\ Matches(s, d, i, i + Len(d)) /\ ~InTag(s, d, a)[i]
<1>1. s \in Seq(S) /\ d \in Seq(D) /\ Len(d) \in Nat
  BY LenProperties
<1>2. Finds(s, d, a) \subseteq Nat
  BY <1>1, FindsNaturals, Z3
<1>3. ASSUME NEW i \in Nat
      PROVE  i \in Finds(s, d, a) <=>
               /\ a <= i /\ i + Len(d) - 1 <= Len(s)
               /\ Matches(s, d, i, i + Len(d))
  <2>1. i \in Finds(s, d, a) <=>
          /\ a <= i /\ i + Len(d) - 1 <= Len(s)
          /\ \A k \in 1 .. Len(d) : s[i + k - 1] = d[k]
    <3>1. s \in Seq(S) /\ d \in Seq(D) /\ a \in Nat /\ 1 <= a /\ i \in Nat
      OBVIOUS
    <3> QED
      BY <3>1, FindsIs, Z3
  <2>2. Matches(s, d, i, i + Len(d))
          <=> \A k \in 1 .. Len(d) : s[i + k - 1] = d[k]
    <3> DEFINE n == Len(d)
               e == i + n
    <3>1. n \in Nat /\ e - i = n
      BY <1>1
    <3> HIDE DEF n, e
    <3>2. Matches(s, d, i, e) <=> \A k \in 1 .. n : s[i + k - 1] = d[k]
      BY <3>1 DEF Matches
    <3> QED
      BY <3>2 DEF n, e
  <2> QED
    BY <2>1, <2>2
<1> QED
  BY <1>2, <1>3 DEF TagsOf

\* Two tags are not being begun at once.
LEMMA OneBegun ==
  ASSUME NEW S, NEW D, NEW s \in Seq(S), NEW d \in Seq(D),
         NEW a \in Nat, 1 <= a, NEW i \in a .. Len(s) + 1,
         NEW p \in a .. i - 1, NEW q \in a .. i - 1,
         i - p < Len(d), Matches(s, d, p, i), ~InTag(s, d, a)[p],
         i - q < Len(d), Matches(s, d, q, i), ~InTag(s, d, a)[q]
  PROVE  p = q
<1>1. Len(s) \in Nat /\ Len(d) \in Nat
  BY LenProperties
<1>2. ASSUME NEW u \in a .. i - 1, NEW v \in a .. i - 1, u < v,
             i - u < Len(d), Matches(s, d, u, i), ~InTag(s, d, a)[u],
             ~InTag(s, d, a)[v]
      PROVE  FALSE
  <2>1. v \in a .. Len(s) + 1 /\ u \in a .. v - 1
    BY <1>1, <1>2
  <2>2. v - u < Len(d) /\ Matches(s, d, u, v)
    <3>1. v - u < Len(d) /\ \A k \in 1 .. v - u : k \in 1 .. i - u
      BY <1>1, <1>2
    <3> QED
      BY <1>2, <3>1 DEF Matches
  <2>3. InTag(s, d, a)[v] = Begun(InTag(s, d, a), s, d, a, v)
    BY <2>1, InTagMeans
  <2> QED
    BY <1>2, <2>1, <2>2, <2>3 DEF Begun
<1>3. p < q \/ q < p \/ p = q
  OBVIOUS
<1> QED
  BY <1>2, <1>3

\* What one more symbol leaves as it was.
LEMMA MoreText ==
  ASSUME NEW S, NEW s \in Seq(S), NEW c \in S
  PROVE  /\ Append(s, c) = s \o <<c>> /\ <<c>> \in Seq(S)
         /\ Append(s, c) \in Seq(S) /\ Len(Append(s, c)) = Len(s) + 1
         /\ Append(s, c)[Len(s) + 1] = c /\ Len(s) \in Nat
         /\ \A k \in 1 .. Len(s) : Append(s, c)[k] = s[k]
<1>1. Append(s, c) = s \o <<c>> /\ <<c>> \in Seq(S)
  OBVIOUS
<1> QED
  BY <1>1, Appends, LenProperties

LEMMA MatchesMore ==
  ASSUME NEW S, NEW s \in Seq(S), NEW c \in S, NEW d, NEW j \in Nat, 1 <= j
  PROVE  /\ \A i \in Nat : i <= Len(s) + 1 =>
              (Matches(Append(s, c), d, j, i) <=> Matches(s, d, j, i))
         /\ j <= Len(s) + 1 =>
              (Matches(Append(s, c), d, j, Len(s) + 2)
                 <=> Matches(s, d, j, Len(s) + 1) /\ c = d[Len(s) + 2 - j])
<1> DEFINE g == Append(s, c)
           n == Len(s)
<1>1. n \in Nat /\ g[n + 1] = c /\ \A k \in 1 .. n : g[k] = s[k]
  BY MoreText
<1> HIDE DEF g, n
<1>2. ASSUME NEW i \in Nat, i <= n + 1
      PROVE  \A k \in 1 .. i - j : g[j + k - 1] = s[j + k - 1]
  <2>1. \A k \in 1 .. i - j : j + k - 1 \in 1 .. n
    BY <1>1, <1>2
  <2> QED
    BY <1>1, <2>1
<1>3. ASSUME NEW i \in Nat, i <= n + 1
      PROVE  Matches(g, d, j, i) <=> Matches(s, d, j, i)
  BY <1>2, <1>3 DEF Matches
<1>4. ASSUME j <= n + 1
      PROVE  Matches(g, d, j, n + 2)
               <=> Matches(s, d, j, n + 1) /\ c = d[n + 2 - j]
  <2> DEFINE m == n + 2 - j
             r == n + 1 - j
  <2>1. /\ m \in 1 .. m /\ j + m - 1 = n + 1
        /\ \A k \in 1 .. m : k \in 1 .. r \/ k = m
        /\ \A k \in 1 .. r : k \in 1 .. m
    BY <1>1, <1>4
  <2>2. \A k \in 1 .. r : g[j + k - 1] = s[j + k - 1]
    BY <1>1, <1>2
  <2>3. /\ Matches(g, d, j, n + 2) <=> \A k \in 1 .. m : g[j + k - 1] = d[k]
        /\ Matches(s, d, j, n + 1) <=> \A k \in 1 .. r : s[j + k - 1] = d[k]
    <3> DEFINE e == n + 2
               l == n + 1
    <3>1. m = e - j /\ r = l - j
      BY <1>1
    <3> HIDE DEF e, l, m, r
    <3>2. /\ Matches(g, d, j, e) <=> \A k \in 1 .. m : g[j + k - 1] = d[k]
          /\ Matches(s, d, j, l) <=> \A k \in 1 .. r : s[j + k - 1] = d[k]
      BY <3>1 DEF Matches
    <3> QED
      BY <3>2 DEF e, l
  <2>4. g[j + m - 1] = c
    BY <1>1, <2>1
  <2> HIDE DEF m, r
  <2>5. (\A k \in 1 .. m : g[j + k - 1] = d[k])
          <=> (\A k \in 1 .. r : s[j + k - 1] = d[k]) /\ c = d[m]
    BY <2>1, <2>2, <2>4
  <2> QED
    BY <2>3, <2>5 DEF m
<1> QED
  BY <1>3, <1>4 DEF g, n

LEMMA InTagStays ==
  ASSUME NEW S, NEW D, NEW s \in Seq(S), NEW d \in Seq(D), NEW c \in S,
         NEW a \in Nat, 1 <= a, NEW i \in a .. Len(s) + 1
  PROVE  InTag(Append(s, c), d, a)[i] = InTag(s, d, a)[i]
<1> DEFINE g == Append(s, c)
           n == Len(s)
           new == InTag(g, d, a)
           old == InTag(s, d, a)
           T == {l \in a .. n + 1 : new[l] # old[l]}
<1>1. g \in Seq(S) /\ Len(g) = n + 1 /\ n \in Nat
  BY MoreText
<1>2. ASSUME T # {}
      PROVE  FALSE
  <2>1. T \in SUBSET Nat
    BY <1>1
  <2>2. PICK l \in T : \A k \in T : l <= k
    <3> HIDE DEF T
    <3> QED
      BY <1>2, <2>1, LeastNatural
  <2>3. l \in a .. n + 1 /\ l \in a .. Len(g) + 1 /\ l \in Nat
    BY <1>1
  <2>4. \A j \in a .. l - 1 : new[j] = old[j]
    <3>1. ASSUME NEW j \in a .. l - 1, new[j] # old[j]
          PROVE  FALSE
      <4>1. j \in a .. n + 1 /\ j < l
        BY <1>1, <2>3
      <4>2. j \in T
        BY <3>1, <4>1
      <4> HIDE DEF T
      <4> QED
        BY <2>2, <2>3, <4>1, <4>2
    <3> QED
      BY <3>1
  <2>5. old[l] = Begun(old, s, d, a, l)
    BY <2>3, InTagMeans
  <2>6. new[l] = Begun(new, g, d, a, l)
    <3>1. g \in Seq(S) /\ d \in Seq(D) /\ l \in a .. Len(g) + 1
      BY <1>1, <2>3
    <3> HIDE DEF g
    <3> QED
      BY <3>1, InTagMeans, Z3
  <2>7. \A j \in a .. l - 1 : Matches(g, d, j, l) <=> Matches(s, d, j, l)
    <3>1. ASSUME NEW j \in a .. l - 1
          PROVE  Matches(g, d, j, l) <=> Matches(s, d, j, l)
      <4>1. j \in Nat /\ 1 <= j /\ l <= Len(s) + 1
        BY <1>1, <2>3
      <4> QED
        BY <2>3, <4>1, MatchesMore
    <3> QED
      BY <3>1
  <2>8. new[l] = old[l]
    <3> HIDE DEF new, old, g
    <3>1. Begun(new, g, d, a, l) = Begun(old, s, d, a, l)
      BY <2>4, <2>7 DEF Begun
    <3> QED
      BY <2>5, <2>6, <3>1, Zenon
  <2> QED
    BY <2>2, <2>8
<1>3. i \in a .. n + 1 /\ T = {}
  BY <1>2
<1> QED
  BY <1>3

\* Whether the end of a text is in a tag.
LEMMA InTagMore ==
  ASSUME NEW S, NEW D, NEW s \in Seq(S), NEW d \in Seq(D), NEW c \in S,
         NEW a \in Nat, 1 <= a, a <= Len(s) + 1
  PROVE  InTag(Append(s, c), d, a)[Len(s) + 2] <=>
           \E j \in a .. Len(s) + 1 :
             /\ Len(s) + 2 - j < Len(d) /\ Matches(s, d, j, Len(s) + 1)
             /\ c = d[Len(s) + 2 - j] /\ ~InTag(s, d, a)[j]
<1> DEFINE g == Append(s, c)
           n == Len(s)
           e == n + 2
<1>1. g \in Seq(S) /\ Len(g) = n + 1 /\ n \in Nat
  BY MoreText
<1>2. e \in a .. Len(g) + 1 /\ e - 1 = n + 1
  BY <1>1
<1>3. InTag(g, d, a)[e] = Begun(InTag(g, d, a), g, d, a, e)
  <2>1. g \in Seq(S) /\ d \in Seq(D) /\ e \in a .. Len(g) + 1
    BY <1>1, <1>2
  <2> HIDE DEF g, e
  <2> QED
    BY <2>1, InTagMeans, Z3
<1>4. ASSUME NEW j \in a .. n + 1
      PROVE  /\ Matches(g, d, j, e)
                  <=> Matches(s, d, j, n + 1) /\ c = d[e - j]
             /\ InTag(g, d, a)[j] = InTag(s, d, a)[j]
  <2>1. j \in Nat /\ 1 <= j /\ j <= Len(s) + 1
    BY <1>1
  <2> QED
    BY <2>1, MatchesMore, InTagStays
<1>5. (\E j \in a .. n + 1 : /\ e - j < Len(d) /\ Matches(g, d, j, e)
                             /\ ~InTag(g, d, a)[j])
        <=> \E j \in a .. n + 1 :
              /\ e - j < Len(d) /\ Matches(s, d, j, n + 1)
              /\ c = d[e - j] /\ ~InTag(s, d, a)[j]
  <2> HIDE DEF g, n, e
  <2> QED
    BY <1>4
<1>6. Begun(InTag(g, d, a), g, d, a, e)
        <=> \E j \in a .. n + 1 : /\ e - j < Len(d) /\ Matches(g, d, j, e)
                                  /\ ~InTag(g, d, a)[j]
  <2> HIDE DEF g, n, e
  <2> QED
    BY <1>2 DEF Begun
<1>7. InTag(g, d, a)[e] <=>
        \E j \in a .. n + 1 : /\ e - j < Len(d) /\ Matches(s, d, j, n + 1)
                              /\ c = d[e - j] /\ ~InTag(s, d, a)[j]
  <2> HIDE DEF g, n, e
  <2> QED
    BY <1>3, <1>5, <1>6
<1> QED
  BY <1>7 DEF g, n, e

\* With c the tag d that stands at i is complete.
Ends(s, c, d, a, i) ==
  /\ a <= i /\ i + Len(d) = Len(s) + 2
  /\ Matches(s, d, i, Len(s) + 1) /\ c = d[Len(d)]
  /\ ~InTag(s, d, a)[i]

LEMMA TagsMore ==
  ASSUME NEW S, NEW s \in Seq(S), NEW c \in S, NEW d \in {OPEN_TAG, CLOSE_TAG},
         NEW a \in Nat, 1 <= a, NEW i \in Nat
  PROVE  i \in TagsOf(Append(s, c), d, a) <=>
           i \in TagsOf(s, d, a) \/ Ends(s, c, d, a, i)
<1> DEFINE g == Append(s, c)
           n == Len(s)
           m == Len(d)
           e == i + m
<1>1. g \in Seq(S) /\ Len(g) = n + 1 /\ n \in Nat
  BY MoreText
<1>2. d \in Seq(STRING) /\ m \in Nat /\ 2 <= m
  BY FilterTags
<1>3. i \in TagsOf(s, d, a) <=>
        /\ a <= i /\ e - 1 <= n /\ Matches(s, d, i, e)
        /\ ~InTag(s, d, a)[i]
  <2>1. s \in Seq(S) /\ d \in Seq(STRING)
    BY <1>2
  <2> QED
    BY <2>1, TagsAre, Z3
<1>4. i \in TagsOf(g, d, a) <=>
        /\ a <= i /\ e - 1 <= n + 1 /\ Matches(g, d, i, e)
        /\ ~InTag(g, d, a)[i]
  <2>1. g \in Seq(S) /\ d \in Seq(STRING)
    BY <1>1, <1>2
  <2> HIDE DEF g
  <2>2. i \in TagsOf(g, d, a) <=>
          /\ a <= i /\ i + Len(d) - 1 <= Len(g)
          /\ Matches(g, d, i, i + Len(d)) /\ ~InTag(g, d, a)[i]
    BY <2>1, TagsAre, Z3
  <2> QED
    BY <1>1, <2>2
<1> HIDE DEF m, n
<1>5. ASSUME a <= i, e - 1 <= n + 1
      PROVE  /\ InTag(g, d, a)[i] = InTag(s, d, a)[i]
             /\ 1 <= i /\ i <= n + 1
             /\ e - 1 <= n <=> e # n + 2
  <2>1. i \in a .. n + 1 /\ 1 <= i /\ i <= n + 1
        /\ (e - 1 <= n <=> e # n + 2)
    BY <1>1, <1>2, <1>5
  <2>2. InTag(g, d, a)[i] = InTag(s, d, a)[i]
    <3>1. /\ s \in Seq(S) /\ d \in Seq(STRING) /\ c \in S
          /\ i \in a .. Len(s) + 1
      BY <1>2, <2>1 DEF n
    <3> QED
      BY <3>1, InTagStays, Z3
  <2> QED
    BY <2>1, <2>2
<1>6. /\ i <= n + 1 /\ 1 <= i /\ e = n + 2 =>
           (Matches(g, d, i, e)
              <=> Matches(s, d, i, n + 1) /\ c = d[m])
      /\ 1 <= i /\ e - 1 <= n =>
           (Matches(g, d, i, e) <=> Matches(s, d, i, e))
  <2>1. e = n + 2 => n + 2 - i = m
    BY <1>1, <1>2
  <2>2. e \in Nat /\ (e - 1 <= n => e <= n + 1)
    BY <1>1, <1>2
  <2>3. 1 <= i =>
          /\ e <= n + 1 => (Matches(g, d, i, e) <=> Matches(s, d, i, e))
          /\ i <= n + 1 =>
               (Matches(g, d, i, n + 2)
                  <=> Matches(s, d, i, n + 1) /\ c = d[n + 2 - i])
    BY <2>2, MatchesMore DEF n
  <2> HIDE DEF e, g
  <2> QED
    BY <2>1, <2>2, <2>3
<1>7. \/ ~(a <= i /\ e - 1 <= n + 1)
      \/ a <= i /\ e - 1 <= n /\ e # n + 2
      \/ a <= i /\ e - 1 = n + 1 /\ e = n + 2 /\ ~(e - 1 <= n)
  BY <1>1, <1>2
<1>8. /\ e = n + 2 => e - 1 <= n + 1
      /\ e - 1 <= n => e - 1 <= n + 1
  BY <1>1, <1>2
<1> HIDE DEF g, e
<1>9. i \in TagsOf(g, d, a) <=>
        \/ i \in TagsOf(s, d, a)
        \/ /\ a <= i /\ e = n + 2
           /\ Matches(s, d, i, n + 1) /\ c = d[m] /\ ~InTag(s, d, a)[i]
  BY <1>3, <1>4, <1>5, <1>6, <1>7, <1>8
<1> QED
  BY <1>9 DEF Ends, g, e, m, n

-----------------------------------------------------------------------------
(* The thought filter: a text without a tag, one that has begun it, one    *)
(* that has it.                                                            *)

Clear(s, d, a) ==
  /\ TagsOf(s, d, a) = {} /\ a <= Len(s) + 1
  /\ ~InTag(s, d, a)[Len(s) + 1]
Holding(s, d, a, h) ==
  /\ TagsOf(s, d, a) = {} /\ Starts(h, d) /\ IsTail(h, s)
  /\ a <= Len(s) - Len(h) + 1 /\ ~InTag(s, d, a)[Len(s) - Len(h) + 1]
First(s, d, a, i) ==
  i \in TagsOf(s, d, a) /\ \A k \in TagsOf(s, d, a) : i <= k

\* The first text after which a tag is looked for.
LEMMA ClearStarts ==
  ASSUME NEW S, NEW s \in Seq(S), NEW d \in {OPEN_TAG, CLOSE_TAG}
  PROVE  Clear(s, d, Len(s) + 1)
<1> DEFINE a == Len(s) + 1
<1>1. a \in Nat /\ 1 <= a /\ a \in a .. Len(s) + 1 /\ a .. a - 1 = {}
  BY LenProperties
<1>2. d \in Seq(STRING) /\ Len(d) \in Nat /\ 2 <= Len(d)
  BY FilterTags
<1>3. InTag(s, d, a)[a] = Begun(InTag(s, d, a), s, d, a, a)
  <2> HIDE DEF a
  <2>1. /\ s \in Seq(S) /\ d \in Seq(STRING) /\ a \in Nat /\ 1 <= a
        /\ a \in a .. Len(s) + 1
    BY <1>1, <1>2
  <2> QED
    BY <2>1, InTagMeans, Z3
<1>4. ~InTag(s, d, a)[a]
  BY <1>1, <1>3 DEF Begun
<1>5. TagsOf(s, d, a) = {}
  <2>1. ASSUME NEW i \in Nat, a <= i, i + Len(d) - 1 <= Len(s)
        PROVE  FALSE
    BY <1>1, <1>2, <2>1, LenProperties
  <2> HIDE DEF a
  <2>2. s \in Seq(S) /\ d \in Seq(STRING) /\ a \in Nat /\ 1 <= a
    BY <1>1, <1>2
  <2>3. /\ TagsOf(s, d, a) \subseteq Nat
        /\ \A i \in Nat : i \in TagsOf(s, d, a) =>
             a <= i /\ i + Len(d) - 1 <= Len(s)
    BY <2>2, TagsAre, Z3
  <2> QED
    BY <2>1, <2>3
<1> QED
  BY <1>1, <1>4, <1>5 DEF Clear

\* A text that is not in a tag is begun by a bracket only.
LEMMA ClearGoes ==
  ASSUME NEW S, NEW s \in Seq(S), NEW c \in S, NEW d \in {OPEN_TAG, CLOSE_TAG},
         NEW a \in Nat, 1 <= a, Clear(s, d, a)
  PROVE  /\ c # "<" => Clear(Append(s, c), d, a)
         /\ c = "<" => Holding(Append(s, c), d, a, <<"<">>)
<1> DEFINE g == Append(s, c)
           n == Len(s)
           h == <<"<">>
<1>1. g \in Seq(S) /\ Len(g) = n + 1 /\ n \in Nat /\ g[n + 1] = c
  BY MoreText
<1>2. d \in Seq(STRING) /\ Len(d) \in Nat /\ 2 <= Len(d) /\ d[1] = "<"
  BY FilterTags
<1>3. a <= n + 1 /\ TagsOf(s, d, a) = {} /\ ~InTag(s, d, a)[n + 1]
  BY DEF Clear
<1>4. ASSUME NEW j \in a .. n, n + 1 - j < Len(d), Matches(s, d, j, n + 1),
             ~InTag(s, d, a)[j]
      PROVE  FALSE
  <2>1. n + 1 \in a .. Len(s) + 1
    BY <1>1, <1>3
  <2>2. InTag(s, d, a)[n + 1] = Begun(InTag(s, d, a), s, d, a, n + 1)
    <3> DEFINE e == n + 1
    <3>1. s \in Seq(S) /\ d \in Seq(STRING) /\ e \in a .. Len(s) + 1
      BY <1>2, <2>1
    <3> HIDE DEF e
    <3>2. InTag(s, d, a)[e] = Begun(InTag(s, d, a), s, d, a, e)
      BY <3>1, InTagMeans, Z3
    <3> QED
      BY <3>2 DEF e
  <2>3. j \in a .. n + 1 - 1
    BY <1>1
  <2> QED
    BY <1>3, <1>4, <2>2, <2>3 DEF Begun
<1>5. TagsOf(g, d, a) = {}
  <2>1. ASSUME NEW i \in Nat, i \in TagsOf(g, d, a)
        PROVE  FALSE
    <3>1. /\ a <= i /\ i + Len(d) = n + 2
          /\ Matches(s, d, i, n + 1) /\ ~InTag(s, d, a)[i]
      BY <1>3, <2>1, TagsMore DEF Ends
    <3>2. i \in a .. n /\ n + 1 - i < Len(d)
      BY <1>1, <1>2, <3>1
    <3> QED
      BY <1>4, <3>1, <3>2
  <2>2. TagsOf(g, d, a) \subseteq Nat
    <3>1. g \in Seq(S) /\ d \in Seq(STRING)
      BY <1>1, <1>2
    <3> HIDE DEF g
    <3> QED
      BY <3>1, TagsAre, Z3
  <2> QED
    BY <2>1, <2>2
<1>6. ASSUME c # "<"
      PROVE  ~InTag(g, d, a)[n + 2]
  <2>1. ASSUME NEW j \in a .. n + 1, n + 2 - j < Len(d),
               Matches(s, d, j, n + 1), c = d[n + 2 - j],
               ~InTag(s, d, a)[j]
        PROVE  FALSE
    <3>1. j = n + 1 => n + 2 - j = 1
      BY <1>1
    <3>2. j # n + 1 => j \in a .. n /\ n + 1 - j < Len(d)
      BY <1>1, <1>2, <2>1
    <3> QED
      BY <1>2, <1>4, <1>6, <2>1, <3>1, <3>2
  <2>2. s \in Seq(S) /\ d \in Seq(STRING) /\ a <= Len(s) + 1
    BY <1>2, <1>3
  <2>3. InTag(g, d, a)[n + 2] <=>
          \E j \in a .. n + 1 :
            /\ n + 2 - j < Len(d) /\ Matches(s, d, j, n + 1)
            /\ c = d[n + 2 - j] /\ ~InTag(s, d, a)[j]
    BY <2>2, InTagMore, Z3
  <2> QED
    BY <2>1, <2>3
<1>7. ASSUME c # "<"
      PROVE  Clear(g, d, a)
  <2>1. n + 2 = Len(g) + 1 /\ a <= Len(g) + 1
    BY <1>1, <1>3
  <2> HIDE DEF g, n
  <2> QED
    BY <1>5, <1>6, <1>7, <2>1 DEF Clear
<1>8. ASSUME c = "<"
      PROVE  Holding(g, d, a, h)
  <2>1. Starts(h, d) /\ Len(h) = 1 /\ h[1] = c
    BY <1>8, Bracket
  <2> HIDE DEF h
  <2>2. Len(g) - Len(h) + 1 = n + 1
    BY <1>1, <2>1
  <2>3. InTag(g, d, a)[n + 1] = InTag(s, d, a)[n + 1]
    <3> DEFINE e == n + 1
    <3>1. /\ s \in Seq(S) /\ d \in Seq(STRING) /\ c \in S
          /\ e \in a .. Len(s) + 1
      BY <1>1, <1>2, <1>3
    <3> HIDE DEF e
    <3>2. InTag(Append(s, c), d, a)[e] = InTag(s, d, a)[e]
      BY <3>1, InTagStays, Z3
    <3> QED
      BY <3>2 DEF e
  <2>4. IsTail(h, g)
    <3>1. Len(h) <= Len(g) /\ \A k \in 1 .. Len(h) :
            k = 1 /\ Len(g) - Len(h) + k = n + 1
      BY <1>1, <2>1
    <3> HIDE DEF g, n
    <3> QED
      BY <1>1, <2>1, <3>1 DEF IsTail
  <2> HIDE DEF g, n
  <2> QED
    BY <1>3, <1>5, <2>1, <2>2, <2>3, <2>4 DEF Holding
<1> QED
  BY <1>7, <1>8

\* At p the only tag that is going on was begun.
OnlyBegun(s, d, a, e, p) ==
  /\ e - p < Len(d) /\ Matches(s, d, p, e)
  /\ ~InTag(s, d, a)[p] /\ InTag(s, d, a)[e]
  /\ \A j \in a .. e - 1 :
       e - j < Len(d) /\ Matches(s, d, j, e) /\ ~InTag(s, d, a)[j] => j = p

\* What is held back is the beginning of that tag.
LEMMA HoldingIs ==
  ASSUME NEW S, NEW s \in Seq(S), NEW d \in {OPEN_TAG, CLOSE_TAG},
         NEW a \in Nat, 1 <= a, NEW h \in Seq(S), Holding(s, d, a, h)
  PROVE  /\ Len(s) - Len(h) + 1 \in a .. Len(s)
         /\ OnlyBegun(s, d, a, Len(s) + 1, Len(s) - Len(h) + 1)
<1> DEFINE n == Len(s)
           m == Len(h)
           p == n - m + 1
           e == n + 1
<1>1. n \in Nat /\ m \in Nat
  BY LenProperties
<1>2. d \in Seq(STRING) /\ Len(d) \in Nat
  BY FilterTags
<1>3. /\ 1 <= m /\ m < Len(d) /\ \A k \in 1 .. m : h[k] = d[k]
      /\ m <= n /\ \A k \in 1 .. m : h[k] = s[n - m + k]
      /\ a <= p /\ ~InTag(s, d, a)[p]
  BY DEF Holding, Starts, IsTail
<1> HIDE DEF n, m
<1>4. p \in a .. n /\ e - p = m /\ p \in a .. e - 1 /\ e \in a .. n + 1
  BY <1>1, <1>3
<1>5. Matches(s, d, p, e)
  <2>1. \A k \in 1 .. m : p + k - 1 = n - m + k
    BY <1>1
  <2>2. \A k \in 1 .. m : s[p + k - 1] = d[k]
    BY <1>3, <2>1
  <2> HIDE DEF p, e
  <2> QED
    BY <1>4, <2>2 DEF Matches
<1> HIDE DEF p, e
<1>6. InTag(s, d, a)[e] = Begun(InTag(s, d, a), s, d, a, e)
  <2>1. s \in Seq(S) /\ d \in Seq(STRING) /\ e \in a .. Len(s) + 1
    BY <1>2, <1>4 DEF n
  <2> QED
    BY <2>1, InTagMeans, Z3
<1>7. InTag(s, d, a)[e]
  <2>1. Begun(InTag(s, d, a), s, d, a, e)
    BY <1>3, <1>4, <1>5 DEF Begun
  <2> QED
    BY <1>6, <2>1
<1>8. ASSUME NEW j \in a .. e - 1, e - j < Len(d), Matches(s, d, j, e),
             ~InTag(s, d, a)[j]
      PROVE  j = p
  <2>1. /\ s \in Seq(S) /\ d \in Seq(STRING) /\ e \in a .. Len(s) + 1
        /\ p \in a .. e - 1 /\ e - p < Len(d)
    BY <1>1, <1>2, <1>3, <1>4 DEF n, e
  <2> QED
    BY <1>3, <1>5, <1>8, <2>1, OneBegun, Z3
<1>10. e - p < Len(d)
  BY <1>3, <1>4
<1>11. OnlyBegun(s, d, a, e, p)
  BY <1>3, <1>5, <1>7, <1>8, <1>10 DEF OnlyBegun
<1>12. p \in a .. n
  BY <1>4
<1> QED
  BY <1>11, <1>12, Zenon DEF p, n, m, e

\* A tag that is going on, and the next symbol.
LEMMA HoldingGoes ==
  ASSUME NEW S, NEW s \in Seq(S), NEW c \in S, NEW d \in {OPEN_TAG, CLOSE_TAG},
         NEW a \in Nat, 1 <= a, NEW h \in Seq(S), Holding(s, d, a, h)
  PROVE  /\ c # d[Len(h) + 1] => Clear(Append(s, c), d, a)
         /\ c = d[Len(h) + 1] /\ Len(h) + 1 < Len(d) =>
              Holding(Append(s, c), d, a, Append(h, c))
         /\ c = d[Len(h) + 1] /\ Len(h) + 1 = Len(d) =>
              First(Append(s, c), d, a, Len(s) - Len(h) + 1)
<1> DEFINE g == Append(s, c)
           n == Len(s)
           m == Len(h)
           p == n - m + 1
<1>1. /\ g \in Seq(S) /\ Len(g) = n + 1 /\ n \in Nat /\ g[n + 1] = c
      /\ \A k \in 1 .. n : g[k] = s[k]
  BY MoreText
<1>2. d \in Seq(STRING) /\ Len(d) \in Nat /\ 2 <= Len(d) /\ d[1] = "<"
  BY FilterTags
<1>0. p = n - m + 1 /\ p \in a .. n /\ OnlyBegun(s, d, a, n + 1, p)
  BY HoldingIs, Zenon
<1> HIDE DEF p
<1> DEFINE e == n + 1
<1>e. e = n + 1 /\ e - 1 = n /\ OnlyBegun(s, d, a, e, p)
  BY <1>0, <1>1
<1> HIDE DEF e
<1>3. /\ e - p < Len(d) /\ Matches(s, d, p, e)
      /\ ~InTag(s, d, a)[p] /\ InTag(s, d, a)[e]
      /\ \A j \in a .. n :
           e - j < Len(d) /\ Matches(s, d, j, e) /\ ~InTag(s, d, a)[j]
             => j = p
  BY <1>e, Zenon DEF OnlyBegun
<1>4. /\ TagsOf(s, d, a) = {} /\ Starts(h, d) /\ IsTail(h, s)
      /\ 1 <= m /\ m < Len(d) /\ m \in Nat /\ m <= n
  BY LenProperties DEF Holding, Starts, IsTail
<1>5. ASSUME NEW i \in Nat
      PROVE  i \in TagsOf(g, d, a) <=>
               i = p /\ m + 1 = Len(d) /\ c = d[m + 1]
  <2>1. i \in TagsOf(g, d, a) <=>
          /\ a <= i /\ i + Len(d) = n + 2
          /\ Matches(s, d, i, e) /\ c = d[Len(d)] /\ ~InTag(s, d, a)[i]
    <3>1. i \in TagsOf(g, d, a) <=>
            i \in TagsOf(s, d, a) \/ Ends(s, c, d, a, i)
      BY TagsMore
    <3>2. Ends(s, c, d, a, i) <=>
            /\ a <= i /\ i + Len(d) = n + 2
            /\ Matches(s, d, i, e) /\ c = d[Len(d)] /\ ~InTag(s, d, a)[i]
      BY DEF Ends, e
    <3> HIDE DEF g, n
    <3> QED
      BY <1>4, <3>1, <3>2
  <2>2. ASSUME a <= i, i + Len(d) = n + 2
        PROVE  i \in a .. n /\ e - i < Len(d)
    <3> DEFINE l == Len(d)
    <3>1. l \in Nat /\ 2 <= l /\ i + l = n + 2 /\ n \in Nat /\ e = n + 1
      BY <1>1, <1>2, <1>e, <2>2
    <3> HIDE DEF l, n
    <3>2. i \in a .. n /\ e - i < l
      BY <2>2, <3>1
    <3> QED
      BY <3>2 DEF l
  <2>3. i = p => (i + Len(d) = n + 2 <=> m + 1 = Len(d)) /\ a <= i
    <3> DEFINE l == Len(d)
    <3>1. l \in Nat /\ n \in Nat /\ m \in Nat /\ p = n - m + 1
      BY <1>0, <1>1, <1>2, <1>4
    <3>2. p \in a .. n
      BY <1>0
    <3>3. a <= p
      BY <1>1, <3>2
    <3> HIDE DEF l, n, m
    <3>4. p + l = n + 2 <=> m + 1 = l
      BY <3>1
    <3> QED
      BY <3>3, <3>4, Zenon DEF l
  <2> HIDE DEF g, n, m
  <2>4. i \in TagsOf(g, d, a) => i = p
    BY <1>3, <2>1, <2>2, Zenon
  <2>5. i = p => Matches(s, d, i, e) /\ ~InTag(s, d, a)[i]
    BY <1>3, Zenon
  <2>6. CASE i = p
    <3>1. i \in TagsOf(g, d, a) <=> m + 1 = Len(d) /\ c = d[Len(d)]
      BY <2>1, <2>3, <2>5, <2>6, Zenon
    <3> QED
      BY <2>6, <3>1, Zenon
  <2> QED
    BY <2>4, <2>6, Zenon
<1>6. TagsOf(g, d, a) \subseteq Nat
  <2>1. g \in Seq(S) /\ d \in Seq(STRING)
    BY <1>1, <1>2
  <2> HIDE DEF g
  <2> QED
    BY <2>1, TagsAre, Z3
<1>7. p \in Nat /\ n + 2 - p = m + 1
  BY <1>0, <1>1, <1>4
<1>8. ASSUME c # d[m + 1]
      PROVE  Clear(g, d, a)
  <2>1. ASSUME NEW j \in a .. n + 1, n + 2 - j < Len(d),
               Matches(s, d, j, e), c = d[n + 2 - j],
               ~InTag(s, d, a)[j]
        PROVE  FALSE
    <3>1. j # n + 1 => j \in a .. n /\ e - j < Len(d)
      BY <1>1, <1>2, <1>e, <2>1
    <3>2. CASE j = n + 1
      <4> HIDE DEF n
      <4> QED
        BY <1>3, <1>e, <2>1, <3>2
    <3>3. CASE j # n + 1
      <4>1. j = p
        BY <1>3, <2>1, <3>1, <3>3
      <4> QED
        BY <1>7, <1>8, <2>1, <4>1
    <3> QED
      BY <3>2, <3>3
  <2>2. s \in Seq(S) /\ d \in Seq(STRING) /\ a <= Len(s) + 1
    BY <1>0, <1>1, <1>2
  <2>3. InTag(g, d, a)[n + 2] <=>
          \E j \in a .. n + 1 :
            /\ n + 2 - j < Len(d) /\ Matches(s, d, j, e)
            /\ c = d[n + 2 - j] /\ ~InTag(s, d, a)[j]
    BY <2>2, InTagMore, Z3 DEF e
  <2>4. ~InTag(g, d, a)[n + 2]
    BY <2>1, <2>3
  <2>5. TagsOf(g, d, a) = {}
    BY <1>5, <1>6, <1>8
  <2>6. n + 2 = Len(g) + 1 /\ a <= Len(g) + 1
    BY <1>1, <2>2
  <2> HIDE DEF g, n, m
  <2> QED
    BY <2>4, <2>5, <2>6 DEF Clear
<1>9. ASSUME c = d[m + 1], m + 1 < Len(d)
      PROVE  Holding(g, d, a, Append(h, c))
  <2> DEFINE k == Append(h, c)
  <2>1. /\ k \in Seq(S) /\ Len(k) = m + 1 /\ k[m + 1] = c
        /\ \A l \in 1 .. m : k[l] = h[l]
    BY Appends
  <2> HIDE DEF k
  <2>2. Starts(k, d)
    <3>1. 1 <= m + 1 /\ \A l \in 1 .. m + 1 : l \in 1 .. m \/ l = m + 1
      BY <1>4
    <3>2. \A l \in 1 .. m : h[l] = d[l]
      BY <1>4 DEF Starts
    <3> HIDE DEF m
    <3> QED
      BY <1>9, <2>1, <3>1, <3>2 DEF Starts
  <2>3. IsTail(k, g)
    <3>1. /\ m + 1 <= n + 1
          /\ \A l \in 1 .. m + 1 :
               /\ l \in 1 .. m \/ l = m + 1
               /\ (n + 1) - (m + 1) + l = n - m + l
               /\ l \in 1 .. m => n - m + l \in 1 .. n
               /\ l = m + 1 => n - m + l = n + 1
      BY <1>1, <1>4
    <3>2. \A l \in 1 .. m : h[l] = s[n - m + l]
      BY <1>4 DEF IsTail
    <3> HIDE DEF m, n, g
    <3>3. \A l \in 1 .. m + 1 : k[l] = g[n - m + l]
      BY <1>1, <2>1, <3>1, <3>2
    <3>4. \A l \in 1 .. Len(k) : k[l] = g[Len(g) - Len(k) + l]
      BY <1>1, <2>1, <3>1, <3>3
    <3> QED
      BY <1>1, <2>1, <3>1, <3>4 DEF IsTail
  <2>4. Len(g) - Len(k) + 1 = p /\ a <= p
    BY <1>0, <1>1, <1>4, <2>1
  <2>5. InTag(g, d, a)[p] = InTag(s, d, a)[p]
    <3>1. /\ s \in Seq(S) /\ d \in Seq(STRING) /\ c \in S
          /\ p \in a .. Len(s) + 1
      BY <1>0, <1>1, <1>2
    <3> QED
      BY <3>1, InTagStays, Z3
  <2>6. TagsOf(g, d, a) = {}
    <3>1. m + 1 # Len(d)
      BY <1>2, <1>4, <1>9
    <3> QED
      BY <1>5, <1>6, <3>1
  <2> HIDE DEF g, n, m
  <2>7. Holding(g, d, a, k)
    BY <1>3, <2>2, <2>3, <2>4, <2>5, <2>6 DEF Holding
  <2> QED
    BY <2>7 DEF k
<1>10. ASSUME c = d[m + 1], m + 1 = Len(d)
       PROVE  First(g, d, a, n - m + 1)
  <2> HIDE DEF g, n, m
  <2>1. p \in TagsOf(g, d, a) /\ \A k \in TagsOf(g, d, a) : p <= k
    BY <1>5, <1>6, <1>7, <1>10
  <2> QED
    BY <1>0, <2>1 DEF First
<1> QED
  BY <1>8, <1>9, <1>10

\* The first tag stays the first.
LEMMA FirstStays ==
  ASSUME NEW S, NEW s \in Seq(S), NEW c \in S, NEW d \in {OPEN_TAG, CLOSE_TAG},
         NEW a \in Nat, 1 <= a, NEW i \in Nat, First(s, d, a, i)
  PROVE  /\ First(Append(s, c), d, a, i)
         /\ a <= i /\ i + Len(d) - 1 <= Len(s)
<1> DEFINE g == Append(s, c)
           n == Len(s)
<1>1. g \in Seq(S) /\ n \in Nat
  BY MoreText
<1>2. d \in Seq(STRING) /\ Len(d) \in Nat
  BY FilterTags
<1>3. /\ a <= i /\ i + Len(d) - 1 <= n
  <2>1. s \in Seq(S) /\ d \in Seq(STRING)
    BY <1>2
  <2>2. i \in TagsOf(s, d, a) => a <= i /\ i + Len(d) - 1 <= n
    BY <2>1, TagsAre, Z3
  <2> QED
    BY <2>2 DEF First
<1>4. TagsOf(g, d, a) \subseteq Nat
  <2>1. g \in Seq(S) /\ d \in Seq(STRING)
    BY <1>1, <1>2
  <2> HIDE DEF g
  <2> QED
    BY <2>1, TagsAre, Z3
<1>5. i \in TagsOf(g, d, a)
  <2>1. i \in TagsOf(s, d, a)
    BY DEF First
  <2> QED
    BY <2>1, TagsMore
<1>6. ASSUME NEW k \in TagsOf(g, d, a)
      PROVE  i <= k
  <2>1. k \in Nat
    BY <1>4
  <2>2. k \in TagsOf(s, d, a) \/ k + Len(d) = n + 2
    BY <2>1, TagsMore DEF Ends
  <2>3. k + Len(d) = n + 2 => i <= k
    BY <1>1, <1>2, <1>3, <2>1
  <2> QED
    BY <2>2, <2>3 DEF First
<1> HIDE DEF g
<1>7. First(g, d, a, i)
  BY <1>5, <1>6 DEF First
<1> QED
  BY <1>3, <1>7 DEF g

-----------------------------------------------------------------------------
(* The thought filter: what its state says of the text it was fed.  f is   *)
(* the filter, e what it has printed, s the text.                          *)

\* Behind the opening tag at i, behind the closing tag at i.
Opened(i) == i + Len(OPEN_TAG)
Closed(i) == i + Len(CLOSE_TAG)

Before(f, e, s) ==
  /\ f.state = "passthrough" => e = s /\ Clear(s, OPEN_TAG, 1)
  /\ f.state = "buffering_open" =>
       Joins(e, f.held, s) /\ Holding(s, OPEN_TAG, 1, f.held)
Within(f, e, s, i) ==
  /\ First(s, OPEN_TAG, 1, i) /\ e = SubSeq(s, 1, i - 1)
  /\ f.state = "thinking" => Clear(s, CLOSE_TAG, Opened(i))
  /\ f.state = "buffering_close" =>
       Holding(s, CLOSE_TAG, Opened(i), f.held)
After(e, s, i, j) ==
  /\ First(s, OPEN_TAG, 1, i) /\ First(s, CLOSE_TAG, Opened(i), j)
  /\ e = SubSeq(s, 1, i - 1) \o SubSeq(s, Closed(j), Len(s))

Follows(f, e, s) ==
  /\ f.state \in {"passthrough", "buffering_open"} => Before(f, e, s)
  /\ f.state \in {"thinking", "buffering_close"} =>
       \E i \in Nat : Within(f, e, s, i)
  /\ f.state = "output" => \E i \in Nat : \E j \in Nat : After(e, s, i, j)

\* What the output has to hold if the next symbol is not the tag's.
Load(f) ==
  Len(f.out) + IF f.state = "buffering_open" THEN Len(f.held) ELSE 0

LEMMA LoadIs ==
  ASSUME NEW S, NEW f, FilterOK(S, f)
  PROVE  /\ Load(f) \in Nat
         /\ f.state # "buffering_open" => Load(f) = Len(f.out)
         /\ f.state = "buffering_open" => Load(f) = Len(f.out) + Len(f.held)
<1> DEFINE o == Len(f.out)
           q == Len(f.held)
<1>1. o \in Nat /\ q \in Nat
  BY FilterParts
<1>2. /\ f.state # "buffering_open" => Load(f) = o + 0
      /\ f.state = "buffering_open" => Load(f) = o + q
  BY DEF Load
<1>3. /\ Load(f) \in Nat
      /\ f.state # "buffering_open" => Load(f) = o
      /\ f.state = "buffering_open" => Load(f) = o + q
  <2> HIDE DEF o, q
  <2> QED
    BY <1>1, <1>2
<1> QED
  BY <1>3

\* A step from f to k on to the text g: what is emitted of it is emitted of
\* the text.
Goes(S, f, k, e, g) ==
  \E x \in Seq(S) : /\ k.out = f.out \o x /\ Follows(k, e \o x, g)
                    /\ Load(k) <= Load(f) + 1

LEMMA GoesSilently ==
  ASSUME NEW S, NEW f, FilterOK(S, f), NEW k, NEW e \in Seq(S), NEW g,
         k.out = f.out, Follows(k, e, g), Load(k) <= Load(f) + 1
  PROVE  Goes(S, f, k, e, g)
<1>1. <<>> \in Seq(S) /\ e \o <<>> = e
  BY EmptySeq, ConcatEmptySeq
<1>2. f.out \o <<>> = f.out
  <2>1. f.out \in Seq(S)
    BY FilterParts
  <2> QED
    BY <2>1, ConcatEmptySeq
<1> QED
  BY <1>1, <1>2 DEF Goes

\* What is emitted and fits is printed.
LEMMA Emits ==
  ASSUME NEW S, NEW f, FilterOK(S, f), NEW x \in Seq(S),
         Len(f.out) + Len(x) < OutputSize
  PROVE  /\ FilterOK(S, Emit(f, x)) /\ Emit(f, x).state = f.state
         /\ Emit(f, x).out = f.out \o x
         /\ Len(Emit(f, x).out) = Len(f.out) + Len(x)
<1>1. /\ FilterOK(S, Emit(f, x)) /\ Emit(f, x).state = f.state
      /\ Len(f.out) + Len(x) < OutputSize => Emit(f, x).out = f.out \o x
  BY EmitKeeps
<1>2. Len(f.out \o x) = Len(f.out) + Len(x)
  <2>1. f.out \in Seq(S)
    BY FilterParts
  <2> QED
    BY <2>1, ConcatProperties
<1> QED
  BY <1>1, <1>2

LEMMA PassGoes ==
  ASSUME NEW S, NEW f, FilterOK(S, f), f.state = "passthrough",
         NEW e \in Seq(S), NEW s \in Seq(S), Before(f, e, s), NEW c \in S,
         Load(f) + 1 < OutputSize
  PROVE  Goes(S, f, Symbol(f, c), e, Append(s, c))
<1> DEFINE k == Symbol(f, c)
           g == Append(s, c)
           h == <<"<">>
           o == Len(f.out)
<1>1. /\ c = "<" => k = Hold(f, "buffering_open", h)
      /\ c # "<" => k = Emit(f, <<c>>)
      /\ FilterOK(S, k)
  BY PassthroughIs
<1>2. g = s \o <<c>> /\ <<c>> \in Seq(S) /\ Len(<<c>>) = 1
  BY MoreText
<1>3. e = s /\ Clear(s, OPEN_TAG, 1)
  BY DEF Before
<1>4. /\ c # "<" => Clear(g, OPEN_TAG, 1)
      /\ c = "<" => Holding(g, OPEN_TAG, 1, h)
  <2>1. 1 \in Nat /\ 1 <= 1 /\ OPEN_TAG \in {OPEN_TAG, CLOSE_TAG}
    OBVIOUS
  <2> QED
    BY <1>3, <2>1, ClearGoes, Z3
<1>5. o \in Nat /\ OutputSize \in Nat /\ Load(f) = o
  BY FilterParts, LoadIs, SizesAssumption
<1> HIDE DEF k, g, o
<1>6. CASE c = "<"
  <2>1. h \in Seq(S) /\ Starts(h, OPEN_TAG) /\ Len(h) = 1
    BY <1>6, Bracket
  <2>2. k = Hold(f, "buffering_open", h) /\ h = <<c>>
    BY <1>1, <1>6
  <2> HIDE DEF h
  <2>3. k.state = "buffering_open" /\ k.held = h /\ k.out = f.out
    <3>1. /\ Hold(f, "buffering_open", h).state = "buffering_open"
          /\ Hold(f, "buffering_open", h).held = h
          /\ Hold(f, "buffering_open", h).out = f.out
      BY <2>1, HoldKeeps, Z3
    <3> QED
      BY <2>2, <3>1
  <2>4. Load(k) = o + 1
    BY <1>1, <2>1, <2>3, LoadIs DEF o
  <2>5. Follows(k, e, g)
    BY <1>2, <1>3, <1>4, <1>6, <2>2, <2>3 DEF Follows, Before, Joins
  <2>6. Load(k) <= Load(f) + 1
    BY <1>5, <2>4
  <2> QED
    BY <2>3, <2>5, <2>6, GoesSilently DEF k, g
<1>7. CASE c # "<"
  <2> DEFINE x == <<c>>
  <2>1. x \in Seq(S) /\ Len(x) = 1 /\ k = Emit(f, x) /\ g = s \o x
    BY <1>1, <1>2, <1>7
  <2> HIDE DEF x
  <2>2. Len(f.out) + Len(x) < OutputSize
    BY <1>5, <2>1 DEF o
  <2>3. /\ k.state = "passthrough" /\ k.out = f.out \o x
        /\ Len(k.out) = o + 1
    BY <2>1, <2>2, Emits DEF o
  <2>4. Load(k) = o + 1
    BY <1>1, <2>3, LoadIs
  <2>5. Follows(k, e \o x, g)
    BY <1>3, <1>4, <1>7, <2>1, <2>3 DEF Follows, Before
  <2>6. Load(k) <= Load(f) + 1
    BY <1>5, <2>4
  <2> QED
    BY <2>1, <2>3, <2>5, <2>6 DEF Goes, k, g
<1> QED
  BY <1>6, <1>7

\* What stands in a text is not moved by what follows.
LEMMA FrontStays ==
  ASSUME NEW S, NEW s \in Seq(S), NEW c \in S, NEW i \in Nat, 1 <= i,
         i - 1 <= Len(s)
  PROVE  SubSeq(Append(s, c), 1, i - 1) = SubSeq(s, 1, i - 1)
<1> DEFINE m == i - 1
<1>1. /\ <<c>> \in Seq(S) /\ 1 \in 1 .. Len(s) + 1
      /\ m \in 1 - 1 .. Len(s) /\ Append(s, c) = s \o <<c>>
  BY MoreText
<1> HIDE DEF m
<1>2. SubSeq(Append(s, c), 1, m) = SubSeq(s, 1, m)
  BY <1>1, HeadPart
<1> QED
  BY <1>2 DEF m

\* A text whose end may have begun the tag.
LEMMA OpenGoes ==
  ASSUME NEW S, NEW f, FilterOK(S, f), f.state = "buffering_open",
         NEW e \in Seq(S), NEW s \in Seq(S), Before(f, e, s), NEW c \in S,
         Load(f) + 1 < OutputSize
  PROVE  Goes(S, f, Symbol(f, c), e, Append(s, c))
<1> DEFINE k == Symbol(f, c)
           g == Append(s, c)
           n == Len(s)
           h == f.held
           x == Append(h, c)
           d == OPEN_TAG
           q == Len(h)
           o == Len(f.out)
           m == Len(e)
<1>1. /\ x \in Seq(S) /\ FilterOK(S, k)
      /\ \/ /\ c = d[q + 1] /\ q + 1 = Len(d)
            /\ k = Enter(f, "thinking")
         \/ /\ c = d[q + 1] /\ q + 1 < Len(d)
            /\ k = Hold(f, "buffering_open", x) /\ Starts(x, d)
         \/ /\ c # d[q + 1]
            /\ k = Enter(Emit(f, x), "passthrough")
  BY BufferingOpenIs
<1>2. h \in Seq(S) /\ q \in Nat /\ o \in Nat /\ m \in Nat /\ n \in Nat
  BY FilterParts, LenProperties
<1>3. Joins(e, h, s) /\ Holding(s, d, 1, h)
  BY DEF Before
<1>4. Load(f) = o + q /\ OutputSize \in Nat
  BY LoadIs, SizesAssumption
<1> HIDE DEF h, d
<1>5. Joins(e, x, g) /\ n = m + q /\ Len(x) = q + 1 /\ Len(g) = n + 1
      /\ g \in Seq(S)
  <2>1. Joins(e, x, g)
    BY <1>2, <1>3, SymbolBehind
  <2>2. Len(e \o h) = Len(e) + Len(h)
    BY <1>2, ConcatProperties
  <2>3. Len(x) = q + 1
    BY <1>2, Appends
  <2>4. Len(g) = n + 1 /\ g \in Seq(S)
    BY MoreText
  <2> QED
    BY <1>3, <2>1, <2>2, <2>3, <2>4 DEF Joins
<1>6. /\ c # d[q + 1] => Clear(g, d, 1)
      /\ c = d[q + 1] /\ q + 1 < Len(d) => Holding(g, d, 1, x)
      /\ c = d[q + 1] /\ q + 1 = Len(d) => First(g, d, 1, n - q + 1)
  <2>1. 1 \in Nat /\ 1 <= 1 /\ d \in {OPEN_TAG, CLOSE_TAG}
    BY DEF d
  <2> QED
    BY <1>2, <1>3, <2>1, HoldingGoes, Z3
<1> HIDE DEF k, g, x, q, o, m, n
<1>7. CASE /\ c = d[q + 1] /\ q + 1 = Len(d)
           /\ k = Enter(f, "thinking")
  <2> DEFINE i == n - q + 1
  <2>1. k.state = "thinking" /\ k.out = f.out
    BY <1>7, EnterKeeps
  <2>2. i \in Nat /\ i - 1 = m /\ i + Len(d) = Len(g) + 1
    <3>1. n - q = m
      BY <1>2, <1>5
    <3>2. i = m + 1
      BY <3>1
    <3>3. i + Len(d) = m + 1 + (q + 1)
      BY <1>7, <3>2
    <3> QED
      BY <1>2, <1>5, <3>2, <3>3
  <2>3. First(g, d, 1, i)
    BY <1>6, <1>7
  <2>4. Clear(g, CLOSE_TAG, Len(g) + 1)
    BY <1>5, ClearStarts
  <2>5. e = SubSeq(g, 1, m)
    <3>1. 1 \in 1 .. m + 1 /\ m \in 1 - 1 .. m
      BY <1>2
    <3>2. SubSeq(e \o x, 1, m) = SubSeq(e, 1, m)
      BY <1>1, <3>1, HeadPart DEF m
    <3>3. SubSeq(e, 1, m) = e
      BY SubSeqFull DEF m
    <3> QED
      BY <1>5, <3>2, <3>3 DEF Joins
  <2> HIDE DEF i
  <2>6. Within(k, e, g, i)
    BY <2>1, <2>2, <2>3, <2>4, <2>5 DEF Within, Opened, d
  <2>7. Follows(k, e, g)
    BY <2>1, <2>2, <2>6 DEF Follows
  <2>8. Load(k) = o
    BY <1>1, <2>1, LoadIs DEF o
  <2>9. Load(k) <= Load(f) + 1
    BY <1>2, <1>4, <2>8
  <2> QED
    BY <2>1, <2>7, <2>9, GoesSilently DEF k, g
<1>8. CASE /\ c = d[q + 1] /\ q + 1 < Len(d)
           /\ k = Hold(f, "buffering_open", x) /\ Starts(x, d)
  <2>1. k.state = "buffering_open" /\ k.held = x /\ k.out = f.out
    <3>1. x \in Seq(S) /\ Starts(x, OPEN_TAG)
      BY <1>1, <1>8 DEF d
    <3>2. /\ Hold(f, "buffering_open", x).state = "buffering_open"
          /\ Hold(f, "buffering_open", x).held = x
          /\ Hold(f, "buffering_open", x).out = f.out
      BY <3>1, HoldKeeps, Z3
    <3> QED
      BY <1>8, <3>2
  <2>2. Follows(k, e, g)
    BY <1>5, <1>6, <1>8, <2>1 DEF Follows, Before, d
  <2>3. Load(k) = o + (q + 1)
    BY <1>1, <1>5, <2>1, LoadIs DEF o
  <2>4. Load(k) <= Load(f) + 1
    BY <1>2, <1>4, <2>3
  <2> QED
    BY <2>1, <2>2, <2>4, GoesSilently DEF k, g
<1>9. CASE c # d[q + 1] /\ k = Enter(Emit(f, x), "passthrough")
  <2>1. Len(f.out) + Len(x) < OutputSize
    <3>1. o + (q + 1) < OutputSize
      BY <1>2, <1>4
    <3> QED
      BY <1>5, <3>1 DEF o
  <2>2. /\ FilterOK(S, Emit(f, x)) /\ Emit(f, x).out = f.out \o x
        /\ Len(Emit(f, x).out) = o + (q + 1)
    BY <1>1, <1>5, <2>1, Emits DEF o
  <2>3. /\ k.state = "passthrough" /\ k.out = f.out \o x
        /\ Len(k.out) = o + (q + 1)
    BY <1>9, <2>2, EnterKeeps
  <2>4. Load(k) = o + (q + 1)
    BY <1>1, <2>3, LoadIs
  <2>5. Load(k) <= Load(f) + 1
    BY <1>2, <1>4, <2>4
  <2>6. Follows(k, e \o x, g)
    BY <1>5, <1>6, <1>9, <2>3 DEF Follows, Before, Joins, d
  <2> QED
    BY <1>1, <2>3, <2>5, <2>6 DEF Goes, k, g
<1> QED
  BY <1>1, <1>7, <1>8, <1>9

LEMMA SilentLoad ==
  ASSUME NEW S, NEW f, FilterOK(S, f), NEW k, FilterOK(S, k),
         k.out = f.out, k.state # "buffering_open"
  PROVE  Load(k) <= Load(f) + 1
<1> DEFINE o == Len(f.out)
           q == Len(f.held)
<1>1. o \in Nat /\ q \in Nat
  BY FilterParts
<1>2. Load(k) = o
  BY LoadIs
<1>3. Load(f) = o \/ Load(f) = o + q
  BY LoadIs
<1> HIDE DEF o, q
<1> QED
  BY <1>1, <1>2, <1>3

\* The opening tag stays where it was found, and so does what is before it.
LEMMA OpenedStays ==
  ASSUME NEW S, NEW s \in Seq(S), NEW c \in S, NEW i \in Nat,
         First(s, OPEN_TAG, 1, i)
  PROVE  /\ First(Append(s, c), OPEN_TAG, 1, i)
         /\ SubSeq(Append(s, c), 1, i - 1) = SubSeq(s, 1, i - 1)
         /\ 1 <= i /\ i - 1 <= Len(s)
         /\ Opened(i) \in Nat /\ 1 <= Opened(i)
<1> DEFINE d == OPEN_TAG
<1>1. d \in {OPEN_TAG, CLOSE_TAG} /\ 1 \in Nat /\ 1 <= 1
  OBVIOUS
<1>2. Len(d) \in Nat /\ Len(s) \in Nat
  BY FilterTags, LenProperties
<1>3. First(Append(s, c), d, 1, i) /\ 1 <= i /\ i + Len(d) - 1 <= Len(s)
  <2>1. First(s, d, 1, i)
    OBVIOUS
  <2> HIDE DEF d
  <2> QED
    BY <1>1, <2>1, FirstStays, Z3
<1>4. i - 1 <= Len(s) /\ i + Len(d) \in Nat /\ 1 <= i + Len(d)
  BY <1>2, <1>3
<1>5. SubSeq(Append(s, c), 1, i - 1) = SubSeq(s, 1, i - 1)
  BY <1>3, <1>4, FrontStays
<1> QED
  BY <1>3, <1>4, <1>5 DEF Opened

\* A text that has opened the tag.
LEMMA ThinkGoes ==
  ASSUME NEW S, NEW f, FilterOK(S, f), f.state = "thinking",
         NEW e \in Seq(S), NEW s \in Seq(S), NEW i \in Nat,
         Within(f, e, s, i), NEW c \in S
  PROVE  Goes(S, f, Symbol(f, c), e, Append(s, c))
<1> DEFINE k == Symbol(f, c)
           g == Append(s, c)
           h == <<"<">>
           a == Opened(i)
<1>1. /\ FilterOK(S, k) /\ k.out = f.out
      /\ c = "<" => k.state = "buffering_close" /\ k.held = h
      /\ c # "<" => k.state = "thinking"
  BY ThinkingIs
<1>2. /\ First(s, OPEN_TAG, 1, i) /\ e = SubSeq(s, 1, i - 1)
      /\ Clear(s, CLOSE_TAG, a)
  BY DEF Within
<1>3. First(g, OPEN_TAG, 1, i) /\ e = SubSeq(g, 1, i - 1)
  BY <1>2, OpenedStays
<1>4. a \in Nat /\ 1 <= a
  BY <1>2, OpenedStays
<1>5. /\ c # "<" => Clear(g, CLOSE_TAG, a)
      /\ c = "<" => Holding(g, CLOSE_TAG, a, h)
  <2> HIDE DEF a
  <2>1. CLOSE_TAG \in {OPEN_TAG, CLOSE_TAG}
    OBVIOUS
  <2> QED
    BY <1>2, <1>4, <2>1, ClearGoes, Z3
<1>6. Load(k) <= Load(f) + 1
  <2>1. k.state # "buffering_open"
    BY <1>1
  <2> QED
    BY <1>1, <2>1, SilentLoad
<1> HIDE DEF k, g, h
<1>7. Within(k, e, g, i)
  BY <1>1, <1>3, <1>5 DEF Within
<1>8. Follows(k, e, g)
  BY <1>1, <1>7 DEF Follows
<1> QED
  BY <1>1, <1>6, <1>8, GoesSilently DEF k, g

\* A text that may have begun the closing tag.
LEMMA CloseGoes ==
  ASSUME NEW S, NEW f, FilterOK(S, f), f.state = "buffering_close",
         NEW e \in Seq(S), NEW s \in Seq(S), NEW i \in Nat,
         Within(f, e, s, i), NEW c \in S
  PROVE  Goes(S, f, Symbol(f, c), e, Append(s, c))
<1> DEFINE k == Symbol(f, c)
           g == Append(s, c)
           n == Len(s)
           h == f.held
           q == Len(h)
           x == Append(h, c)
           a == Opened(i)
           d == CLOSE_TAG
           j == n - q + 1
<1>1. /\ FilterOK(S, k) /\ k.out = f.out
      /\ \/ /\ c = d[q + 1] /\ q + 1 = Len(d)
            /\ k = Enter(f, "output")
         \/ /\ c = d[q + 1] /\ q + 1 < Len(d)
            /\ k = Hold(f, "buffering_close", x) /\ Starts(x, d)
         \/ /\ c # d[q + 1]
            /\ k = Enter(f, "thinking")
  BY BufferingCloseIs
<1>2. /\ First(s, OPEN_TAG, 1, i) /\ e = SubSeq(s, 1, i - 1)
      /\ Holding(s, d, a, h)
  BY DEF Within
<1>3. First(g, OPEN_TAG, 1, i) /\ e = SubSeq(g, 1, i - 1)
  BY <1>2, OpenedStays
<1>4. a \in Nat /\ 1 <= a
  BY <1>2, OpenedStays
<1>5. h \in Seq(S) /\ x \in Seq(S) /\ q \in Nat /\ n \in Nat
      /\ Len(g) = n + 1
  BY FilterParts, Appends, MoreText
<1> HIDE DEF d, h, a
<1>6. /\ c # d[q + 1] => Clear(g, d, a)
      /\ c = d[q + 1] /\ q + 1 < Len(d) => Holding(g, d, a, x)
      /\ c = d[q + 1] /\ q + 1 = Len(d) => First(g, d, a, j)
  <2>1. d \in {OPEN_TAG, CLOSE_TAG}
    BY DEF d
  <2> QED
    BY <1>2, <1>4, <1>5, <2>1, HoldingGoes, Z3
<1>7. j \in Nat /\ j + (q + 1) = Len(g) + 1
  <2>1. q <= n
    BY <1>2 DEF Holding, IsTail
  <2> QED
    BY <1>5, <2>1
<1>8. k.state # "buffering_open" => Load(k) <= Load(f) + 1
  BY <1>1, SilentLoad
<1> HIDE DEF k, g, x, q, n, j
<1>9. CASE c = d[q + 1] /\ q + 1 = Len(d) /\ k = Enter(f, "output")
  <2>1. k.state = "output"
    <3>1. Enter(f, "output").state = "output"
      BY EnterKeeps
    <3> QED
      BY <1>9, <3>1
  <2>2. First(g, d, a, j)
    BY <1>6, <1>9
  <2>3. Closed(j) = Len(g) + 1
    BY <1>7, <1>9 DEF Closed, d
  <2>4. e \o SubSeq(g, Closed(j), Len(g)) = e
    <3>1. SubSeq(g, Len(g) + 1, Len(g)) = <<>>
      BY <1>5, SubSeqEmpty
    <3> QED
      BY <2>3, <3>1, ConcatEmptySeq
  <2>5. After(e, g, i, j)
    BY <1>3, <2>2, <2>4 DEF After, a, d
  <2>6. Follows(k, e, g)
    BY <1>7, <2>1, <2>5 DEF Follows
  <2> QED
    BY <1>1, <1>8, <2>1, <2>6, GoesSilently DEF k, g
<1>10. CASE /\ c = d[q + 1] /\ q + 1 < Len(d)
            /\ k = Hold(f, "buffering_close", x) /\ Starts(x, d)
  <2>1. k.state = "buffering_close" /\ k.held = x
    <3>1. x \in Seq(S) /\ Starts(x, CLOSE_TAG)
      BY <1>5, <1>10 DEF d
    <3>2. /\ Hold(f, "buffering_close", x).state = "buffering_close"
          /\ Hold(f, "buffering_close", x).held = x
      BY <3>1, HoldKeeps, Z3
    <3> QED
      BY <1>10, <3>2
  <2>2. Holding(g, d, a, x)
    BY <1>6, <1>10
  <2>3. Within(k, e, g, i)
    BY <1>3, <2>1, <2>2 DEF Within, a, d
  <2>4. Follows(k, e, g)
    BY <2>1, <2>3 DEF Follows
  <2> QED
    BY <1>1, <1>8, <2>1, <2>4, GoesSilently DEF k, g
<1>11. CASE c # d[q + 1] /\ k = Enter(f, "thinking")
  <2>1. k.state = "thinking"
    <3>1. Enter(f, "thinking").state = "thinking"
      BY EnterKeeps
    <3> QED
      BY <1>11, <3>1
  <2>2. Clear(g, d, a)
    BY <1>6, <1>11
  <2>3. Within(k, e, g, i)
    BY <1>3, <2>1, <2>2 DEF Within, a, d
  <2>4. Follows(k, e, g)
    BY <2>1, <2>3 DEF Follows
  <2> QED
    BY <1>1, <1>8, <2>1, <2>4, GoesSilently DEF k, g
<1> QED
  BY <1>1, <1>9, <1>10, <1>11

\* What stands behind a place grows by the symbol that follows.
LEMMA BackGrows ==
  ASSUME NEW S, NEW s \in Seq(S), NEW c \in S, NEW u \in 1 .. Len(s) + 1
  PROVE  /\ SubSeq(Append(s, c), u, Len(s) + 1)
              = Append(SubSeq(s, u, Len(s)), c)
         /\ SubSeq(s, u, Len(s)) \in Seq(S)
<1> DEFINE g == Append(s, c)
           n == Len(s)
<1>1. n \in Nat /\ u \in 1 .. n + 1
  BY LenProperties
<1>2. /\ g \in Seq(S) /\ Len(g) = n + 1 /\ g[n + 1] = c
      /\ \A k \in 1 .. n : g[k] = s[k]
  BY MoreText
<1> HIDE DEF g
<1> DEFINE v == n + 1
           x == SubSeq(g, u, v)
           r == SubSeq(s, u, n)
           m == n - u + 1
<1>3. /\ x \in Seq(S) /\ Len(x) = m + 1
      /\ \A k \in 1 .. m + 1 : x[k] = g[u + k - 1]
  <2>1. /\ u \in 1 .. Len(g) + 1 /\ v \in u - 1 .. Len(g)
        /\ v - u + 1 = m + 1
    BY <1>1, <1>2
  <2> HIDE DEF v, m
  <2>2. /\ SubSeq(g, u, v) \in Seq(S) /\ Len(SubSeq(g, u, v)) = v - u + 1
        /\ \A k \in 1 .. v - u + 1 : SubSeq(g, u, v)[k] = g[u + k - 1]
    BY <1>2, <2>1, SubSeqElements
  <2> QED
    BY <2>1, <2>2
<1>4. /\ r \in Seq(S) /\ Len(r) = m
      /\ \A k \in 1 .. m : r[k] = s[u + k - 1]
  <2>1. u \in 1 .. Len(s) + 1 /\ n \in u - 1 .. Len(s)
    BY <1>1
  <2> QED
    BY <2>1, SubSeqElements
<1> HIDE DEF n, x, r
<1>5. /\ Append(r, c) \in Seq(S) /\ Len(Append(r, c)) = m + 1
      /\ Append(r, c)[m + 1] = c
      /\ \A k \in 1 .. m : Append(r, c)[k] = r[k]
  BY <1>4, Appends, Z3
<1>6. ASSUME NEW k \in 1 .. m + 1
      PROVE  x[k] = Append(r, c)[k]
  <2>1. CASE k = m + 1
    <3>1. u + k - 1 = n + 1
      BY <1>1, <2>1
    <3> HIDE DEF m
    <3> QED
      BY <1>2, <1>3, <1>5, <2>1, <3>1
  <2>2. CASE k # m + 1
    <3>1. k \in 1 .. m /\ u + k - 1 \in 1 .. n
      BY <1>1, <2>2
    <3> HIDE DEF m
    <3> QED
      BY <1>2, <1>3, <1>4, <1>5, <3>1
  <2> QED
    BY <2>1, <2>2
<1>7. x = Append(r, c)
  <2> HIDE DEF m
  <2> QED
    BY <1>3, <1>5, <1>6, SameSymbols, Z3
<1> QED
  BY <1>4, <1>7 DEF x, r, v, g, n

\* A text that has closed the tag.
LEMMA OutputGoes ==
  ASSUME NEW S, NEW f, FilterOK(S, f), f.state = "output",
         NEW e \in Seq(S), NEW s \in Seq(S), NEW i \in Nat, NEW j \in Nat,
         After(e, s, i, j), NEW c \in S, Load(f) + 1 < OutputSize
  PROVE  Goes(S, f, Symbol(f, c), e, Append(s, c))
<1> DEFINE k == Symbol(f, c)
           g == Append(s, c)
           x == <<c>>
           a == Opened(i)
           u == Closed(j)
           p == SubSeq(s, 1, i - 1)
           r == SubSeq(s, u, Len(s))
<1>1. x \in Seq(S) /\ Len(x) = 1 /\ k = Emit(f, x)
  BY SymbolIs
<1>2. Len(f.out) \in Nat /\ Load(f) = Len(f.out) /\ FilterOK(S, k)
  BY FilterParts, LoadIs, SymbolKeeps
<1>3. Len(g) = Len(s) + 1 /\ Len(s) \in Nat
  BY MoreText
<1>4. /\ First(s, OPEN_TAG, 1, i) /\ First(s, CLOSE_TAG, a, j) /\ e = p \o r
  BY DEF After
<1>5. /\ First(g, OPEN_TAG, 1, i) /\ SubSeq(g, 1, i - 1) = p
      /\ 1 <= i /\ i - 1 <= Len(s) /\ a \in Nat /\ 1 <= a
  BY <1>4, OpenedStays
<1>6. First(g, CLOSE_TAG, a, j) /\ u \in 1 .. Len(s) + 1
  <2> DEFINE d == CLOSE_TAG
             z == Len(d)
  <2>1. d \in {OPEN_TAG, CLOSE_TAG} /\ First(s, d, a, j) /\ z \in Nat
    BY <1>4, FilterTags
  <2> HIDE DEF d, a
  <2>2. First(g, d, a, j) /\ a <= j /\ j + Len(d) - 1 <= Len(s)
    BY <1>5, <2>1, FirstStays, Z3
  <2>3. j + Len(d) \in 1 .. Len(s) + 1
    BY <1>3, <1>5, <2>1, <2>2
  <2> QED
    BY <2>2, <2>3 DEF Closed, d
<1>7. r \in Seq(S) /\ SubSeq(g, u, Len(s) + 1) = Append(r, c)
  <2> HIDE DEF u
  <2> QED
    BY <1>6, BackGrows
<1>8. p \in Seq(S)
  <2>1. 1 \in 1 .. Len(s) + 1 /\ i - 1 \in 1 - 1 .. Len(s)
    BY <1>3, <1>5
  <2> QED
    BY <2>1, SubSeqElements
<1>9. e \o x = p \o Append(r, c)
  <2> HIDE DEF p, r
  <2>1. Joins(p, r, e)
    BY <1>4 DEF Joins
  <2>2. Joins(p, Append(r, c), Append(e, c))
    BY <1>7, <1>8, <2>1, SymbolBehind
  <2>3. Append(e, c) = e \o <<c>>
    BY AppendIsConcat
  <2> QED
    BY <2>2, <2>3 DEF Joins
<1> HIDE DEF k, g, x, p, r, a, u
<1>10. Len(f.out) + Len(x) < OutputSize
  BY <1>1, <1>2
<1>11. k.state = "output" /\ k.out = f.out \o x
       /\ Len(k.out) = Len(f.out) + Len(x)
  BY <1>1, <1>10, Emits
<1>12. Follows(k, e \o x, g)
  <2>1. After(e \o x, g, i, j)
    BY <1>3, <1>5, <1>6, <1>7, <1>9 DEF After, a, u
  <2> QED
    BY <1>11, <2>1 DEF Follows
<1>13. Load(k) <= Load(f) + 1
  <2>1. Load(k) = Len(f.out) + 1
    BY <1>1, <1>2, <1>11, LoadIs
  <2> QED
    BY <1>2, <2>1
<1> QED
  BY <1>1, <1>11, <1>12, <1>13 DEF Goes, k, g

LEMMA SymbolGoes ==
  ASSUME NEW S, NEW f, FilterOK(S, f), NEW e \in Seq(S), NEW s \in Seq(S),
         Follows(f, e, s), NEW c \in S, Load(f) + 1 < OutputSize
  PROVE  Goes(S, f, Symbol(f, c), e, Append(s, c))
<1>1. CASE f.state = "passthrough"
  <2>1. Before(f, e, s)
    BY <1>1 DEF Follows
  <2> QED
    BY <1>1, <2>1, PassGoes
<1>2. CASE f.state = "buffering_open"
  <2>1. Before(f, e, s)
    BY <1>2 DEF Follows
  <2> QED
    BY <1>2, <2>1, OpenGoes
<1>3. CASE f.state = "thinking"
  <2>1. PICK i \in Nat : Within(f, e, s, i)
    BY <1>3 DEF Follows
  <2> QED
    BY <1>3, <2>1, ThinkGoes
<1>4. CASE f.state = "buffering_close"
  <2>1. PICK i \in Nat : Within(f, e, s, i)
    BY <1>4 DEF Follows
  <2> QED
    BY <1>4, <2>1, CloseGoes
<1>5. CASE f.state = "output"
  <2>1. \E i \in Nat : \E j \in Nat : After(e, s, i, j)
    BY <1>5 DEF Follows
  <2>2. PICK i \in Nat : \E j \in Nat : After(e, s, i, j)
    BY <2>1
  <2>3. PICK j \in Nat : After(e, s, i, j)
    BY <2>2
  <2> QED
    BY <1>5, <2>3, OutputGoes
<1> QED
  BY <1>1, <1>2, <1>3, <1>4, <1>5, FilterParts

\* A piece, symbol by symbol.
LEMMA FilteredGoes ==
  ASSUME NEW S, NEW f, FilterOK(S, f), NEW e \in Seq(S), NEW s \in Seq(S),
         Follows(f, e, s), NEW piece \in Seq(S),
         Len(piece) + Len(OPEN_TAG) <= OutputSize
  PROVE  Follows(Filtered(f, piece), e \o Filtered(f, piece).out, s \o piece)
<1> DEFINE P(n) == SubSeq(piece, 1, n)
           X(n) == s \o P(n)
           L == Len(piece)
           D == Len(OPEN_TAG)
<1>1. L \in Nat /\ OutputSize \in Nat /\ D \in Nat /\ 2 <= D
      /\ L + D <= OutputSize
  BY LenProperties, SizesAssumption, FilterTags
<1> HIDE DEF D
<1>2. ASSUME NEW n \in 0 .. L
      PROVE  P(n) \in Seq(S) /\ X(n) \in Seq(S)
  <2>1. 1 \in 1 .. Len(piece) + 1 /\ n \in 1 - 1 .. Len(piece)
    BY <1>1
  <2>2. P(n) \in Seq(S)
    BY <2>1, SubSeqElements
  <2> HIDE DEF P
  <2> QED
    BY <2>2, ConcatProperties
<1>3. ASSUME NEW n \in Nat, n + 1 <= L
      PROVE  X(n + 1) = Append(X(n), piece[n + 1])
  BY <1>3, PrefixGrows
<1>4. X(0) = s /\ X(L) = s \o piece
  <2>1. P(0) = <<>> /\ P(L) = piece
    BY SubSeqEmpty, SubSeqFull
  <2> HIDE DEF P
  <2> QED
    BY <2>1, ConcatEmptySeq
<1>5. PICK h : /\ h[0] = Cleared(f)
               /\ \A n \in 1 .. L : h[n] = Symbol(h[n - 1], piece[n])
               /\ Filtered(f, piece) = h[L]
  BY <1>1, FilteredIs
<1> HIDE DEF X, P
<1> DEFINE OK(n) == /\ FilterOK(S, h[n]) /\ Load(h[n]) < n + D
                    /\ Follows(h[n], e \o h[n].out, X(n))
           T == {n \in Nat : n <= L => OK(n)}
<1>6. 0 \in T
  <2> DEFINE k == Cleared(f)
  <2>1. /\ FilterOK(S, k) /\ k.out = <<>> /\ k.state = f.state
        /\ k.held = f.held
    BY ClearedKeeps
  <2> HIDE DEF k
  <2>2. Follows(k, e, s)
    BY <2>1 DEF Follows, Before, Within
  <2>3. e \o k.out = e
    BY <2>1, ConcatEmptySeq
  <2>4. Load(k) < 0 + D
    <3> DEFINE q == Len(f.held)
    <3>1. q \in Nat /\ Len(k.out) = 0
      BY <2>1, FilterParts
    <3>2. f.state = "buffering_open" => q < D
      BY DEF FilterOK, Starts, D
    <3>3. /\ f.state # "buffering_open" => Load(k) = 0
          /\ f.state = "buffering_open" => Load(k) = 0 + q
      BY <2>1, <3>1, LoadIs
    <3> HIDE DEF q
    <3> QED
      BY <1>1, <3>1, <3>2, <3>3
  <2> QED
    BY <1>4, <1>5, <2>1, <2>2, <2>3, <2>4 DEF k
<1>7. ASSUME NEW n \in Nat, n \in T
      PROVE  n + 1 \in T
  <2>1. SUFFICES ASSUME n + 1 <= L
                 PROVE  OK(n + 1)
    OBVIOUS
  <2>2. /\ OK(n) /\ n \in 0 .. L /\ n + 1 \in 0 .. L /\ n + 1 \in 1 .. L
        /\ n + 1 - 1 = n
    BY <1>1, <1>7, <2>1
  <2> DEFINE a == h[n]
             c == piece[n + 1]
             k == h[n + 1]
             b == e \o a.out
  <2>3. k = Symbol(a, c) /\ c \in S
    BY <1>5, <2>2, ElementOfSeq
  <2>4. FilterOK(S, a) /\ a.out \in Seq(S) /\ b \in Seq(S)
    <3>1. FilterOK(S, a) /\ a.out \in Seq(S)
      BY <2>2, FilterParts
    <3> HIDE DEF a
    <3> QED
      BY <3>1, ConcatProperties
  <2>5. Load(a) + 1 < OutputSize /\ Load(a) \in Nat
    <3>1. Load(a) \in Nat
      <4> HIDE DEF a
      <4> QED
        BY <2>4, LoadIs
    <3>2. Load(a) < n + D
      BY <2>2
    <3> DEFINE y == Load(a)
    <3> HIDE DEF y, L
    <3>3. y \in Nat /\ y < n + D => y + 1 < OutputSize
      BY <1>1, <2>1
    <3> QED
      BY <3>1, <3>2, <3>3 DEF y
  <2>6. X(n + 1) = Append(X(n), c) /\ X(n) \in Seq(S)
    BY <1>2, <1>3, <2>1, <2>2
  <2>7. Follows(a, b, X(n))
    BY <2>2
  <2>8. Goes(S, a, k, b, X(n + 1))
    <3> DEFINE x == X(n)
    <3>1. x \in Seq(S) /\ Follows(a, b, x) /\ c \in S
      BY <2>3, <2>6, <2>7
    <3> HIDE DEF a, b, c, x
    <3>2. Goes(S, a, Symbol(a, c), b, Append(x, c))
      BY <2>4, <2>5, <3>1, SymbolGoes
    <3> QED
      BY <2>3, <2>6, <3>2 DEF x
  <2>9. PICK x \in Seq(S) : /\ k.out = a.out \o x
                            /\ Follows(k, b \o x, X(n + 1))
                            /\ Load(k) <= Load(a) + 1
    BY <2>8 DEF Goes
  <2>10. FilterOK(S, k)
    <3> HIDE DEF a, c
    <3> QED
      BY <2>3, <2>4, SymbolKeeps
  <2>11. b \o x = e \o k.out
    <3> DEFINE z == a.out
    <3>1. z \in Seq(S)
      BY <2>4
    <3> HIDE DEF z
    <3>2. (e \o z) \o x = e \o (z \o x)
      BY <3>1, ConcatAssociative
    <3> QED
      BY <2>9, <3>2 DEF z
  <2>12. Load(k) < n + 1 + D
    <3>1. Load(k) \in Nat
      <4> HIDE DEF k
      <4> QED
        BY <2>10, LoadIs
    <3>2. Load(a) < n + D /\ Load(k) <= Load(a) + 1
      BY <2>2, <2>9
    <3> DEFINE u == Load(a)
               v == Load(k)
    <3>3. u \in Nat /\ v \in Nat /\ u < n + D /\ v <= u + 1
      BY <2>5, <3>1, <3>2
    <3> HIDE DEF u, v
    <3>4. v < n + 1 + D
      BY <1>1, <3>3
    <3> QED
      BY <3>4 DEF v
  <2> QED
    BY <2>9, <2>10, <2>11, <2>12
<1>8. Nat \subseteq T
  <2> HIDE DEF T
  <2> QED
    BY <1>6, <1>7, Induction
<1>9. OK(L)
  BY <1>1, <1>8
<1> QED
  BY <1>4, <1>5, <1>9

\* What the reader has been shown, and what the filter holds back, is what it
\* knows of the text said so far.
FollowOK == mode = "reasoning" => Follows(filter, shown, said.text)

LEMMA FollowStarts == Init => FollowOK
<1> SUFFICES ASSUME Init PROVE FollowOK
  OBVIOUS
<1>1. /\ said.text = <<>> /\ shown = <<>> /\ filter.state = "passthrough"
  BY DEF Init, Passing
<1>2. Clear(<<>>, OPEN_TAG, 1)
  <2> DEFINE s == <<>>
             S == {}
  <2>1. s \in Seq(S) /\ Len(s) + 1 = 1
    BY EmptySeq
  <2> HIDE DEF s, S
  <2>2. Clear(s, OPEN_TAG, Len(s) + 1)
    BY <2>1, ClearStarts
  <2> QED
    BY <2>1, <2>2 DEF s
<1> QED
  BY <1>1, <1>2 DEF FollowOK, Follows, Before

LEMMA FollowStays ==
  ScannersOK /\ FollowOK /\ [Next]_vars => FollowOK'
<1> SUFFICES ASSUME ScannersOK, FollowOK, [Next]_vars PROVE FollowOK'
  OBVIOUS
<1>1. ASSUME NEW piece \in Vocabulary, ReasoningPiece(piece)
      PROVE  FollowOK'
  <2> DEFINE s == said.text
  <2>1. /\ said'.text = s \o piece /\ mode = "reasoning"
        /\ filter' = Filtered(filter, piece)
        /\ shown' = shown \o Filtered(filter, piece).out
    BY <1>1, SaidIs DEF ReasoningPiece
  <2>2. /\ piece \in Seq(Symbols) /\ s \in Seq(Symbols)
        /\ shown \in Seq(Symbols) /\ FilterOK(Symbols, filter)
    BY PieceIsText DEF ScannersOK, Texts
  <2>3. Len(piece) + Len(OPEN_TAG) <= OutputSize
    BY VocabularyAssumption
  <2>4. Follows(filter, shown, s)
    BY <2>1 DEF FollowOK
  <2> HIDE DEF s
  <2>5. Follows(filter', shown', said'.text)
    BY <2>1, <2>2, <2>3, <2>4, FilteredGoes
  <2> QED
    BY <2>5 DEF FollowOK
<1>2. ASSUME NEW piece \in Vocabulary, AgentPiece(piece)
      PROVE  FollowOK'
  <2>1. mode' = "agent"
    BY <1>2 DEF AgentPiece, Generate
  <2> QED
    BY <2>1 DEF FollowOK
<1>3. CASE Answered
  BY <1>3 DEF Answered, FollowOK
<1>4. CASE UNCHANGED textVars
  BY <1>4 DEF textVars, FollowOK
<1> QED
  BY <1>1, <1>2, <1>3, <1>4
     DEF Next, Skip, RunEmpty, RunCommand, DuringCall, vars

LEMMA FollowInvariant == Spec => [](ScannersOK /\ FollowOK)
<1>1. Init => ScannersOK /\ FollowOK
  BY ScannersStart, FollowStarts
<1>2. ScannersOK /\ FollowOK /\ [Next]_vars => (ScannersOK /\ FollowOK)'
  BY ScannersStay, FollowStays
<1> QED
  BY <1>1, <1>2, PTL DEF Spec

\* Of a text where the filter's tags stand, the reader is to see this.
LEMMA OutsideIs ==
  ASSUME NEW S, NEW s \in Seq(S)
  PROVE  /\ TagsOf(s, OPEN_TAG, 1) = {} => Outside(s) = s
         /\ \A i \in Nat :
              First(s, OPEN_TAG, 1, i) =>
                /\ TagsOf(s, CLOSE_TAG, Opened(i)) = {} =>
                     Outside(s) = SubSeq(s, 1, i - 1) \o <<>>
                /\ \A j \in Nat :
                     First(s, CLOSE_TAG, Opened(i), j) =>
                       Outside(s) = SubSeq(s, 1, i - 1)
                                      \o SubSeq(s, Closed(j), Len(s))
<1> DEFINE opens == TagsOf(s, OPEN_TAG, 1)
           from == FirstOf(opens) + Len(OPEN_TAG)
           closes == TagsOf(s, CLOSE_TAG, from)
<1>1. Outside(s) =
        IF opens = {} THEN s
        ELSE SubSeq(s, 1, FirstOf(opens) - 1)
             \o (IF closes = {} THEN <<>>
                 ELSE SubSeq(s, FirstOf(closes) + Len(CLOSE_TAG), Len(s)))
  BY DEF Outside
<1>2. opens \subseteq Nat
  <2> DEFINE d == OPEN_TAG
  <2>1. d \in Seq(STRING) /\ s \in Seq(S) /\ 1 \in Nat /\ 1 <= 1
    BY FilterTags
  <2> HIDE DEF d
  <2>2. TagsOf(s, d, 1) \subseteq Nat
    BY <2>1, TagsAre, Z3
  <2> QED
    BY <2>2 DEF d
<1>3. ASSUME NEW i \in Nat, First(s, OPEN_TAG, 1, i)
      PROVE  /\ FirstOf(opens) = i /\ opens # {} /\ from = Opened(i)
             /\ TagsOf(s, CLOSE_TAG, Opened(i)) \subseteq Nat
  <2>1. i \in opens /\ \A k \in opens : i <= k
    BY <1>3 DEF First
  <2>2. FirstOf(opens) = i
    <3> HIDE DEF opens
    <3> QED
      BY <1>2, <2>1, LeastIsFirst
  <2>3. TagsOf(s, CLOSE_TAG, Opened(i)) \subseteq Nat
    <3> DEFINE d == CLOSE_TAG
               a == Opened(i)
    <3>1. d \in Seq(STRING) /\ s \in Seq(S) /\ a \in Nat /\ 1 <= a
      <4>1. Len(OPEN_TAG) \in Nat /\ 2 <= Len(OPEN_TAG)
        BY FilterTags
      <4> QED
        BY <4>1, FilterTags DEF Opened
    <3> HIDE DEF d, a
    <3>2. TagsOf(s, d, a) \subseteq Nat
      BY <3>1, TagsAre, Z3
    <3> QED
      BY <3>2 DEF d, a
  <2> QED
    BY <2>1, <2>2, <2>3 DEF Opened
<1> HIDE DEF opens, from
<1>4. ASSUME NEW i \in Nat, First(s, OPEN_TAG, 1, i),
             TagsOf(s, CLOSE_TAG, Opened(i)) = {}
      PROVE  Outside(s) = SubSeq(s, 1, i - 1) \o <<>>
  <2>1. closes = {}
    BY <1>3, <1>4
  <2> HIDE DEF closes
  <2> QED
    BY <1>1, <1>3, <1>4, <2>1
<1>5. ASSUME NEW i \in Nat, First(s, OPEN_TAG, 1, i),
             NEW j \in Nat, First(s, CLOSE_TAG, Opened(i), j)
      PROVE  Outside(s) = SubSeq(s, 1, i - 1) \o SubSeq(s, Closed(j), Len(s))
  <2>1. /\ closes = TagsOf(s, CLOSE_TAG, Opened(i)) /\ closes \subseteq Nat
        /\ j \in closes /\ \A k \in closes : j <= k
    BY <1>3, <1>5 DEF First
  <2> HIDE DEF closes
  <2>2. FirstOf(closes) = j
    BY <2>1, LeastIsFirst
  <2> QED
    BY <1>1, <1>3, <1>5, <2>1, <2>2 DEF Closed
<1>6. TagsOf(s, OPEN_TAG, 1) = {} => Outside(s) = s
  BY <1>1 DEF opens
<1> QED
  BY <1>4, <1>5, <1>6

\* What is known of a text decides what its reader is to see of it.
LEMMA FollowsOutside ==
  ASSUME NEW S, NEW f, FilterOK(S, f), NEW e \in Seq(S), NEW s \in Seq(S),
         Follows(f, e, s)
  PROVE  e \o (IF f.state = "buffering_open" THEN f.held ELSE <<>>)
           = Outside(s)
<1>1. /\ TagsOf(s, OPEN_TAG, 1) = {} => Outside(s) = s
      /\ \A i \in Nat :
           First(s, OPEN_TAG, 1, i) =>
             /\ TagsOf(s, CLOSE_TAG, Opened(i)) = {} =>
                  Outside(s) = SubSeq(s, 1, i - 1) \o <<>>
             /\ \A j \in Nat :
                  First(s, CLOSE_TAG, Opened(i), j) =>
                    Outside(s) = SubSeq(s, 1, i - 1)
                                   \o SubSeq(s, Closed(j), Len(s))
  BY OutsideIs
<1>2. e \o <<>> = e
  BY ConcatEmptySeq
<1>3. CASE f.state = "passthrough"
  BY <1>1, <1>2, <1>3 DEF Follows, Before, Clear
<1>4. CASE f.state = "buffering_open"
  BY <1>1, <1>4 DEF Follows, Before, Holding, Joins
<1>5. CASE f.state \in {"thinking", "buffering_close"}
  <2>1. PICK i \in Nat : Within(f, e, s, i)
    BY <1>5 DEF Follows
  <2>2. /\ First(s, OPEN_TAG, 1, i) /\ e = SubSeq(s, 1, i - 1)
        /\ TagsOf(s, CLOSE_TAG, Opened(i)) = {}
    BY <1>5, <2>1 DEF Within, Clear, Holding
  <2>3. Outside(s) = e \o <<>>
    BY <1>1, <2>2
  <2> QED
    BY <1>5, <2>3
<1>6. CASE f.state = "output"
  <2>1. \E i \in Nat : \E j \in Nat : After(e, s, i, j)
    BY <1>6 DEF Follows
  <2>2. PICK i \in Nat : \E j \in Nat : After(e, s, i, j)
    BY <2>1
  <2>3. PICK j \in Nat : After(e, s, i, j)
    BY <2>2
  <2>4. Outside(s) = e
    BY <1>1, <2>3 DEF After
  <2> QED
    BY <1>2, <1>6, <2>4
<1> QED
  BY <1>3, <1>4, <1>5, <1>6, FilterParts

\* Of every text, whatever the two tags that begin with a "<" and wherever
\* tokens cut them, the reader sees what is outside the first thought the
\* filter finds, all of it and nothing else (thought_filter_process()).
THEOREM ShownIsOutsideAlways == Spec => []ShownIsOutside
<1>1. ASSUME ScannersOK, FollowOK, mode = "reasoning"
      PROVE  shown \o Undecided = Outside(said.text)
  <2> DEFINE s == said.text
  <2>1. /\ s \in Seq(Symbols) /\ shown \in Seq(Symbols)
        /\ FilterOK(Symbols, filter) /\ Follows(filter, shown, s)
    BY <1>1 DEF ScannersOK, Texts, FollowOK
  <2> HIDE DEF s
  <2>2. shown \o (IF filter.state = "buffering_open" THEN filter.held
                  ELSE <<>>) = Outside(s)
    BY <2>1, FollowsOutside
  <2> QED
    BY <2>2 DEF Undecided, s
<1>2. ScannersOK /\ FollowOK => ShownIsOutside
  BY <1>1 DEF ShownIsOutside
<1> QED
  BY <1>2, FollowInvariant, PTL
=============================================================================
