----------------------------- MODULE ByteOutput -----------------------------
(***************************************************************************)
(* The text operations of IByteOutput (src/src/ESPressio_ByteStream.hpp):  *)
(* WriteByte(), WriteText() and WriteLine() are made of calls of the       *)
(* platform's Write(), which may fail, or succeed with fewer bytes than    *)
(* were asked.  WriteLine() is two of them, and nothing keeps the writes   *)
(* of another thread from coming between.                                  *)
(*                                                                         *)
(* A request is the sequence of pieces that it writes: "byte", "text" and  *)
(* "end", the line terminator.  Texts are not empty.  Of each Write() the  *)
(* output shows whether all of the piece arrived or only some of it.       *)
(***************************************************************************)
EXTENDS Naturals, Sequences

CONSTANTS
  Writers,    \* threads that write to one output
  MaxCalls    \* bound on how many calls are made

ASSUME OutputAssumption == MaxCalls \in Nat

VARIABLES
  serialised,  \* callers take turns, under a lock of theirs; chosen at the
               \* start and kept
  calls,       \* how many calls were made; each has its number
  doing,       \* the call that each writer is in
  output,      \* what arrived
  returned     \* the calls that returned, with their results (history)

outputVars == <<serialised, calls, doing, output, returned>>

Requests == {<<"byte">>, <<"text">>, <<"text", "end">>, <<"end">>}

\* The truth value of a PlatformResult.
Succeeded(status) == status = "Success"

\* Call number n at its beginning; number 0 is no call.
Begun(n, request) ==
  [number |-> n, request |-> request, next |-> 1, shortened |-> FALSE]
Idle == Begun(0, <<>>)

OutputInit ==
  /\ serialised \in BOOLEAN
  /\ calls = 0
  /\ doing = [w \in Writers |-> Idle]
  /\ output = <<>>
  /\ returned = {}

Busy == {w \in Writers : doing[w] # Idle}

MayCall(w) ==
  /\ doing[w] = Idle /\ calls < MaxCalls
  /\ serialised => Busy = {}
  /\ calls' = calls + 1
  /\ UNCHANGED serialised

\* WriteByte(), WriteText(text), WriteLine(text), and WriteLine() without text.
Call(w, request) ==
  /\ MayCall(w)
  /\ doing' = [doing EXCEPT ![w] = Begun(calls', request)]
  /\ UNCHANGED <<output, returned>>

Report(c, status) ==
  returned' = returned \cup
    {[number |-> c.number, request |-> c.request, shortened |-> c.shortened,
      status |-> status]}

\* WriteText(nullptr).
CallWithNull(w) ==
  /\ MayCall(w)
  /\ Report(Begun(calls', <<"text">>), "InvalidArgument")
  /\ UNCHANGED <<doing, output>>

-----------------------------------------------------------------------------
(* One Write() of the platform and what the code does with its result.     *)
(* The operators named ...Wrong are wrong variants, which the checks of    *)
(* the properties use.                                                     *)

\* Whether the call ends with the piece just written; wrong: whatever became
\* of the text, the terminator follows.
EndsWrong(c, status) == c.next = Len(c.request)
Ends(c, status) == c.next = Len(c.request) \/ ~Succeeded(status)

\* What the call returns, of the status of its last Write(); wrong: a line
\* whose text was written counts as written.
AnswerWrong(c, status) == IF c.next = 2 THEN "Success" ELSE status
Answer(c, status) == status

Arrive(c, amount) ==
  output' = IF amount = "none" THEN output
            ELSE Append(output, [number |-> c.number, amount |-> amount,
                                 piece |-> c.request[c.next]])

\* What Write() may report, and what may have arrived: the interface ties the
\* two together for no platform.
Outcomes(piece) ==
  {"Success", "HardwareFailure"} \X
    (IF piece = "byte" THEN {"all", "none"} ELSE {"all", "some", "none"})

\* bytesWritten is dropped: c.shortened is the model's knowledge, not the
\* code's.
Noted(c, status, amount) ==
  [c EXCEPT !.shortened = @ \/ (Succeeded(status) /\ amount # "all")]

Advanced(c) == [c EXCEPT !.next = @ + 1]

Write(w, status, amount) ==
  LET c == Noted(doing[w], status, amount)
  IN  /\ doing[w] # Idle
      /\ <<status, amount>> \in Outcomes(c.request[c.next])
      /\ Arrive(c, amount)
      /\ IF Ends(c, status)
         THEN /\ doing' = [doing EXCEPT ![w] = Idle]
              /\ Report(c, Answer(c, status))
         ELSE /\ doing' = [doing EXCEPT ![w] = Advanced(c)]
              /\ UNCHANGED returned
      /\ UNCHANGED <<serialised, calls>>

WriterStep(w) ==
  \/ \E request \in Requests : Call(w, request)
  \/ CallWithNull(w)
  \/ \E status \in {"Success", "HardwareFailure"},
       amount \in {"all", "some", "none"} : Write(w, status, amount)

OutputNext == \E w \in Writers : WriterStep(w)

OutputSpec == OutputInit /\ [][OutputNext]_outputVars

-----------------------------------------------------------------------------
\* Where an output has something of call n.
Places(out, n) == {i \in DOMAIN out : out[i].number = n}

\* The first n pieces of call r arrived, whole and in order, and nothing else
\* of it.
Written(out, r, n) ==
  \E place \in [1..n -> DOMAIN out] :
    /\ Places(out, r.number) = {place[k] : k \in 1..n}
    /\ \A k \in 1..n :
         /\ out[place[k]] =
              [number |-> r.number, amount |-> "all", piece |-> r.request[k]]
         /\ \A j \in 1..k - 1 : place[j] < place[k]

Complete(r) == Written(output, r, Len(r.request))

\* A call that returns success has written everything it was given, unless
\* the platform shortened a write (ESPressio_ByteStream.hpp:72-75): the status
\* of the text is not lost behind that of the terminator, nor the other way.
SuccessMeansWritten ==
  \A r \in returned : Succeeded(r.status) /\ ~r.shortened => Complete(r)


\* A terminator never ends half a line: whatever fails, the one of a
\* WriteLine() with text comes right after its whole text, provided that
\* callers take turns and that the platform shortens no write
\* (ESPressio_ByteStream.hpp:73).
TerminatorEndsItsLine ==
  \A i \in DOMAIN output, c \in returned \cup {doing[w] : w \in Writers} :
    /\ serialised /\ c.number = output[i].number /\ ~c.shortened
    /\ output[i].piece = "end" /\ c.request = <<"text", "end">>
    => i > 1 /\ output[i - 1] =
         [number |-> c.number, amount |-> "all", piece |-> "text"]
=============================================================================
