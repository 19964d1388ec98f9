---------------------------- MODULE ServiceProofs ----------------------------
(***************************************************************************)
(* Proofs about ByteOutput, for any writers and any number of calls, and   *)
(* about CreatedObjects, for any threads, platforms, numbers and           *)
(* variables.  The two have no name in common, and no theorem is about     *)
(* both.                                                                   *)
(*                                                                         *)
(* For a byte output the argument is what a call in progress has written.  *)
(* Its status stands for the last Write() only; those before it succeeded, *)
(* or the call would have ended.                                           *)
(*                                                                         *)
(* For what a unique_ptr owns the argument is that the handles are the     *)
(* live objects.  For contexts a handle does not name its maker, and the   *)
(* argument needs more: as long as nothing was replaced, the platform in   *)
(* the slot, those that calls have loaded and the makers of the live       *)
(* contexts are one and the same, also when the slot is empty meanwhile.   *)
(***************************************************************************)
EXTENDS CreatedObjects, ByteOutput, SequenceTheorems, TLAPS

(* ByteOutput.                                                             *)

\* What the output has of one Write(), a call in progress, and one that
\* returned.
Pieces == {"byte", "text", "end"}
Entries == [number : Nat, amount : {"all", "some"}, piece : Pieces]
Progress == [number : Nat, request : Requests \cup {<<>>}, next : 1..2,
             shortened : BOOLEAN]
Results == [number : Nat, request : Requests, shortened : BOOLEAN,
            status : {"Success", "HardwareFailure", "InvalidArgument"}]

\* The types.  A call in progress has a piece left to write.
OutputTyped ==
  /\ serialised \in BOOLEAN
  /\ calls \in Nat
  /\ doing \in [Writers -> Progress]
  /\ output \in Seq(Entries)
  /\ returned \subseteq Results
  /\ \A w \in Busy :
       doing[w].number # 0 /\ doing[w].next \in 1..Len(doing[w].request)

\* Every call has a number of its own, which the later ones are above.
NumberInv ==
  /\ \A i \in DOMAIN output : output[i].number \in 1..calls
  /\ \A r \in returned : r.number \in 1..calls
  /\ \A w \in Busy : doing[w].number \in 1..calls
  /\ \A w \in Busy, r \in returned : doing[w].number # r.number
  /\ \A u, w \in Busy : u # w => doing[u].number # doing[w].number

\* What a call in progress has written, unless a write was shortened.
PrefixInv ==
  \A w \in Busy :
    ~doing[w].shortened => Written(output, doing[w], doing[w].next - 1)

\* Callers that take turns find what they wrote last at the end of the output.
TurnInv ==
  serialised =>
    /\ \A u, w \in Busy : u = w
    /\ \A w \in Busy :
         doing[w].next = 2 /\ ~doing[w].shortened =>
           /\ output # <<>>
           /\ output[Len(output)] =
                [number |-> doing[w].number, amount |-> "all",
                 piece |-> doing[w].request[1]]

BInv ==
  /\ OutputTyped /\ NumberInv /\ PrefixInv /\ TurnInv
  /\ SuccessMeansWritten /\ TerminatorEndsItsLine

-----------------------------------------------------------------------------
(* What a call has written.                                                *)

LEMMA NothingWritten ==
  ASSUME NEW out \in Seq(Entries), NEW r, Places(out, r.number) = {}
  PROVE  Written(out, r, 0)
<1> DEFINE place == [k \in 1..0 |-> 1]
<1>1. 1..0 = {}
  OBVIOUS
<1>2. place \in [1..0 -> DOMAIN out] /\ {place[k] : k \in 1..0} = {}
  BY <1>1
<1> QED BY <1>1, <1>2 DEF Written

\* It depends on the number and the pieces of the call only.
LEMMA SameWritten ==
  ASSUME NEW out, NEW r, NEW n, Written(out, r, n),
         NEW s, s.number = r.number, s.request = r.request
  PROVE  Written(out, s, n)
BY DEF Written

\* What others write does not change it.
LEMMA StillWritten ==
  ASSUME NEW out \in Seq(Entries), NEW x \in Entries, NEW r, NEW n \in Nat,
         Written(out, r, n), x.number # r.number
  PROVE  Written(Append(out, x), r, n)
<1> DEFINE more == Append(out, x)
<1>1. PICK place \in [1..n -> DOMAIN out] :
        /\ Places(out, r.number) = {place[k] : k \in 1..n}
        /\ \A k \in 1..n :
             /\ out[place[k]] =
                  [number |-> r.number, amount |-> "all",
                   piece |-> r.request[k]]
             /\ \A j \in 1..k - 1 : place[j] < place[k]
  BY DEF Written
<1>2. /\ DOMAIN out = 1..Len(out) /\ Len(out) \in Nat
      /\ DOMAIN more = 1..Len(out) + 1
      /\ \A i \in DOMAIN out : more[i] = out[i]
      /\ more[Len(out) + 1] = x
  <2>1. Len(more) = Len(out) + 1 /\ more \in Seq(Entries)
        /\ (\A i \in 1..Len(out) : more[i] = out[i]) /\ more[Len(out) + 1] = x
    BY AppendProperties
  <2> QED BY <2>1, LenProperties
<1> HIDE DEF more
<1>3. Places(more, r.number) = Places(out, r.number)
  BY <1>2 DEF Places
<1>4. place \in [1..n -> DOMAIN more]
  BY <1>2
<1>5. ASSUME NEW k \in 1..n
      PROVE  /\ more[place[k]] =
                  [number |-> r.number, amount |-> "all",
                   piece |-> r.request[k]]
             /\ \A j \in 1..k - 1 : place[j] < place[k]
  BY <1>1, <1>2
<1>6. Written(more, r, n)
  BY <1>1, <1>3, <1>4, <1>5 DEF Written
<1> QED BY <1>6 DEF more

\* The next piece.
LEMMA NextWritten ==
  ASSUME NEW out \in Seq(Entries), NEW r, NEW n \in Nat, Written(out, r, n),
         NEW x \in Entries,
         x = [number |-> r.number, amount |-> "all", piece |-> r.request[n + 1]]
  PROVE  Written(Append(out, x), r, n + 1)
<1> DEFINE more == Append(out, x)
<1>1. PICK place \in [1..n -> DOMAIN out] :
        /\ Places(out, r.number) = {place[k] : k \in 1..n}
        /\ \A k \in 1..n :
             /\ out[place[k]] =
                  [number |-> r.number, amount |-> "all",
                   piece |-> r.request[k]]
             /\ \A j \in 1..k - 1 : place[j] < place[k]
  BY DEF Written
<1>2. /\ DOMAIN out = 1..Len(out) /\ Len(out) \in Nat
      /\ DOMAIN more = 1..Len(out) + 1
      /\ \A i \in DOMAIN out : more[i] = out[i]
      /\ more[Len(out) + 1] = x
  <2>1. Len(more) = Len(out) + 1 /\ more \in Seq(Entries)
        /\ (\A i \in 1..Len(out) : more[i] = out[i]) /\ more[Len(out) + 1] = x
    BY AppendProperties
  <2> QED BY <2>1, LenProperties
<1>3. x.number = r.number
  OBVIOUS
<1> HIDE DEF more
<1> DEFINE further ==
      [k \in 1..n + 1 |-> IF k = n + 1 THEN Len(out) + 1 ELSE place[k]]
<1>4. \A k \in 1..n + 1 : k \in 1..n \/ k = n + 1
  OBVIOUS
<1>5. /\ further[n + 1] = Len(out) + 1
      /\ \A k \in 1..n : further[k] = place[k] /\ place[k] \in 1..Len(out)
  BY <1>1, <1>2
<1>6. further \in [1..n + 1 -> DOMAIN more]
  BY <1>2, <1>4, <1>5
<1> HIDE DEF further
<1>7. Places(more, r.number) = Places(out, r.number) \cup {Len(out) + 1}
  BY <1>2, <1>3 DEF Places
<1>8. {further[k] : k \in 1..n + 1} =
        {place[k] : k \in 1..n} \cup {Len(out) + 1}
  BY <1>4, <1>5
<1>9. ASSUME NEW k \in 1..n + 1
      PROVE  /\ more[further[k]] =
                  [number |-> r.number, amount |-> "all",
                   piece |-> r.request[k]]
             /\ \A j \in 1..k - 1 : further[j] < further[k]
  <2>1. CASE k = n + 1
    BY <1>2, <1>5, <2>1
  <2>2. CASE k \in 1..n
    BY <1>1, <1>2, <1>5, <2>2
  <2> QED BY <1>4, <2>1, <2>2
<1>10. Written(more, r, n + 1)
  BY <1>1, <1>6, <1>7, <1>8, <1>9 DEF Written
<1> QED BY <1>10 DEF more

-----------------------------------------------------------------------------
(* The steps.                                                              *)

LEMMA InitOutput == OutputInit => BInv
<1> SUFFICES ASSUME OutputInit PROVE BInv
  OBVIOUS
<1> USE DEF OutputInit
<1>1. \A w \in Writers : doing[w] = Idle
  OBVIOUS
<1>2. Busy = {} /\ output = <<>> /\ DOMAIN output = {} /\ returned = {}
  BY <1>1 DEF Busy
<1>3. Idle \in Progress
  BY DEF Idle, Begun, Progress
<1>4. OutputTyped
  BY <1>2, <1>3 DEF OutputTyped
<1> QED BY <1>2, <1>4
    DEF BInv, NumberInv, PrefixInv, TurnInv, SuccessMeansWritten,
        TerminatorEndsItsLine

\* What a call writes before its next piece, and what the type of that is.
LEMMA PieceType ==
  ASSUME OutputTyped, NEW w \in Busy
  PROVE  /\ doing[w] \in Progress /\ doing[w].request \in Requests
         /\ Len(doing[w].request) \in 1..2
         /\ doing[w].next \in 1..Len(doing[w].request)
         /\ doing[w].request[doing[w].next] \in Pieces
<1>1. w \in Writers /\ doing[w] \in Progress
        /\ doing[w].next \in 1..Len(doing[w].request)
  BY DEF OutputTyped, Busy
<1>2. doing[w].request \in Requests \cup {<<>>}
  BY <1>1 DEF Progress
<1>3. doing[w].request \in Requests
  BY <1>1, <1>2
<1>4. ASSUME NEW request \in Requests
      PROVE  /\ Len(request) \in 1..2
             /\ \A n \in 1..Len(request) : request[n] \in Pieces
  BY DEF Requests, Pieces
<1> QED BY <1>1, <1>3, <1>4

\* A new call.
LEMMA BeginStep ==
  ASSUME BInv, NEW w \in Writers, NEW request \in Requests, Call(w, request)
  PROVE  BInv'
<1> DEFINE n == calls + 1
           c == [number |-> n, request |-> request,
                 next |-> 1, shortened |-> FALSE]
<1>1. /\ doing[w] = Idle /\ calls' = n
      /\ UNCHANGED <<serialised, output, returned>>
      /\ serialised => Busy = {}
      /\ calls \in Nat /\ n \in Nat /\ n > calls
  BY DEF Call, MayCall, BInv, OutputTyped
<1>2. doing' = [doing EXCEPT ![w] = c]
  BY <1>1 DEF Call, Begun
<1>3. Len(request) \in 1..2
  BY DEF Requests
<1>4. /\ c \in Progress /\ c.number = n /\ c.request = request
      /\ c.next = 1 /\ c.shortened = FALSE /\ c # Idle
  BY <1>1 DEF Progress, Idle, Begun
<1> HIDE DEF c
<1>5. /\ doing'[w] = c
      /\ \A u \in Writers \ {w} : doing'[u] = doing[u]
      /\ doing' \in [Writers -> Progress]
  BY <1>2, <1>4 DEF BInv, OutputTyped
<1>6. Busy' = Busy \cup {w} /\ w \notin Busy
  BY <1>1, <1>4, <1>5 DEF Busy
<1>7. \A u \in Busy : u \in Writers /\ u # w /\ doing'[u] = doing[u]
  BY <1>5, <1>6 DEF Busy
<1>8. OutputTyped'
  <2>1. \A u \in Busy' :
          doing'[u].number # 0 /\ doing'[u].next \in 1..Len(doing'[u].request)
    <3>1. TAKE u \in Busy'
    <3>2. CASE u = w
      <4>1. c.number # 0 /\ c.next \in 1..Len(c.request)
        <5>1. n # 0
          BY <1>1
        <5>2. 1 \in 1..Len(request)
          BY <1>3
        <5> QED BY <1>4, <5>1, <5>2
      <4> QED BY <1>5, <3>2, <4>1
    <3>3. CASE u \in Busy
      BY <1>7, <3>3 DEF BInv, OutputTyped
    <3> QED BY <1>6, <3>2, <3>3
  <2> QED BY <1>1, <1>5, <2>1 DEF BInv, OutputTyped
<1>9. /\ \A i \in DOMAIN output :
           output[i].number \in 1..calls /\ output[i].number # n
      /\ \A r \in returned : r.number \in 1..calls /\ r.number # n
      /\ \A u \in Busy : doing[u].number \in 1..calls /\ doing[u].number # n
  BY <1>1 DEF BInv, NumberInv
<1>10. NumberInv'
  BY <1>1, <1>4, <1>5, <1>6, <1>7, <1>9 DEF BInv, NumberInv
<1>11. PrefixInv'
  <2>1. Places(output, c.number) = {}
    BY <1>4, <1>9 DEF Places
  <2>2. Written(output, c, 0)
    BY <2>1, NothingWritten DEF BInv, OutputTyped
  <2>3. c.next - 1 = 0
    BY <1>4
  <2> QED BY <1>1, <1>5, <1>6, <1>7, <2>2, <2>3 DEF BInv, PrefixInv
<1>12. TurnInv'
  BY <1>1, <1>4, <1>5, <1>6 DEF BInv, TurnInv
<1>13. SuccessMeansWritten'
  BY <1>1 DEF BInv, SuccessMeansWritten, Complete
<1>14. TerminatorEndsItsLine'
  <2>1. \A d \in returned' \cup {doing'[u] : u \in Writers} :
          d \in returned \cup {doing[u] : u \in Writers} \/ d = c
    BY <1>1, <1>5
  <2> QED BY <1>1, <1>4, <1>9, <2>1 DEF BInv, TerminatorEndsItsLine
<1> QED BY <1>8, <1>10, <1>11, <1>12, <1>13, <1>14 DEF BInv

LEMMA NotedType ==
  ASSUME NEW r \in Progress, NEW status, NEW amount
  PROVE  LET c == Noted(r, status, amount)
         IN  /\ c \in Progress
             /\ c.number = r.number /\ c.request = r.request /\ c.next = r.next
             /\ ~c.shortened <=> ~r.shortened
                  /\ (Succeeded(status) => amount = "all")
<1>1. r.shortened \in BOOLEAN
  BY DEF Progress
<1> DEFINE b == r.shortened \/ (Succeeded(status) /\ amount # "all")
<1>2. b \in BOOLEAN
  OBVIOUS
<1> HIDE DEF b
<1>3. /\ [r EXCEPT !.shortened = b] \in Progress
      /\ [r EXCEPT !.shortened = b].number = r.number
      /\ [r EXCEPT !.shortened = b].request = r.request
      /\ [r EXCEPT !.shortened = b].next = r.next
      /\ [r EXCEPT !.shortened = b].shortened = b
  BY <1>2 DEF Progress
<1>4. Noted(r, status, amount) = [r EXCEPT !.shortened = b]
  BY DEF Noted, b
<1>5. ~b <=> ~r.shortened /\ (Succeeded(status) => amount = "all")
  BY DEF b
<1> QED BY <1>3, <1>4, <1>5

LEMMA AdvancedType ==
  ASSUME NEW c \in Progress, c.next = 1
  PROVE  /\ Advanced(c) \in Progress /\ Advanced(c).number = c.number
         /\ Advanced(c).request = c.request /\ Advanced(c).next = 2
         /\ Advanced(c).shortened = c.shortened
BY DEF Advanced, Progress

LEMMA WriteStep ==
  ASSUME BInv, NEW w \in Writers, NEW status \in {"Success", "HardwareFailure"},
         NEW amount \in {"all", "some", "none"}, Write(w, status, amount)
  PROVE  BInv'
<1> DEFINE c == Noted(doing[w], status, amount)
           x == [number |-> c.number, amount |-> amount,
                 piece |-> c.request[c.next]]
           result == [number |-> c.number, request |-> c.request,
                      shortened |-> c.shortened, status |-> status]
<1>1. w \in Busy
  BY DEF Write, Busy
<1>2. /\ c \in Progress /\ c.number = doing[w].number
      /\ c.request = doing[w].request /\ c.next = doing[w].next
      /\ ~c.shortened <=> ~doing[w].shortened
           /\ (Succeeded(status) => amount = "all")
  BY <1>1, PieceType, NotedType DEF BInv
<1>3. /\ c.request \in Requests /\ Len(c.request) \in 1..2
      /\ c.next \in 1..Len(c.request) /\ c.request[c.next] \in Pieces
  BY <1>1, <1>2, PieceType DEF BInv
<1>4. /\ <<status, amount>> \in Outcomes(c.request[c.next])
      /\ Arrive(c, amount)
      /\ IF Ends(c, status)
         THEN /\ doing' = [doing EXCEPT ![w] = Idle]
              /\ Report(c, Answer(c, status))
         ELSE /\ doing' = [doing EXCEPT ![w] = Advanced(c)]
              /\ UNCHANGED returned
      /\ UNCHANGED <<serialised, calls>>
  BY DEF Write
<1> HIDE DEF c
<1>5. c.number \in 1..calls /\ calls \in Nat /\ c.number # 0
  BY <1>1, <1>2 DEF BInv, NumberInv, OutputTyped
<1>7. amount # "none" => x \in Entries
  BY <1>3, <1>5 DEF Entries
<1>8. /\ amount = "none" => output' = output
      /\ amount # "none" => output' = Append(output, x)
  BY <1>4 DEF Arrive
<1>9. \/ /\ doing' = [doing EXCEPT ![w] = Idle]
         /\ returned' = returned \cup {result}
         /\ c.next = Len(c.request) \/ status # "Success"
      \/ /\ doing' = [doing EXCEPT ![w] = Advanced(c)]
         /\ returned' = returned
         /\ c.next = 1 /\ Len(c.request) = 2 /\ status = "Success"
  <2>1. CASE Ends(c, status)
    <3>1. returned' = returned \cup {result}
      BY <1>4, <2>1 DEF Report, Answer
    <3> QED BY <1>4, <2>1, <3>1 DEF Ends, Succeeded
  <2>2. CASE ~Ends(c, status)
    <3>1. c.next # Len(c.request) /\ status = "Success"
      BY <2>2 DEF Ends, Succeeded
    <3>2. c.next = 1 /\ Len(c.request) = 2
      <4>1. \A b \in 1..2 : \A a \in 1..b : a # b => a = 1 /\ b = 2
        OBVIOUS
      <4> QED BY <1>3, <3>1, <4>1
    <3> QED BY <1>4, <2>2, <3>1, <3>2
  <2> QED BY <2>1, <2>2
<1>10. output \in Seq(Entries) /\ doing \in [Writers -> Progress]
  BY DEF BInv, OutputTyped
<1> HIDE DEF x
\* What became of the output.
<1>11. /\ output' \in Seq(Entries)
       /\ \A i \in DOMAIN output :
            i \in DOMAIN output' /\ output'[i] = output[i]
       /\ \A i \in DOMAIN output' \ DOMAIN output :
            /\ amount # "none" /\ output'[i] = x
            /\ i = Len(output) + 1 /\ i = Len(output')
  <2>1. CASE amount = "none"
    BY <1>8, <1>10, <2>1
  <2>2. CASE amount # "none"
    <3>1. /\ Append(output, x) \in Seq(Entries)
          /\ Len(Append(output, x)) = Len(output) + 1
          /\ \A i \in 1..Len(output) : Append(output, x)[i] = output[i]
          /\ Append(output, x)[Len(output) + 1] = x
      BY <1>7, <1>10, <2>2, AppendProperties
    <3>2. /\ DOMAIN output = 1..Len(output) /\ Len(output) \in Nat
          /\ DOMAIN Append(output, x) = 1..Len(Append(output, x))
      BY <1>10, <3>1, LenProperties
    <3> QED BY <1>8, <2>2, <3>1, <3>2
  <2> QED BY <2>1, <2>2
<1>12. ASSUME NEW r, NEW n \in Nat, r.number # c.number, Written(output, r, n)
       PROVE  Written(output', r, n)
  <2>1. CASE amount = "none"
    BY <1>8, <1>12, <2>1
  <2>2. CASE amount # "none"
    <3>1. x.number # r.number
      BY <1>12 DEF x
    <3>2. Written(Append(output, x), r, n)
      BY <1>7, <1>10, <1>12, <2>2, <3>1, StillWritten
    <3> QED BY <1>8, <2>2, <3>2
  <2> QED BY <2>1, <2>2
\* What became of the call.
<1>13. status = "Success" /\ ~c.shortened => Written(output', c, c.next)
  <2> SUFFICES ASSUME status = "Success", ~c.shortened
               PROVE  Written(output', c, c.next)
    OBVIOUS
  <2>1. amount = "all" /\ ~doing[w].shortened
    BY <1>2 DEF Succeeded
  <2> DEFINE m == c.next - 1
  <2>2. m \in Nat /\ m + 1 = c.next
    BY <1>3
  <2>3. Written(output, doing[w], m)
    BY <1>1, <1>2, <2>1 DEF BInv, PrefixInv
  <2> HIDE DEF m
  <2>4. Written(output, c, m)
    BY <1>2, <2>3, SameWritten
  <2>5. x = [number |-> c.number, amount |-> "all", piece |-> c.request[m + 1]]
    BY <2>1, <2>2 DEF x
  <2>6. Written(Append(output, x), c, m + 1)
    BY <1>7, <1>10, <2>1, <2>2, <2>4, <2>5, NextWritten
  <2> QED BY <1>8, <2>1, <2>2, <2>6
<1>14. Idle \in Progress /\ (c.next = 1 => Advanced(c) \in Progress)
  BY <1>2, AdvancedType DEF Idle, Begun, Progress
<1>15. /\ \A u \in Writers \ {w} : doing'[u] = doing[u]
       /\ doing' \in [Writers -> Progress]
       /\ doing'[w] = Idle \/ doing'[w] = Advanced(c)
  BY <1>9, <1>10, <1>14
<1>16. \A u \in Busy' :
         u \in Busy /\ u \in Writers /\ (u # w => doing'[u] = doing[u])
  BY <1>1, <1>15 DEF Busy
\* The call goes on.
<1>17. w \in Busy' =>
         /\ returned' = returned /\ status = "Success"
         /\ c.next = 1 /\ Len(c.request) = 2
         /\ doing'[w].number = c.number /\ doing'[w].request = c.request
         /\ doing'[w].next = 2 /\ doing'[w].shortened = c.shortened
  <2> SUFFICES ASSUME w \in Busy' PROVE doing'[w] # Idle
    BY <1>2, <1>9, <1>10, <1>15, AdvancedType
  <2> QED BY DEF Busy
\* The call returns.
<1>18. \/ returned' = returned
       \/ /\ returned' = returned \cup {result} /\ w \notin Busy'
          /\ c.next = Len(c.request) \/ status # "Success"
  <2>1. doing'[w] = Idle => w \notin Busy'
    BY DEF Busy
  <2> QED BY <1>9, <1>10, <2>1
<1>19. /\ result \in Results /\ result.number = c.number
       /\ result.request = c.request
       /\ result.shortened = c.shortened /\ result.status = status
  BY <1>2, <1>3, <1>5 DEF Results, Progress
<1> HIDE DEF result
<1>20. OutputTyped'
  <2>1. \A u \in Busy' :
          doing'[u].number # 0 /\ doing'[u].next \in 1..Len(doing'[u].request)
    <3>1. TAKE u \in Busy'
    <3>2. CASE u = w
      <4>1. /\ doing'[w].number = c.number /\ doing'[w].next = 2
            /\ Len(doing'[w].request) = 2
        BY <1>17, <3>2
      <4>2. doing'[w].next \in 1..Len(doing'[w].request)
        BY <4>1
      <4> QED BY <1>5, <3>2, <4>1, <4>2
    <3>3. CASE u # w
      BY <1>16, <3>3 DEF BInv, OutputTyped
    <3> QED BY <3>2, <3>3
  <2>2. returned' \subseteq Results
    BY <1>18, <1>19 DEF BInv, OutputTyped
  <2> QED BY <1>4, <1>11, <1>15, <2>1, <2>2 DEF BInv, OutputTyped
<1>21. \A u \in Busy' : u \in Busy /\ doing'[u].number = doing[u].number
  BY <1>2, <1>16, <1>17
<1>22. NumberInv'
  <2>1. \A i \in DOMAIN output' : output'[i].number \in 1..calls
    BY <1>5, <1>11 DEF BInv, NumberInv, x
  <2>2. \A r \in returned' : r.number \in 1..calls
    BY <1>5, <1>18, <1>19 DEF BInv, NumberInv
  <2>3. \A u \in Busy', r \in returned' : doing'[u].number # r.number
    BY <1>1, <1>2, <1>18, <1>19, <1>21 DEF BInv, NumberInv
  <2> QED BY <1>4, <1>21, <2>1, <2>2, <2>3 DEF BInv, NumberInv
<1>23. PrefixInv'
  <2> SUFFICES ASSUME NEW u \in Busy', ~doing'[u].shortened
               PROVE  Written(output', doing'[u], doing'[u].next - 1)
    BY DEF PrefixInv
  <2>1. CASE u = w
    <3>1. Written(output', c, 1)
      BY <1>13, <1>17, <2>1
    <3>2. Written(output', doing'[w], 1)
      BY <1>17, <2>1, <3>1, SameWritten
    <3> QED BY <1>17, <2>1, <3>2
  <2>2. CASE u # w
    <3>1. u \in Busy /\ doing'[u] = doing[u] /\ doing[u].number # c.number
      BY <1>1, <1>2, <1>16, <2>2 DEF BInv, NumberInv
    <3>2. Written(output, doing[u], doing[u].next - 1)
      BY <3>1 DEF BInv, PrefixInv
    <3>3. doing[u].next - 1 \in Nat
      BY <3>1, PieceType DEF BInv
    <3> QED BY <1>12, <3>1, <3>2, <3>3
  <2> QED BY <2>1, <2>2
<1>24. TurnInv'
  <2> SUFFICES ASSUME serialised
               PROVE  /\ \A u, v \in Busy' : u = v
                      /\ \A v \in Busy' :
                           doing'[v].next = 2 /\ ~doing'[v].shortened =>
                             /\ output' # <<>>
                             /\ output'[Len(output')] =
                                  [number |-> doing'[v].number,
                                   amount |-> "all",
                                   piece |-> doing'[v].request[1]]
    BY <1>4 DEF TurnInv
  <2>1. \A u, v \in Busy : u = v
    BY DEF BInv, TurnInv
  <2>2. ASSUME NEW v \in Busy', doing'[v].next = 2, ~doing'[v].shortened
        PROVE  /\ output' # <<>>
               /\ output'[Len(output')] =
                    [number |-> doing'[v].number, amount |-> "all",
                     piece |-> doing'[v].request[1]]
    <3>1. v = w
      BY <1>1, <1>16, <2>1
    <3>2. amount = "all" /\ c.next = 1
      BY <1>2, <1>17, <2>2, <3>1 DEF Succeeded
    <3>3. output' = Append(output, x) /\ x \in Entries
      BY <1>7, <1>8, <3>2
    <3>4. /\ Append(output, x) # <<>>
          /\ Len(Append(output, x)) = Len(output) + 1
          /\ Append(output, x)[Len(output) + 1] = x
      BY <1>10, <3>3, AppendProperties
    <3>5. output'[Len(output')] = x
      BY <3>3, <3>4
    <3> QED BY <1>17, <3>1, <3>2, <3>3, <3>4, <3>5 DEF x
  <2> QED BY <1>16, <2>1, <2>2
<1>25. SuccessMeansWritten'
  <2> SUFFICES ASSUME NEW r \in returned', Succeeded(r.status), ~r.shortened
               PROVE  Written(output', r, Len(r.request))
    BY DEF SuccessMeansWritten, Complete
  <2>1. CASE r \in returned
    <3>1. r.number # c.number
      BY <1>1, <1>2, <2>1 DEF BInv, NumberInv
    <3>2. Written(output, r, Len(r.request))
      BY <2>1 DEF BInv, SuccessMeansWritten, Complete
    <3>3. Len(r.request) \in Nat
      BY <2>1 DEF BInv, OutputTyped, Results, Requests
    <3> QED BY <1>12, <3>1, <3>2, <3>3
  <2>2. CASE r = result /\ c.next = Len(c.request)
    <3>1. Written(output', c, Len(c.request))
      BY <1>13, <1>19, <2>2 DEF Succeeded
    <3> QED BY <1>19, <2>2, <3>1, SameWritten
  <2>3. CASE r = result /\ status # "Success"
    BY <1>19, <2>3 DEF Succeeded
  <2> QED BY <1>18, <2>1, <2>2, <2>3
<1>26. TerminatorEndsItsLine'
  <2> DEFINE Ended(out, d, i) ==
        i > 1 /\ out[i - 1] =
          [number |-> d.number, amount |-> "all", piece |-> "text"]
  <2> SUFFICES ASSUME NEW i \in DOMAIN output',
                      NEW d \in returned' \cup {doing'[u] : u \in Writers},
                      serialised, d.number = output'[i].number, ~d.shortened,
                      output'[i].piece = "end", d.request = <<"text", "end">>
               PROVE  Ended(output', d, i)
    BY <1>4 DEF TerminatorEndsItsLine
  <2>1. output'[i].number # 0
    BY <1>22 DEF NumberInv
\* The call was there before the step, with what matters of it.
  <2>2. PICK e \in returned \cup {doing[u] : u \in Writers} :
          e.number = d.number /\ e.request = d.request /\ ~e.shortened
    <3>1. CASE d \in returned \/ \E u \in Writers \ {w} : d = doing'[u]
      BY <1>15, <3>1
    <3>2. CASE d = result
      BY <1>2, <1>19, <3>2
    <3>3. CASE d = doing'[w]
      <4>1. w \in Busy'
        BY <2>1, <3>3 DEF Busy, Idle, Begun
      <4> QED BY <1>2, <1>17, <3>3, <4>1
    <3> QED BY <1>18, <3>1, <3>2, <3>3
  <2>3. CASE i \in DOMAIN output
    <3>1. Ended(output, e, i)
      BY <1>11, <2>2, <2>3 DEF BInv, TerminatorEndsItsLine
    <3>2. i - 1 \in DOMAIN output
      BY <1>10, <2>3, <3>1, LenProperties
    <3> QED BY <1>11, <2>2, <3>1, <3>2
  <2>4. CASE i \notin DOMAIN output
    <3>1. /\ amount # "none" /\ output'[i] = x /\ i = Len(output) + 1
      BY <1>11, <2>4
    <3>2. e.number = c.number /\ c.request[c.next] = "end"
      BY <2>2, <3>1 DEF x
    <3>3. e = doing[w]
      BY <1>1, <1>2, <2>1, <2>2, <3>2 DEF BInv, NumberInv, Busy, Idle, Begun
    <3>4. c.next = 2 /\ ~doing[w].shortened /\ doing[w].next = 2
      BY <1>2, <1>3, <2>2, <3>2, <3>3
    <3>5. /\ output # <<>>
          /\ output[Len(output)] =
               [number |-> doing[w].number, amount |-> "all",
                piece |-> doing[w].request[1]]
      BY <1>1, <3>4 DEF BInv, TurnInv
    <3>6. Len(output) \in Nat \ {0} /\ DOMAIN output = 1..Len(output)
      BY <1>10, <3>5, EmptySeq, LenProperties
    <3> QED BY <1>11, <2>2, <3>1, <3>3, <3>5, <3>6
  <2> QED BY <2>3, <2>4
<1> QED BY <1>20, <1>22, <1>23, <1>24, <1>25, <1>26 DEF BInv

\* WriteText(nullptr).
LEMMA NullStep ==
  ASSUME BInv, NEW w \in Writers, CallWithNull(w)
  PROVE  BInv'
<1> DEFINE n == calls + 1
           result == [number |-> n, request |-> <<"text">>, shortened |-> FALSE,
                      status |-> "InvalidArgument"]
<1>1. /\ calls' = n /\ UNCHANGED <<serialised, doing, output>>
      /\ calls \in Nat /\ n \in Nat /\ n > calls
  BY DEF CallWithNull, MayCall, BInv, OutputTyped
<1>2. returned' = returned \cup {result}
  BY <1>1 DEF CallWithNull, Report, Begun
<1>3. /\ result \in Results /\ result.number = n /\ ~Succeeded(result.status)
      /\ result.request # <<"text", "end">>
  BY <1>1 DEF Results, Requests, Succeeded
<1> HIDE DEF result
<1>4. OutputTyped'
  BY <1>1, <1>2, <1>3 DEF BInv, OutputTyped, Busy
<1>5. NumberInv'
  <2>1. \A m : m \in 1..calls => m \in 1..n /\ m # n
    BY <1>1
  <2>2. n \in 1..n
    BY <1>1
  <2> QED BY <1>1, <1>2, <1>3, <2>1, <2>2 DEF BInv, NumberInv, Busy
<1>6. PrefixInv' /\ TurnInv'
  BY <1>1 DEF BInv, PrefixInv, TurnInv, Busy
<1>7. SuccessMeansWritten'
  BY <1>1, <1>2, <1>3 DEF BInv, SuccessMeansWritten, Complete
<1>8. TerminatorEndsItsLine'
  BY <1>1, <1>2, <1>3 DEF BInv, TerminatorEndsItsLine
<1> QED BY <1>4, <1>5, <1>6, <1>7, <1>8 DEF BInv

LEMMA OutputStep == BInv /\ [OutputNext]_outputVars => BInv'
<1> SUFFICES ASSUME BInv, [OutputNext]_outputVars PROVE BInv'
  OBVIOUS
<1>1. ASSUME NEW w \in Writers, WriterStep(w) PROVE BInv'
  BY <1>1, BeginStep, NullStep, WriteStep DEF WriterStep
<1>2. CASE UNCHANGED outputVars
  <2>1. /\ UNCHANGED <<serialised, calls, doing, output, returned>>
        /\ Busy' = Busy
    BY <1>2 DEF outputVars, Busy
  <2>2. OutputTyped' /\ NumberInv'
    BY <2>1 DEF BInv, OutputTyped, NumberInv
  <2>3. PrefixInv' /\ TurnInv'
    BY <2>1 DEF BInv, PrefixInv, TurnInv
  <2>4. SuccessMeansWritten' /\ TerminatorEndsItsLine'
    BY <2>1
    DEF BInv, SuccessMeansWritten, Complete, TerminatorEndsItsLine
  <2> QED BY <2>2, <2>3, <2>4 DEF BInv
<1> QED BY <1>1, <1>2 DEF OutputNext

LEMMA OutputInvariant == OutputSpec => []BInv
BY InitOutput, OutputStep, PTL DEF OutputSpec

-----------------------------------------------------------------------------
\* A call that returns success has written everything, unless the platform
\* shortened a write.
THEOREM SuccessIsWritten == OutputSpec => []SuccessMeansWritten
<1>1. BInv => SuccessMeansWritten
  BY DEF BInv
<1> QED BY <1>1, OutputInvariant, PTL

\* A terminator never ends half a line, if callers take turns and the platform
\* shortens no write.
THEOREM NoHalfLine == OutputSpec => []TerminatorEndsItsLine
<1>1. BInv => TerminatorEndsItsLine
  BY DEF BInv
<1> QED BY <1>1, OutputInvariant, PTL

-----------------------------------------------------------------------------
(* CreatedObjects.                                                         *)

\* Platforms that a step may still reach, or that made a live object.
Engaged ==
  {x[1] : x \in live} \cup {loaded[t] : t \in calling} \cup {slot}

\* Without a replacement only one platform is engaged.
OnePlatform ==
  ~replaced => \A p, q \in Engaged \cap Platforms : p = q

\* What a handle is for the service; only success comes with one.
HandleInv ==
  \A v \in Variables :
    /\ held[v].handle \in
         {Null} \cup IF Owning THEN Platforms \X Numbers ELSE Numbers
    /\ held[v].handle # Null => held[v].ok

Unshared ==
  \A v, w \in Variables :
    v # w /\ held[v].handle # Null => held[v].handle # held[w].handle

\* The handles of contexts are the numbers of the live ones, each in one
\* variable.
ContextInv ==
  ~Owning /\ ~replaced =>
    /\ Unshared
    /\ \A x \in live : \E v \in Variables : held[v].handle = x[2]
    /\ \A v \in Variables :
         held[v].handle # Null => \E x \in live : held[v].handle = x[2]

\* The handles of owned objects are the live ones, each in one variable.
OwnedInv ==
  Owning =>
    /\ live = {held[v].handle : v \in Variables} \ {Null}
    /\ Unshared

CInv == TypeOK /\ OnePlatform /\ HandleInv /\ OwnedInv /\ ContextInv

-----------------------------------------------------------------------------
USE ObjectsAssumption DEF Owning, Nothing, Empty, Makers, Handles

LEMMA InitCInv == Init => CInv
<1> SUFFICES ASSUME Init PROVE CInv
  OBVIOUS
<1> USE DEF Init
<1>1. TypeOK BY DEF TypeOK
<1>2. OnePlatform BY DEF OnePlatform, Engaged
<1>3. HandleInv BY DEF HandleInv
<1>4. OwnedInv BY DEF OwnedInv, Unshared
<1>5. ContextInv BY DEF ContextInv, Unshared
<1> QED BY <1>1, <1>2, <1>3, <1>4, <1>5 DEF CInv

\* Two live contexts of one number are one context.
LEMMA NumberNames ==
  ASSUME CInv, ~replaced, NEW x \in live, NEW y \in live, x[2] = y[2]
  PROVE  x = y
<1>1. x \in Platforms \X Numbers /\ y \in Platforms \X Numbers
  BY DEF CInv, TypeOK
<1>2. x[1] = y[1]
  BY <1>1 DEF CInv, OnePlatform, Engaged
<1> QED BY <1>1, <1>2

-----------------------------------------------------------------------------
(* The slot: setters and the load.                                         *)

LEMMA SlotStep ==
  ASSUME CInv,
         \/ \E p \in Platforms \cup {Null} : SetProvider(p)
         \/ ResetProvider
         \/ \E t \in Threads : Load(t)
  PROVE  CInv'
<1> USE DEF CInv
<1>a. replaced' \in BOOLEAN /\ (~replaced' => ~replaced)
  <2>1. ASSUME NEW p \in Platforms \cup {Null}, SetProvider(p)
        PROVE  replaced' \in BOOLEAN /\ (~replaced' => ~replaced)
    BY <2>1, Zenon DEF SetProvider
  <2>2. CASE ResetProvider \/ \E t \in Threads : Load(t)
    BY <2>2 DEF ResetProvider, Load, TypeOK
  <2> QED BY <2>1, <2>2
<1>1. UNCHANGED <<service, held, live>>
  BY DEF SetProvider, ResetProvider, Load
<1>2. TypeOK'
  <2>1. /\ slot' \in Makers /\ (~Owning => slot' # Null)
        /\ calling' \in SUBSET Threads
        /\ loaded' \in [Threads -> Makers]
    <3>1. ASSUME NEW p \in Platforms \cup {Null}, SetProvider(p)
          PROVE  /\ slot' \in Makers /\ (~Owning => slot' # Null)
                 /\ calling' \in SUBSET Threads
                 /\ loaded' \in [Threads -> Makers]
      <4>1. slot' = IF p = Null /\ ~Owning THEN slot ELSE p
        BY <3>1, Zenon DEF SetProvider
      <4>2. UNCHANGED <<calling, loaded>>
        BY <3>1, Zenon DEF SetProvider
      <4> QED BY <4>1, <4>2 DEF TypeOK
    <3>2. CASE ResetProvider
      BY <3>2 DEF TypeOK, ResetProvider
    <3>3. ASSUME NEW t \in Threads, Load(t)
          PROVE  /\ slot' \in Makers /\ (~Owning => slot' # Null)
                 /\ calling' \in SUBSET Threads
                 /\ loaded' \in [Threads -> Makers]
      BY <3>3 DEF TypeOK, Load
    <3> QED BY <3>1, <3>2, <3>3
  <2> QED BY <1>a, <1>1, <2>1 DEF TypeOK
<1>3. OnePlatform'
  <2>1. ASSUME NEW p \in Platforms \cup {Null}, SetProvider(p), ~replaced'
        PROVE  OnePlatform'
    <3>1. CASE p = Null
      BY <2>1, <3>1 DEF OnePlatform, Engaged, SetProvider
    <3>2. CASE p # Null
      <4>1. \A x \in live : x[1] = p
        BY <2>1, <3>2 DEF SetProvider
      <4>2. \A t \in calling : loaded[t] \in Platforms => loaded[t] = p
        BY <2>1, <3>2 DEF SetProvider
      <4>3. slot' = p /\ UNCHANGED <<live, calling, loaded>>
        BY <2>1, <3>2 DEF SetProvider
      <4> QED BY <4>1, <4>2, <4>3 DEF OnePlatform, Engaged
    <3> QED BY <3>1, <3>2
  <2>2. CASE ResetProvider
    BY <2>2 DEF OnePlatform, Engaged, ResetProvider
  <2>3. ASSUME NEW t \in Threads, Load(t) PROVE OnePlatform'
    <3>1. Engaged' \subseteq Engaged
      BY <2>3 DEF Engaged, Load, TypeOK
    <3> QED BY <2>3, <3>1 DEF OnePlatform, Load
  <2> QED BY <2>1, <2>2, <2>3 DEF OnePlatform
<1>4. HandleInv' BY <1>1 DEF HandleInv
<1>5. OwnedInv' BY <1>1 DEF OwnedInv, Unshared
<1>6. ContextInv' BY <1>a, <1>1 DEF ContextInv, Unshared
<1> QED BY <1>2, <1>3, <1>4, <1>5, <1>6

-----------------------------------------------------------------------------
(* Calls that return.                                                      *)

LEMMA ReturnFrame ==
  ASSUME CInv, NEW t \in Threads, Return(t)
  PROVE  /\ UNCHANGED <<service, slot, replaced>>
         /\ calling' \in SUBSET Threads
         /\ loaded' \in [Threads -> Makers]
         /\ (\A x \in live' :
               x \in live \/ (loaded[t] \in Platforms /\ x[1] = loaded[t]))
              => OnePlatform'
<1>1. UNCHANGED <<service, slot, replaced>> /\ calling' \in SUBSET Threads
      /\ loaded' \in [Threads -> Makers]
  BY DEF Return, CInv, TypeOK
<1>2. ASSUME \A x \in live' :
               x \in live \/ (loaded[t] \in Platforms /\ x[1] = loaded[t])
      PROVE  OnePlatform'
  <2>1. t \in calling
        /\ \A u \in calling' : u \in calling /\ loaded'[u] = loaded[u]
    BY DEF Return, CInv, TypeOK
  <2>2. Engaged' \subseteq Engaged
    BY <1>1, <1>2, <2>1 DEF Engaged
  <2> QED BY <1>1, <2>2 DEF CInv, OnePlatform
<1> QED BY <1>1, <1>2

\* A call that leaves the objects alone.
LEMMA NothingCreated ==
  ASSUME CInv, NEW t \in Threads, Return(t), UNCHANGED <<held, live>>
  PROVE  CInv'
<1>1. UNCHANGED service /\ UNCHANGED replaced /\ OnePlatform'
  BY ReturnFrame
<1> USE DEF CInv
<1>2. TypeOK' BY ReturnFrame DEF TypeOK
<1>3. HandleInv' BY <1>1 DEF HandleInv
<1>4. OwnedInv' BY <1>1 DEF OwnedInv, Unshared
<1>5. ContextInv' BY <1>1 DEF ContextInv, Unshared
<1> QED BY <1>1, <1>2, <1>3, <1>4, <1>5

\* A refusal: the variable is left without an object.
LEMMA NothingAssigned ==
  ASSUME CInv, NEW t \in Threads, Return(t), NEW v \in Variables,
         NEW r \in [ok : BOOLEAN, handle : Handles],
         r.handle = Null, Assign(v, r, {})
  PROVE  CInv'
<1>1. /\ UNCHANGED <<service, slot, replaced>>
      /\ held' = [held EXCEPT ![v] = r]
      /\ live' = live \ IF Owning THEN {held[v].handle} ELSE {}
      /\ ~Owning => held[v].handle = Null
  BY ReturnFrame DEF Assign
<1> USE DEF CInv
<1>2. OnePlatform'
  BY <1>1, ReturnFrame
<1>3. held'[v] = r /\ \A w \in Variables \ {v} : held'[w] = held[w]
  BY <1>1 DEF TypeOK
<1>4. TypeOK'
  BY <1>1, ReturnFrame DEF TypeOK
<1>5. HandleInv'
  BY <1>1, <1>3 DEF HandleInv
<1>6. OwnedInv'
  BY <1>1, <1>3 DEF OwnedInv, Unshared
<1>7. ContextInv'
  BY <1>1, <1>3 DEF ContextInv, Unshared
<1> QED BY <1>2, <1>4, <1>5, <1>6, <1>7

LEMMA CreateStep ==
  ASSUME CInv, NEW t \in Threads, NEW v \in Variables, NEW n \in Numbers,
         NEW external \in BOOLEAN, Create(t, v, n, external)
  PROVE  CInv'
<1> DEFINE p == loaded[t]
           object == <<p, n>>
           r == [ok |-> TRUE, handle |-> IF Owning THEN object ELSE n]
<1>1. /\ p \in Platforms /\ t \in calling /\ object \notin live
      /\ external => service = "queue" /\ p \notin Legacy
      /\ Return(t)
      /\ held' = [held EXCEPT ![v] = r]
      /\ live' = {object} \cup (live \ IF Owning THEN {held[v].handle} ELSE {})
      /\ ~Owning => held[v].handle = Null
  BY DEF Create, Callee, Assign, Honoured, Return
<1>2. UNCHANGED <<service, slot, replaced>>
  BY <1>1, ReturnFrame
<1>a. /\ r.ok = TRUE
      /\ r.handle = IF Owning THEN object ELSE n
      /\ r.handle # Null
      /\ r \in [ok : BOOLEAN, handle : Handles]
  BY <1>1
<1>b. object \in Platforms \X Numbers /\ object[1] = p /\ object[2] = n
  BY <1>1
<1>p. p = loaded[t]
  OBVIOUS
<1> HIDE DEF r, object, p
<1> USE DEF CInv
<1>3. OnePlatform'
  BY <1>1, <1>b, <1>p, ReturnFrame
<1>4. held'[v] = r /\ \A w \in Variables \ {v} : held'[w] = held[w]
  BY <1>1 DEF TypeOK
<1>5. TypeOK'
  BY <1>1, <1>2, <1>a, <1>b, ReturnFrame DEF TypeOK
<1>6. HandleInv'
  BY <1>2, <1>4, <1>a, <1>b DEF HandleInv
<1>7. OwnedInv'
  <2> SUFFICES ASSUME Owning PROVE OwnedInv'
    BY <1>2 DEF OwnedInv, Unshared
  <2>1. \A w \in Variables : held[w].handle # object
    BY <1>1, <1>b DEF OwnedInv, Unshared
  <2> QED BY <1>1, <1>2, <1>4, <1>a, <1>b, <2>1 DEF OwnedInv, Unshared
<1>8. ContextInv'
  <2> SUFFICES ASSUME ~Owning, ~replaced PROVE ContextInv'
    BY <1>2 DEF ContextInv
  <2>1. \A x \in live : x[2] # n
    <3> SUFFICES ASSUME NEW x \in live, x[2] = n PROVE FALSE
      OBVIOUS
    <3>1. x[1] = p /\ x \in Platforms \X Numbers
      BY <1>1, <1>p DEF TypeOK, OnePlatform, Engaged
    <3>2. x = <<p, n>>
      BY <3>1
    <3> QED BY <1>1, <3>2 DEF object
  <2>2. \A w \in Variables : held[w].handle # n
    BY <2>1, <1>1 DEF ContextInv
  <2>3. held'[v].handle = n /\ live' = live \cup {object}
          /\ held[v].handle = Null
    BY <1>1, <1>4, <1>a
  <2>4. Unshared'
    BY <1>4, <2>2, <2>3 DEF ContextInv, Unshared
  <2>5. ASSUME NEW x \in live'
        PROVE  \E w \in Variables : held'[w].handle = x[2]
    <3>1. CASE x = object
      BY <3>1, <2>3, <1>b
    <3>2. CASE x \in live
      <4>1. PICK w \in Variables : held[w].handle = x[2]
        BY <3>2 DEF ContextInv
      <4>2. x[2] # Null
        BY <3>2 DEF TypeOK
      <4> QED BY <4>1, <4>2, <2>3, <1>4
    <3> QED BY <3>1, <3>2, <2>3
  <2>6. \A w \in Variables :
          held'[w].handle # Null => \E x \in live' : held'[w].handle = x[2]
    BY <1>4, <1>b, <2>3 DEF ContextInv
  <2> QED
    BY <2>4, <2>5, <2>6 DEF ContextInv
<1> QED BY <1>3, <1>5, <1>6, <1>7, <1>8

LEMMA DestroyStep ==
  ASSUME CInv, NEW t \in Threads, NEW v \in Variables, Destroy(t, v)
  PROVE  CInv'
<1> DEFINE p == loaded[t]
           n == held[v].handle
<1>1. /\ ~Owning /\ n # Null /\ t \in calling
      /\ <<p, n>> \in live
      /\ Return(t)
      /\ live' = live \ {<<p, n>>}
      /\ held' = [held EXCEPT ![v] = Empty]
  BY DEF Destroy, Truth, Destroys, Callee, Return
<1>2. UNCHANGED <<service, slot, replaced>>
  BY <1>1, ReturnFrame
<1>n. n = held[v].handle
  OBVIOUS
<1> HIDE DEF p, n
<1> USE DEF CInv
<1>3. OnePlatform'
  BY <1>1, ReturnFrame
<1>4. held'[v] = Empty /\ \A w \in Variables \ {v} : held'[w] = held[w]
  BY <1>1 DEF TypeOK
<1>5. TypeOK'
  BY <1>1, <1>2, ReturnFrame DEF TypeOK
<1>6. HandleInv'
  BY <1>2, <1>4 DEF HandleInv
<1>7. OwnedInv'
  BY <1>1, <1>2 DEF OwnedInv, Unshared
<1>8. ContextInv'
  <2> SUFFICES ASSUME ~replaced PROVE ContextInv'
    BY <1>2 DEF ContextInv
  <2>0. /\ ContextInv /\ Unshared
        /\ \A x \in live : \E w \in Variables : held[w].handle = x[2]
        /\ \A w \in Variables :
             held[w].handle # Null => \E x \in live : held[w].handle = x[2]
    BY <1>1 DEF ContextInv
  <2>1. Unshared'
    BY <2>0, <1>4 DEF Unshared
  <2>2. ASSUME NEW x \in live'
        PROVE  \E w \in Variables : held'[w].handle = x[2]
    <3>1. x \in live /\ x # <<p, n>>
      BY <1>1
    <3>2. x[2] # n
      BY <3>1, <1>1, NumberNames
    <3>3. PICK w \in Variables : held[w].handle = x[2]
      BY <3>1, <2>0
    <3> QED BY <3>2, <3>3, <1>4, <1>n
  <2>3. ASSUME NEW w \in Variables, held'[w].handle # Null
        PROVE  \E x \in live' : held'[w].handle = x[2]
    <3>1. w # v /\ held'[w] = held[w] /\ held[w].handle # Null
      BY <2>3, <1>4
    <3>2. PICK x \in live : held[w].handle = x[2]
      BY <2>0, <3>1
    <3>3. held[w].handle # n
      BY <2>0, <3>1, <1>n DEF Unshared
    <3>4. x # <<p, n>>
      BY <3>2, <3>3
    <3> QED BY <3>1, <3>2, <3>4, <1>1
  <2> QED BY <2>1, <2>2, <2>3 DEF ContextInv
<1> QED BY <1>3, <1>5, <1>6, <1>7, <1>8

-----------------------------------------------------------------------------
(* What becomes of owned objects.                                          *)

LEMMA MoveStep ==
  ASSUME CInv, NEW v \in Variables, NEW w \in Variables, MoveTo(v, w)
  PROVE  CInv'
<1>1. /\ Owning /\ v # w
      /\ live' = live \ {held[w].handle}
      /\ UNCHANGED <<service, slot, calling, loaded, replaced>>
  BY DEF MoveTo
<1> USE DEF CInv
<1>2. /\ held'[w] = held[v]
      /\ \A u \in Variables \ {v, w} : held'[u] = held[u]
  BY <1>1 DEF MoveTo, TypeOK
<1>3. held'[v].handle = Null
  BY <1>1 DEF MoveTo, Left, TypeOK
<1>4. TypeOK'
  BY <1>1 DEF TypeOK, MoveTo, Left
<1>5. OnePlatform'
  BY <1>1 DEF OnePlatform, Engaged
<1>6. HandleInv'
  BY <1>1, <1>2, <1>3 DEF HandleInv
<1>7. OwnedInv'
  <2> DEFINE h(u) == held[u].handle
  <2>1. /\ h(w)' = h(v) /\ h(v)' = Null
        /\ \A u \in Variables \ {v, w} : h(u)' = h(u)
    BY <1>2, <1>3
  <2>2. /\ live = {h(u) : u \in Variables} \ {Null}
        /\ \A x, y \in Variables : x # y /\ h(x) # Null => h(x) # h(y)
        /\ live' = live \ {h(w)}
    BY <1>1 DEF OwnedInv, Unshared
  <2> SUFFICES /\ live' = {h(u)' : u \in Variables} \ {Null}
               /\ \A x, y \in Variables : x # y /\ h(x)' # Null => h(x)' # h(y)'
    BY DEF OwnedInv, Unshared
  <2> HIDE DEF h
  <2>3. \A x, y \in Variables : x # y /\ h(x)' # Null => h(x)' # h(y)'
    BY <2>1, <2>2
  <2>4. {h(u)' : u \in Variables} \ {Null} =
          {h(u) : u \in Variables \ {w}} \ {Null}
    BY <1>1, <2>1
  <2>5. live' = {h(u) : u \in Variables \ {w}} \ {Null}
    BY <2>2
  <2> QED BY <2>3, <2>4, <2>5
<1>8. ContextInv'
  BY <1>1 DEF ContextInv
<1> QED BY <1>4, <1>5, <1>6, <1>7, <1>8

LEMMA ReleaseStep ==
  ASSUME CInv, NEW v \in Variables, Release(v)
  PROVE  CInv'
<1>1. /\ Owning
      /\ live' = live \ {held[v].handle}
      /\ UNCHANGED <<service, slot, calling, loaded, replaced>>
  BY DEF Release
<1> USE DEF CInv
<1>2. held'[v] = Empty /\ \A u \in Variables \ {v} : held'[u] = held[u]
  BY DEF Release, TypeOK
<1>3. TypeOK'
  BY <1>1 DEF TypeOK, Release
<1>4. OnePlatform'
  BY <1>1 DEF OnePlatform, Engaged
<1>5. HandleInv'
  BY <1>1, <1>2 DEF HandleInv
<1>6. OwnedInv'
  BY <1>1, <1>2 DEF OwnedInv, Unshared
<1>7. ContextInv'
  BY <1>1 DEF ContextInv
<1> QED BY <1>3, <1>4, <1>5, <1>6, <1>7

LEMMA ObjectStep == CInv /\ [Next]_vars => CInv'
<1> SUFFICES ASSUME CInv, [Next]_vars PROVE CInv'
  OBVIOUS
<1>1. ASSUME NEW t \in Threads, CallStep(t), ~Load(t) PROVE CInv'
  <2>1. CASE NoController(t) \/ CreateThrew(t)
    BY <2>1, NothingCreated DEF NoController, CreateThrew
  <2>2. ASSUME NEW v \in Variables, CreateNowhere(t, v) PROVE CInv'
    <3>1. /\ Empty \in [ok : BOOLEAN, handle : Handles]
          /\ Empty.handle = Null
      OBVIOUS
    <3>2. Assign(v, Empty, {}) /\ Return(t)
      BY <2>2 DEF CreateNowhere
    <3> HIDE DEF Empty
    <3> QED BY <3>1, <3>2, NothingAssigned
  <2>3. ASSUME NEW v \in Variables, NEW ok \in BOOLEAN, CreateNothing(t, v, ok)
        PROVE  CInv'
    <3> DEFINE r == [Empty EXCEPT !.ok = ok]
    <3>1. /\ r \in [ok : BOOLEAN, handle : Handles]
          /\ r.handle = Null
      OBVIOUS
    <3>2. Assign(v, r, {}) /\ Return(t)
      BY <2>3 DEF CreateNothing
    <3> HIDE DEF r
    <3> QED BY <3>1, <3>2, NothingAssigned
  <2>4. ASSUME NEW v \in Variables, DestroyRefused(t, v) PROVE CInv'
    BY <2>4, NothingCreated DEF DestroyRefused
  <2> QED
    BY <1>1, <2>1, <2>2, <2>3, <2>4, CreateStep, DestroyStep DEF CallStep
<1>2. CASE UNCHANGED vars
  BY <1>2
  DEF vars, CInv, TypeOK, OnePlatform, Engaged, HandleInv, OwnedInv,
      ContextInv, Unshared
<1> QED
  BY <1>1, <1>2, SlotStep, MoveStep, ReleaseStep DEF Next

LEMMA ObjectInvariant == Spec => []CInv
BY InitCInv, ObjectStep, PTL DEF Spec

-----------------------------------------------------------------------------
\* The variables keep their types; nobody but a platform creates anything.
THEOREM ObjectTypeCorrect == Spec => []TypeOK
<1>1. CInv => TypeOK
  BY DEF CInv
<1> QED BY <1>1, ObjectInvariant, PTL

\* A true result names an object that exists.
THEOREM TrueResultsLive == Spec => []TrueMeansAlive
<1>1. CInv => TrueMeansAlive
  <2> SUFFICES ASSUME CInv, NEW v \in Variables,
                      Truth(held[v]), Owning \/ ~replaced
               PROVE  \E x \in live :
                        held[v].handle = IF Owning THEN x ELSE x[2]
    BY DEF TrueMeansAlive
  <2> QED BY DEF CInv, OwnedInv, ContextInv, Truth
<1> QED BY <1>1, ObjectInvariant, PTL

\* Every context keeps one handle until it is destroyed, if its provider is
\* not replaced.
THEOREM NoContextLost == Spec => []ContextsKept
<1>1. CInv => ContextsKept
  <2> SUFFICES ASSUME CInv, ~Owning, ~replaced PROVE ContextsKept
    BY DEF ContextsKept
  <2>1. /\ Unshared
        /\ \A x \in live : \E v \in Variables : held[v].handle = x[2]
    BY DEF CInv, ContextInv
  <2>2. ASSUME NEW x \in live
        PROVE  \E v \in Variables : Truth(held[v]) /\ held[v].handle = x[2]
    <3>1. PICK v \in Variables : held[v].handle = x[2]
      BY <2>1
    <3>2. x[2] # Null
      BY DEF CInv, TypeOK
    <3> QED BY <3>1, <3>2 DEF CInv, HandleInv, Truth
  <2> QED BY <2>1, <2>2 DEF ContextsKept, Unshared
<1> QED BY <1>1, ObjectInvariant, PTL
=============================================================================
