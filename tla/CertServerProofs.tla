-------------------------- MODULE CertServerProofs --------------------------
(***************************************************************************)
(* Proofs about the certificate server, for any log file, any number of    *)
(* requests, threads and certificates.                                     *)
(*                                                                         *)
(* The process (CertServer): discovery never announces a port that is not  *)
(* bound, a graceful stop loses no answer, and the log file is cut to its  *)
(* last lines within the bound.                                            *)
(*                                                                         *)
(* The stores of Windows and macOS behind it (NativeStore): every object   *)
(* of the operating system is released, once and after its last use, and   *)
(* no list breaks off in the middle.                                       *)
(***************************************************************************)
EXTENDS CertServer, NativeStore, SequenceTheorems, WellFoundedInduction, TLAPS

\* From the listener to the signal the port is bound; after it, it is not.
PortBound ==
  /\ pc \in {"go", "go serve", "notify", "wait"} => listening
  /\ pc \in {"stopping", "stopped"} => ~listening /\ ctxDone

\* The responder gets its goroutine when the port is bound.
ResponderLate ==
  responder = "running" => pc \in {"go serve", "notify", "wait", "stopping", "stopped"}

\* While the process runs no answer was lost, and requests are over when
\* GracefulStop returns.
Answering ==
  /\ requests \in Nat
  /\ exit = -1 => answered = TRUE
  /\ pc = "stopped" => requests = 0

\* Only main's last step is the exit with code 0.
CleanExit == exit = 0 => pc = "stopped" /\ answered = TRUE

Inv == PortBound /\ ResponderLate /\ Answering /\ CleanExit

-----------------------------------------------------------------------------
\* log.Fatalf anywhere ends the process with code 1.
LEMMA FatalStep == ASSUME Inv, Running, Fatal PROVE Inv'
<1>1. exit' # -1 /\ exit' # 0
  BY DEF Fatal
<1> QED
  BY <1>1, Zenon DEF Inv, PortBound, ResponderLate, Answering, CleanExit, Fatal

\* One step of the start.
LEMMA StartStep ==
  ASSUME Inv, NEW at, NEW next, Starting(at, next),
         <<at, next>> \in {<<"truncateLogFile", "open log">>, <<"open log", "cert-dir">>,
                           <<"cert-dir", "tls config">>, <<"tls config", "listen">>,
                           <<"listen", "go">>}
  PROVE  Inv'
<1>1. CASE Fatal
  BY <1>1, FatalStep DEF Starting
<1>2. CASE ~Fatal
  BY <1>2 DEF Starting, Inv, PortBound, ResponderLate, Answering, CleanExit, Running, workVars
<1> QED BY <1>1, <1>2

\* The goroutines are started and signals asked for.
LEMMA GoStep == ASSUME Inv, GoDiscovery \/ GoServe \/ Notify PROVE Inv'
BY DEF GoDiscovery, GoServe, Notify, Inv, PortBound, ResponderLate, Answering, CleanExit,
       Running, workVars

\* A goroutine goes on or ends, a request comes or is answered.
LEMMA GoroutineStep ==
  ASSUME Inv, DiscoveryEnds \/ Serve \/ ServeFails \/ Request \/ Answer
  PROVE  Inv'
<1>1. CASE DiscoveryEnds
  BY <1>1 DEF DiscoveryEnds, Inv, PortBound, ResponderLate, Answering, CleanExit, Running, workVars
<1>2. CASE Serve \/ ServeFails
  <2>1. CASE Fatal
    BY <1>2, <2>1, FatalStep DEF Serve, ServeFails
  <2>2. CASE ~Fatal
    BY <1>2, <2>2 DEF Serve, ServeFails, Inv, PortBound, ResponderLate, Answering, CleanExit,
                      Running, workVars
  <2> QED BY <2>1, <2>2
<1>3. CASE Request
  <2>1. requests' \in Nat /\ pc # "stopped"
    BY <1>3 DEF Request, Inv, Answering, PortBound
  <2>2. exit # 0
    BY <1>3 DEF Request, Running
  <2> QED
    BY <1>3, <2>1, <2>2, Zenon DEF Request, Inv, PortBound, ResponderLate, Answering, CleanExit
<1>4. CASE Answer
  <2>1. requests' \in Nat /\ pc # "stopped"
    BY <1>4 DEF Answer, Inv, Answering
  <2>2. exit # 0
    BY <1>4 DEF Answer, Running
  <2> QED
    BY <1>4, <2>1, <2>2, Zenon DEF Answer, Inv, PortBound, ResponderLate, Answering, CleanExit
<1> QED BY <1>1, <1>2, <1>3, <1>4

\* The code of a process killed by a signal is neither of the others.
LEMMA KilledCode == 2 # -1 /\ 2 # 0
OBVIOUS

\* A signal, and the steps to the exit.
LEMMA EndStep ==
  ASSUME Inv, Signal \/ Stop \/ GracefulStop \/ Exit \/ WriteFileFails
  PROVE  Inv'
<1> USE DEF Inv, PortBound, ResponderLate, Answering, CleanExit, Running, workVars
<1>1. CASE Signal
  <2>1. exit' = exit \/ exit' = 2
    BY <1>1, Zenon DEF Signal
  <2> QED BY <1>1, <2>1, KilledCode, Zenon DEF Signal
<1>2. CASE Stop
  BY <1>2 DEF Stop
<1>3. CASE GracefulStop
  BY <1>3 DEF GracefulStop
<1>4. CASE Exit
  BY <1>4 DEF Exit
<1>5. CASE WriteFileFails
  BY <1>5 DEF WriteFileFails
<1> QED BY <1>1, <1>2, <1>3, <1>4, <1>5

\* The inductive invariant holds at the start and after every step.
THEOREM Invariance == Spec => []Inv
<1>1. Init => Inv
  BY DEF Init, Inv, PortBound, ResponderLate, Answering, CleanExit
<1>2. ASSUME Inv, [Next]_vars PROVE Inv'
  <2>1. CASE UNCHANGED vars
    BY <1>2, <2>1 DEF vars, Inv, PortBound, ResponderLate, Answering, CleanExit
  <2>2. CASE Start
    BY <1>2, <2>2, StartStep DEF Start
  <2> QED
    BY <1>2, <2>1, <2>2, GoStep, GoroutineStep, EndStep DEF Next
<1> QED BY <1>1, <1>2, PTL DEF Spec

(***************************************************************************)
(* Discovery announces the gRPC port only while it is bound or the server  *)
(* is being stopped (the order of net.Listen and RunDiscovery in main).    *)
(***************************************************************************)
THEOREM BoundBeforeAnnounced == Spec => []AnnouncedIsBound
<1>1. Inv => AnnouncedIsBound
  BY DEF Inv, PortBound, ResponderLate, AnnouncedIsBound
<1> QED BY <1>1, Invariance, PTL

(***************************************************************************)
(* A server that exits after a signal has answered what it had accepted,   *)
(* however many requests come meanwhile (GracefulStop).                    *)
(***************************************************************************)
THEOREM GracefulAnswers == Spec => []NoAnswerLost
<1>1. Inv => NoAnswerLost
  BY DEF Inv, Answering, CleanExit, NoAnswerLost
<1> QED BY <1>1, Invariance, PTL

-----------------------------------------------------------------------------
(***************************************************************************)
(* The log file                                                            *)
(***************************************************************************)
Bytes == {"c", "n"}

\* A set of positions that is not empty has a first one.
LEMMA FirstOf ==
  ASSUME NEW S \in SUBSET Nat, S # {}
  PROVE  \E i \in S : \A j \in S : i <= j
<1> DEFINE R == OpToRel(<, Nat)
<1>1. PICK i \in S : \A j \in S : ~(<<j, i>> \in R)
  <2> HIDE DEF R
  <2>1. IsWellFoundedOn(R, Nat)
    BY NatLessThanWellFounded DEF R
  <2> QED BY <2>1, WFMin
<1>2. \A j \in S : ~(j < i)
  BY <1>1 DEF OpToRel
<1> QED BY <1>2

\* The end of a log from a position on.
LEMMA EndOf ==
  ASSUME NEW l \in Seq(Bytes), NEW d \in 0 .. Len(l), NEW r, r = SubSeq(l, d + 1, Len(l))
  PROVE  /\ r \in Seq(Bytes) /\ Len(r) = Len(l) - d
         /\ \A i \in 1 .. Len(r) : r[i] = l[d + i]
<1>1. Len(l) \in Nat /\ d \in Int /\ d + 1 \in Int /\ d <= Len(l)
  BY LenProperties
<1>2. \A i \in d + 1 .. Len(l) : l[i] \in Bytes
  BY <1>1, ElementOfSeq
<1>3. /\ r \in Seq(Bytes)
      /\ Len(r) = IF d + 1 <= Len(l) THEN Len(l) - (d + 1) + 1 ELSE 0
      /\ \A i \in 1 .. Len(l) - (d + 1) + 1 : r[i] = l[d + 1 + i - 1]
  <2>1. PICK m \in Int : m = d + 1
    BY <1>1
  <2>2. PICK n \in Int : n = Len(l)
    BY <1>1
  <2>3. \A i \in m .. n : l[i] \in Bytes
    BY <1>2, <2>1, <2>2
  <2>4. /\ SubSeq(l, m, n) \in Seq(Bytes)
        /\ Len(SubSeq(l, m, n)) = IF m <= n THEN n - m + 1 ELSE 0
        /\ \A i \in 1 .. n - m + 1 : SubSeq(l, m, n)[i] = l[m + i - 1]
    BY <2>3, SubSeqProperties
  <2> QED BY <2>1, <2>2, <2>4
<1>4. Len(r) = Len(l) - d
  BY <1>1, <1>3
<1>5. ASSUME NEW i \in 1 .. Len(r) PROVE r[i] = l[d + i]
  <2>1. i \in 1 .. Len(l) - (d + 1) + 1 /\ d + 1 + i - 1 = d + i
    BY <1>1, <1>4
  <2> QED BY <1>3, <2>1
<1> QED BY <1>3, <1>4, <1>5

\* The end of an end.
LEMMA EndOfEnd ==
  ASSUME NEW l \in Seq(Bytes), NEW d \in 0 .. Len(l), NEW tail, tail = SubSeq(l, d + 1, Len(l)),
         NEW e \in 0 .. Len(tail)
  PROVE  SubSeq(tail, e + 1, Len(tail)) = SubSeq(l, d + e + 1, Len(l))
<1>1. Len(l) \in Nat /\ tail \in Seq(Bytes) /\ Len(tail) = Len(l) - d
  BY EndOf, LenProperties
<1>2. d + e \in 0 .. Len(l)
  BY <1>1
<1>3. PICK r, q : r = SubSeq(tail, e + 1, Len(tail)) /\ q = SubSeq(l, d + e + 1, Len(l))
  OBVIOUS
<1>4. /\ r \in Seq(Bytes) /\ Len(r) = Len(tail) - e
      /\ \A i \in 1 .. Len(r) : r[i] = tail[e + i]
  BY <1>1, <1>3, EndOf
<1>5. /\ q \in Seq(Bytes) /\ Len(q) = Len(l) - (d + e)
      /\ \A i \in 1 .. Len(q) : q[i] = l[d + e + i]
  <2>1. PICK f \in 0 .. Len(l) : f = d + e
    BY <1>2
  <2>2. q = SubSeq(l, f + 1, Len(l))
    BY <1>3, <2>1
  <2>3. /\ q \in Seq(Bytes) /\ Len(q) = Len(l) - f
        /\ \A i \in 1 .. Len(q) : q[i] = l[f + i]
    BY <2>2, EndOf
  <2> QED BY <2>1, <2>3
<1>6. Len(r) = Len(q)
  BY <1>1, <1>4, <1>5
<1>7. ASSUME NEW i \in 1 .. Len(r) PROVE r[i] = q[i]
  <2>1. e + i \in 1 .. Len(tail) /\ d + (e + i) = d + e + i
    BY <1>1, <1>4
  <2>2. tail[e + i] = l[d + (e + i)]
    BY <2>1, EndOf
  <2> QED BY <1>4, <1>5, <1>6, <2>1, <2>2
<1> QED BY <1>3, <1>4, <1>5, <1>6, <1>7, SeqEqual

\* The cut of a log is an end of it within the bound, after a newline, or with
\* none in it but at its end.
EndWithinBound(l, r) ==
  /\ r \in Seq(Bytes) /\ Len(r) <= MaxLogSize
  /\ r = SubSeq(l, Len(l) - Len(r) + 1, Len(l))
  /\ \/ Len(l) - Len(r) = 0 \/ l[Len(l) - Len(r)] = "n"
     \/ \A i \in 1 .. Len(r) - 1 : r[i] = "c"

LEMMA CutBounds ==
  ASSUME NEW l \in Seq(Bytes)
  PROVE  EndWithinBound(l, Cut(l))
<1>1. MaxLogSize \in Nat /\ Len(l) \in Nat
  BY CertServerAssumption, LenProperties
<1>2. CASE Len(l) <= MaxLogSize
  <2>1. Cut(l) = l
    BY <1>2 DEF Cut
  <2>2. l = SubSeq(l, 1, Len(l)) /\ Len(l) - Len(l) = 0 /\ Len(l) - Len(l) + 1 = 1
    BY <1>1, SubSeqFull
  <2> QED BY <1>2, <2>1, <2>2 DEF EndWithinBound
<1>3. CASE Len(l) > MaxLogSize
  <2>1. PICK d : d = Len(l) - MaxLogSize
    OBVIOUS
  <2>2. d \in 0 .. Len(l) /\ d \in Nat /\ Len(l) - MaxLogSize + 1 = d + 1
    BY <1>1, <1>3, <2>1
  <2>3. PICK tail : tail = SubSeq(l, d + 1, Len(l))
    OBVIOUS
  <2>4. /\ tail \in Seq(Bytes) /\ Len(tail) = MaxLogSize
        /\ \A i \in 1 .. Len(tail) : tail[i] = l[d + i]
    <3>1. /\ tail \in Seq(Bytes) /\ Len(tail) = Len(l) - d
          /\ \A i \in 1 .. Len(tail) : tail[i] = l[d + i]
      BY <2>2, <2>3, EndOf
    <3> QED BY <1>1, <2>1, <3>1
  <2>5. DOMAIN tail = 1 .. MaxLogSize /\ \A i \in 1 .. MaxLogSize : tail[i] \in Bytes
    BY <2>4, LenProperties, ElementOfSeq
  <2>6. PICK ends : ends = {i \in DOMAIN tail : tail[i] = "n"}
    OBVIOUS
  <2>7. PICK first : first = CHOOSE i \in ends : \A j \in ends : i <= j
    OBVIOUS
  <2>8. Cut(l) = IF ends # {} /\ first < Len(tail) THEN SubSeq(tail, first + 1, Len(tail)) ELSE tail
    <3>1. ~(Len(l) <= MaxLogSize)
      BY <1>1, <1>3
    <3>2. tail = SubSeq(l, Len(l) - MaxLogSize + 1, Len(l))
      BY <2>2, <2>3
    <3>3. Cut(l) = LET e == {i \in DOMAIN tail : tail[i] = "n"}
                       f == CHOOSE i \in e : \A j \in e : i <= j
                   IN  IF Len(l) <= MaxLogSize THEN l
                       ELSE IF e # {} /\ f < Len(tail) THEN SubSeq(tail, f + 1, Len(tail))
                       ELSE tail
      BY <3>2 DEF Cut
    <3>4. Cut(l) = IF Len(l) <= MaxLogSize THEN l
                   ELSE IF ends # {} /\ first < Len(tail) THEN SubSeq(tail, first + 1, Len(tail))
                   ELSE tail
      BY <2>6, <2>7, <3>3
    <3> QED BY <3>1, <3>4
  <2>9. ends \in SUBSET Nat
    BY <1>1, <2>5, <2>6
  <2>10. ends # {} => first \in ends /\ \A j \in ends : first <= j
    BY <2>7, <2>9, FirstOf
  <2>11. CASE ends # {} /\ first < Len(tail)
    <3>1. first \in 0 .. Len(tail) /\ first \in 1 .. MaxLogSize /\ tail[first] = "n"
      BY <1>1, <2>4, <2>5, <2>6, <2>10, <2>11
    <3>2. PICK r : r = SubSeq(tail, first + 1, Len(tail))
      OBVIOUS
    <3>3. r \in Seq(Bytes) /\ Len(r) = Len(tail) - first
      BY <2>4, <3>1, <3>2, EndOf
    <3>4. r = SubSeq(l, d + first + 1, Len(l))
      BY <2>2, <2>3, <3>1, <3>2, EndOfEnd
    <3>5. Len(l) - Len(r) = d + first /\ Len(r) <= MaxLogSize
      BY <1>1, <2>1, <2>4, <3>1, <3>3
    <3>6. l[d + first] = "n"
      BY <2>4, <3>1
    <3> QED BY <2>8, <2>11, <3>2, <3>3, <3>4, <3>5, <3>6 DEF EndWithinBound
  <2>12. CASE ~(ends # {} /\ first < Len(tail))
    <3>1. Len(l) - Len(tail) = d
      BY <1>1, <2>1, <2>4
    <3>2. ASSUME NEW i \in 1 .. Len(tail) - 1 PROVE tail[i] = "c"
      <4>1. i \in 1 .. MaxLogSize /\ i < Len(tail) /\ i \in Nat
        BY <1>1, <2>4
      <4>2. i \notin ends
        <5>1. CASE ends = {}
          BY <5>1
        <5>2. CASE ends # {}
          <6>1. first \in Nat /\ ~(first < Len(tail)) /\ \A j \in ends : first <= j
            BY <2>9, <2>10, <2>12, <5>2
          <6> QED BY <1>1, <2>4, <4>1, <6>1
        <5> QED BY <5>1, <5>2
      <4>3. tail[i] # "n" /\ tail[i] \in Bytes
        BY <2>5, <2>6, <4>1, <4>2
      <4> QED BY <4>3 DEF Bytes
    <3>3. Cut(l) = tail
      BY <2>8, <2>12, Zenon
    <3>4. Len(l) - Len(tail) + 1 = d + 1 /\ Len(tail) <= MaxLogSize
      BY <1>1, <2>4, <3>1
    <3>5. tail = SubSeq(l, Len(l) - Len(tail) + 1, Len(l))
      BY <2>3, <3>4, Zenon
    <3> QED BY <2>4, <3>2, <3>3, <3>4, <3>5, Zenon DEF EndWithinBound
  <2> QED BY <2>11, <2>12
<1> QED BY <1>1, <1>2, <1>3

\* Until the file is cut it is the one that was found.
LogInv ==
  /\ oldLog \in Seq(Bytes)
  /\ pc = "truncateLogFile" /\ exit = -1 => logFile = oldLog
  /\ pc # "truncateLogFile" => EndWithinBound(oldLog, logFile)

\* The other steps leave the log file alone, and main does not go back.
LEMMA LogStep == ASSUME LogInv, [Next]_vars PROVE LogInv'
<1>1. CASE Starting("truncateLogFile", "open log") /\ ~Fatal
  <2>1. /\ pc' = "open log" /\ logFile' = Cut(oldLog) /\ oldLog' = oldLog
    BY <1>1 DEF Starting, LogInv, Running
  <2>2. EndWithinBound(oldLog, Cut(oldLog))
    BY CutBounds DEF LogInv
  <2> QED BY <2>1, <2>2 DEF LogInv
<1>2. CASE WriteFileFails
  <2>1. pc' = "truncateLogFile" /\ exit' = 1 /\ oldLog' = oldLog
    BY <1>2 DEF WriteFileFails
  <2>2. 1 # -1
    OBVIOUS
  <2> QED BY <2>1, <2>2 DEF LogInv
<1>3. CASE Fatal
  <2>1. pc' = pc /\ exit' = 1 /\ oldLog' = oldLog /\ logFile' = logFile
    BY <1>3 DEF Fatal, logVars
  <2>2. 1 # -1
    OBVIOUS
  <2> QED BY <2>1, <2>2 DEF LogInv
<1>4. CASE /\ oldLog' = oldLog /\ logFile' = logFile
           /\ pc' # "truncateLogFile" /\ pc # "truncateLogFile"
  BY <1>4 DEF LogInv
<1>5. CASE oldLog' = oldLog /\ logFile' = logFile /\ pc' = pc /\ (exit' = -1 => exit = -1)
  BY <1>5 DEF LogInv
<1>6. CASE Start
  BY <1>1, <1>3, <1>4, <1>6 DEF Start, Starting
<1>7. CASE GoDiscovery \/ GoServe \/ Notify \/ DiscoveryEnds \/ Serve \/ ServeFails
  BY <1>3, <1>4, <1>5, <1>7 DEF GoDiscovery, GoServe, Notify, DiscoveryEnds, Serve, ServeFails, logVars
<1>8. CASE Request \/ Answer \/ Signal \/ Stop \/ GracefulStop \/ Exit
  BY <1>4, <1>5, <1>8 DEF Request, Answer, Signal, Stop, GracefulStop, Exit, logVars, Running
<1>9. CASE UNCHANGED vars
  BY <1>5, <1>9 DEF vars
<1> QED BY <1>2, <1>6, <1>7, <1>8, <1>9 DEF Next

(***************************************************************************)
(* truncateLogFile leaves a file of at most maxLogSize bytes that is the   *)
(* end of the one before and begins with a whole line where it can, for    *)
(* every log and every bound.                                              *)
(***************************************************************************)
THEOREM LogBounded == Spec => []LogIsBounded
<1>1. Init => LogInv
  <2>1. SUFFICES ASSUME Init PROVE LogInv
    OBVIOUS
  <2>2. PICK n \in 0 .. MaxOldLog : oldLog \in [1 .. n -> Bytes]
    BY <2>1 DEF Init, Logs, Bytes
  <2>3. n \in Nat
    BY <2>2, CertServerAssumption
  <2>4. oldLog \in Seq(Bytes)
    BY <2>2, <2>3, SeqDef
  <2> QED BY <2>1, <2>4 DEF Init, LogInv
<1>2. LogInv => LogIsBounded
  BY DEF LogInv, EndWithinBound, LogIsBounded
<1> QED BY <1>1, <1>2, LogStep, PTL DEF Spec

-----------------------------------------------------------------------------
(***************************************************************************)
(* The stores of Windows and macOS                                         *)
(***************************************************************************)
\* A call has its twelve fields.
Frame(s) ==
  s = [op |-> s.op, pc |-> s.pc, live |-> s.live, defers |-> s.defers, cached |-> s.cached,
       left |-> s.left, all |-> s.all, out |-> s.out, cert |-> s.cert, todo |-> s.todo,
       result |-> s.result, misuse |-> s.misuse]

\* The releases a function may have deferred, the last first.
NoDefer == <<>>
StoreDefer == <<"store">>
CtxDefer == <<"ctx", "store">>
KeyDefer == <<"key", "ctx", "store">>
ListDefer == <<"list">>

\* Whether the context owns the key.
NotCached == FALSE
IsCached == TRUE

(***************************************************************************)
(* What a call holds at each place, and who will release it: a deferred    *)
(* release, the next call of the enumeration, the close of the store, or   *)
(* the context that has cached the key.                                    *)
(***************************************************************************)
Owned(place, op, live, defers, cached) ==
  LET Holds(l, d, c) == live = l /\ defers = d /\ cached = c IN
  CASE place = "idle" -> Holds({}, NoDefer, NotCached)
    [] place \in {"open", "identities"} -> op \in Ops /\ Holds({}, NoDefer, NotCached)
    [] place = "find" -> op = "SignHash" /\ Holds({"store"}, StoreDefer, NotCached)
    [] place = "enum" ->
         \/ /\ op = "ListCertificates"
            /\ \/ Holds({"store"}, StoreDefer, NotCached)
               \/ Holds({"store", "ctx"}, StoreDefer, NotCached)
               \/ Holds({"store", "ctx", "key"}, StoreDefer, IsCached)
         \/ /\ op = "ListCertificatesByProvider"
            /\ \/ Holds({"store"}, NoDefer, NotCached)
               \/ Holds({"store", "ctx"}, NoDefer, NotCached)
    [] place = "acquire" ->
         \/ op = "ListCertificates" /\ Holds({"store", "ctx"}, StoreDefer, NotCached)
         \/ op = "SignHash" /\ Holds({"store", "ctx"}, CtxDefer, NotCached)
    [] place = "provider" ->
         op = "ListCertificatesByProvider" /\ Holds({"store", "ctx"}, NoDefer, NotCached)
    [] place = "close" ->
         /\ op = "ListCertificatesByProvider"
         /\ Holds({}, NoDefer, NotCached) \/ Holds({"store"}, NoDefer, NotCached)
    [] place = "sign" ->
         /\ op = "SignHash"
         /\ \/ Holds({"store", "ctx", "key"}, CtxDefer, IsCached)
            \/ Holds({"store", "ctx", "key"}, KeyDefer, NotCached)
    [] place \in {"match", "privKey"} -> op = "SignHash" /\ Holds({"list"}, ListDefer, NotCached)
    [] place = "create" -> op = "SignHash" /\ Holds({"list", "privKey"}, ListDefer, NotCached)
    [] place = "copy" -> op = "SignHash" /\ Holds({"list", "sigBuf"}, ListDefer, NotCached)
    [] place = "return" ->
         \/ Holds({}, NoDefer, NotCached)
         \/ Holds({"store"}, StoreDefer, NotCached)
         \/ Holds({"store", "ctx"}, CtxDefer, NotCached)
         \/ Holds({"store", "ctx", "key"}, CtxDefer, IsCached)
         \/ Holds({"store", "ctx", "key"}, KeyDefer, NotCached)
         \/ Holds({"list"}, ListDefer, NotCached)
    [] OTHER -> FALSE

\* A list is there only when the function returns, and that of
\* ListCertificates only when nothing is left.
Whole(s) ==
  /\ s.pc \notin {"return", "idle"} => s.result = "none"
  /\ s.pc = "identities" => s.left = {}
  /\ s.op = "ListCertificates" /\ s.result = "list" => s.left = {}

CallInv(s) ==
  /\ Frame(s) /\ s.misuse = FALSE
  /\ Owned(s.pc, s.op, s.live, s.defers, s.cached)
  /\ Whole(s)

NativeInv ==
  /\ thread = [t \in Threads |-> thread[t]]
  /\ \A t \in Threads : CallInv(thread[t])

-----------------------------------------------------------------------------
\* One and two elements after another one.
LEMMA Before1 ==
  ASSUME NEW S, NEW a \in S, NEW b \in S
  PROVE  <<a>> \o <<b>> = <<a, b>>
<1>1. <<a>> \in Seq(S) /\ <<b>> \in Seq(S)
  OBVIOUS
<1>2. <<a, b>> \in Seq(S)
  OBVIOUS
<1>3. PICK l : l = <<a>> \o <<b>>
  OBVIOUS
<1>4. l \in Seq(S) /\ Len(l) = 2
  BY <1>1, <1>3, ConcatProperties
<1>5. l[1] = a /\ l[2] = b
  BY <1>1, <1>3, ConcatProperties
<1>6. Len(l) = Len(<<a, b>>) /\ \A i \in 1 .. Len(l) : l[i] = <<a, b>>[i]
  BY <1>4, <1>5
<1>7. l = <<a, b>>
  BY <1>2, <1>4, <1>6, SeqEqual
<1> QED BY <1>3, <1>7

LEMMA Before2 ==
  ASSUME NEW S, NEW a \in S, NEW b \in S, NEW c \in S
  PROVE  <<a>> \o <<b, c>> = <<a, b, c>>
<1>1. <<a>> \in Seq(S) /\ <<b, c>> \in Seq(S)
  OBVIOUS
<1>2. <<a, b, c>> \in Seq(S)
  OBVIOUS
<1>3. PICK l : l = <<a>> \o <<b, c>>
  OBVIOUS
<1>4. l \in Seq(S) /\ Len(l) = 3
  BY <1>1, <1>3, ConcatProperties
<1>5. l[1] = a /\ l[2] = b /\ l[3] = c
  BY <1>1, <1>3, ConcatProperties
<1>6. Len(l) = Len(<<a, b, c>>) /\ \A i \in 1 .. Len(l) : l[i] = <<a, b, c>>[i]
  BY <1>4, <1>5
<1>7. l = <<a, b, c>>
  BY <1>2, <1>4, <1>6, SeqEqual
<1> QED BY <1>3, <1>7

\* The deferred releases as sequences.
LEMMA DeferSequences ==
  /\ <<"store">> \o NoDefer = StoreDefer
  /\ <<"list">> \o NoDefer = ListDefer
  /\ <<"ctx">> \o StoreDefer = CtxDefer
  /\ <<"key">> \o CtxDefer = KeyDefer
  /\ Head(StoreDefer) = "store" /\ Tail(StoreDefer) = NoDefer
  /\ Head(CtxDefer) = "ctx" /\ Tail(CtxDefer) = StoreDefer
  /\ Head(KeyDefer) = "key" /\ Tail(KeyDefer) = CtxDefer
  /\ Head(ListDefer) = "list" /\ Tail(ListDefer) = NoDefer
  /\ NoDefer = <<>> /\ StoreDefer # <<>> /\ CtxDefer # <<>> /\ KeyDefer # <<>> /\ ListDefer # <<>>
<1>1. "store" \in Objects /\ "ctx" \in Objects /\ "key" \in Objects
  BY DEF Objects
<1>2. <<"ctx">> \o StoreDefer = CtxDefer /\ <<"key">> \o CtxDefer = KeyDefer
  BY <1>1, Before1, Before2, Zenon DEF StoreDefer, CtxDefer, KeyDefer
<1>3. <<"store">> \o NoDefer = StoreDefer /\ <<"list">> \o NoDefer = ListDefer
  BY DEF NoDefer, StoreDefer, ListDefer
<1>4. /\ Head(StoreDefer) = "store" /\ Tail(StoreDefer) = NoDefer
      /\ Head(CtxDefer) = "ctx" /\ Tail(CtxDefer) = StoreDefer
      /\ Head(KeyDefer) = "key" /\ Tail(KeyDefer) = CtxDefer
      /\ Head(ListDefer) = "list" /\ Tail(ListDefer) = NoDefer
  BY DEF NoDefer, StoreDefer, CtxDefer, KeyDefer, ListDefer
<1> QED BY <1>2, <1>3, <1>4 DEF NoDefer, StoreDefer, CtxDefer, KeyDefer, ListDefer

\* A call that has misused nothing, by its function, what it still has to look
\* at, its result, and what it holds.
CallIs(s, op, left, result, live, defers, cached) ==
  /\ Frame(s) /\ s.misuse = FALSE
  /\ s.op = op /\ s.left = left /\ s.result = result
  /\ s.live = live /\ s.defers = defers /\ s.cached = cached

\* What the operators make of it.
LEMMA UseCall ==
  ASSUME NEW s, NEW op, NEW left, NEW result, NEW live, NEW defers, NEW cached, NEW x,
         CallIs(s, op, left, result, live, defers, cached), x \in live
  PROVE  Use(s, x) = s
<1>1. Frame(s) /\ s.misuse = FALSE /\ x \in s.live
  BY DEF CallIs
<1> QED BY <1>1 DEF Use, Frame

LEMMA ToCall ==
  ASSUME NEW s, NEW op, NEW left, NEW result, NEW live, NEW defers, NEW cached, NEW p,
         CallIs(s, op, left, result, live, defers, cached)
  PROVE  CallIs(To(s, p), op, left, result, live, defers, cached) /\ To(s, p).pc = p
<1>1. PICK u : u = To(s, p)
  OBVIOUS
<1>2. Frame(s) /\ s.misuse = FALSE
  BY DEF CallIs
<1>3. /\ Frame(u) /\ u.op = s.op /\ u.left = s.left /\ u.misuse = FALSE
      /\ u.pc = p /\ u.live = s.live /\ u.defers = s.defers /\ u.cached = s.cached
      /\ u.result = s.result
  BY <1>1, <1>2 DEF To, Frame
<1> QED BY <1>1, <1>3 DEF CallIs

LEMMA ReturnCall ==
  ASSUME NEW s, NEW op, NEW left, NEW result, NEW live, NEW defers, NEW cached, NEW res,
         CallIs(s, op, left, result, live, defers, cached)
  PROVE  CallIs(Return(s, res), op, left, res, live, defers, cached) /\ Return(s, res).pc = "return"
<1>1. PICK u : u = Return(s, res)
  OBVIOUS
<1>2. Frame(s) /\ s.misuse = FALSE
  BY DEF CallIs
<1>3. /\ Frame(u) /\ u.op = s.op /\ u.left = s.left /\ u.misuse = FALSE
      /\ u.pc = "return" /\ u.live = s.live /\ u.defers = s.defers /\ u.cached = s.cached
      /\ u.result = res
  BY <1>1, <1>2 DEF Return, Frame
<1> QED BY <1>1, <1>3 DEF CallIs

LEMMA GetCall ==
  ASSUME NEW s, NEW op, NEW left, NEW result, NEW live, NEW defers, NEW cached, NEW x, NEW more,
         CallIs(s, op, left, result, live, defers, cached), x \notin live, more = live \cup {x}
  PROVE  CallIs(Get(s, x), op, left, result, more, defers, cached)
<1>1. PICK u : u = Get(s, x)
  OBVIOUS
<1>2. Frame(s) /\ s.misuse = FALSE /\ x \notin s.live
  BY DEF CallIs
<1>3. /\ Frame(u) /\ u.op = s.op /\ u.left = s.left /\ u.misuse = FALSE
      /\ u.live = s.live \cup {x} /\ u.defers = s.defers /\ u.cached = s.cached
      /\ u.result = s.result
  BY <1>1, <1>2 DEF Get, Frame
<1> QED BY <1>1, <1>3 DEF CallIs

LEMMA DeferCall ==
  ASSUME NEW s, NEW op, NEW left, NEW result, NEW live, NEW defers, NEW cached, NEW x, NEW more,
         CallIs(s, op, left, result, live, defers, cached), more = <<x>> \o defers
  PROVE  CallIs(Defer(s, x), op, left, result, live, more, cached)
<1>1. PICK u : u = Defer(s, x)
  OBVIOUS
<1>2. Frame(s) /\ s.misuse = FALSE
  BY DEF CallIs
<1>3. /\ Frame(u) /\ u.op = s.op /\ u.left = s.left /\ u.misuse = FALSE
      /\ u.live = s.live /\ u.defers = <<x>> \o s.defers /\ u.cached = s.cached
      /\ u.result = s.result
  BY <1>1, <1>2 DEF Defer, Frame
<1> QED BY <1>1, <1>3 DEF CallIs

LEMMA FreeCall ==
  ASSUME NEW s, NEW op, NEW left, NEW result, NEW live, NEW defers, NEW x, NEW less,
         CallIs(s, op, left, result, live, defers, NotCached), x \in live, less = live \ {x}
  PROVE  CallIs(Free(s, x), op, left, result, less, defers, NotCached)
<1>1. PICK u : u = Free(s, x)
  OBVIOUS
<1>2. Frame(s) /\ s.misuse = FALSE /\ x \in s.live /\ s.cached = FALSE
  BY DEF CallIs, NotCached, IsCached
<1>3. /\ Frame(u) /\ u.op = s.op /\ u.left = s.left /\ u.misuse = FALSE
      /\ u.live = s.live \ {x} /\ u.defers = s.defers /\ u.cached = FALSE
      /\ u.result = s.result
  BY <1>1, <1>2 DEF Free, Frame
<1> QED BY <1>1, <1>3 DEF CallIs, NotCached

\* A context goes with the key cached in it.
LEMMA FreeCached ==
  ASSUME NEW s, NEW op, NEW left, NEW result, NEW live, NEW defers, NEW less,
         CallIs(s, op, left, result, live, defers, IsCached), "ctx" \in live, "key" \in live,
         less = live \ {"ctx", "key"}
  PROVE  CallIs(Free(s, "ctx"), op, left, result, less, defers, NotCached)
<1>1. PICK u : u = Free(s, "ctx")
  OBVIOUS
<1>2. Frame(s) /\ s.misuse = FALSE /\ "ctx" \in s.live /\ "key" \in s.live /\ s.cached = TRUE
  BY DEF CallIs, NotCached, IsCached
<1>3. /\ Frame(u) /\ u.op = s.op /\ u.left = s.left /\ u.misuse = FALSE
      /\ u.live = s.live \ {"ctx", "key"} /\ u.defers = s.defers /\ u.cached = FALSE
      /\ u.result = s.result
  BY <1>1, <1>2 DEF Free, Frame
<1> QED BY <1>1, <1>3 DEF CallIs, NotCached

\* The fields that no object depends on.
LEMMA OpenCall ==
  ASSUME NEW s, NEW op, NEW left, NEW result, NEW live, NEW defers, NEW cached,
         CallIs(s, op, left, result, live, defers, cached), NEW a, NEW b, NEW c
  PROVE  CallIs([s EXCEPT !.todo = a, !.left = b, !.all = c], op, b, result, live, defers, cached)
<1>1. PICK u : u = [s EXCEPT !.todo = a, !.left = b, !.all = c]
  OBVIOUS
<1>2. Frame(s)
  BY DEF CallIs
<1>3. /\ Frame(u) /\ u.op = s.op /\ u.left = b /\ u.misuse = s.misuse
      /\ u.live = s.live /\ u.defers = s.defers /\ u.cached = s.cached /\ u.result = s.result
  BY <1>1, <1>2 DEF Frame
<1> QED BY <1>1, <1>3 DEF CallIs

LEMMA TodoCall ==
  ASSUME NEW s, NEW op, NEW left, NEW result, NEW live, NEW defers, NEW cached,
         CallIs(s, op, left, result, live, defers, cached), NEW a
  PROVE  CallIs([s EXCEPT !.todo = a], op, left, result, live, defers, cached)
<1>1. PICK u : u = [s EXCEPT !.todo = a]
  OBVIOUS
<1>2. Frame(s)
  BY DEF CallIs
<1>3. /\ Frame(u) /\ u.op = s.op /\ u.left = s.left /\ u.misuse = s.misuse
      /\ u.live = s.live /\ u.defers = s.defers /\ u.cached = s.cached /\ u.result = s.result
  BY <1>1, <1>2 DEF Frame
<1> QED BY <1>1, <1>3 DEF CallIs

LEMMA OutCall ==
  ASSUME NEW s, NEW op, NEW left, NEW result, NEW live, NEW defers, NEW cached,
         CallIs(s, op, left, result, live, defers, cached), NEW a
  PROVE  CallIs([s EXCEPT !.out = a], op, left, result, live, defers, cached)
<1>1. PICK u : u = [s EXCEPT !.out = a]
  OBVIOUS
<1>2. Frame(s)
  BY DEF CallIs
<1>3. /\ Frame(u) /\ u.op = s.op /\ u.left = s.left /\ u.misuse = s.misuse
      /\ u.live = s.live /\ u.defers = s.defers /\ u.cached = s.cached /\ u.result = s.result
  BY <1>1, <1>2 DEF Frame
<1> QED BY <1>1, <1>3 DEF CallIs

LEMMA NextCall ==
  ASSUME NEW s, NEW op, NEW left, NEW result, NEW live, NEW defers, NEW cached,
         CallIs(s, op, left, result, live, defers, cached), NEW a, NEW b
  PROVE  CallIs([s EXCEPT !.left = a, !.cert = b], op, a, result, live, defers, cached)
<1>1. PICK u : u = [s EXCEPT !.left = a, !.cert = b]
  OBVIOUS
<1>2. Frame(s)
  BY DEF CallIs
<1>3. /\ Frame(u) /\ u.op = s.op /\ u.left = a /\ u.misuse = s.misuse
      /\ u.live = s.live /\ u.defers = s.defers /\ u.cached = s.cached /\ u.result = s.result
  BY <1>1, <1>2 DEF Frame
<1> QED BY <1>1, <1>3 DEF CallIs

LEMMA IdentitiesCall ==
  ASSUME NEW s, NEW op, NEW left, NEW result, NEW live, NEW defers, NEW cached,
         CallIs(s, op, left, result, live, defers, cached), NEW a, NEW b
  PROVE  CallIs([s EXCEPT !.all = a, !.out = b], op, left, result, live, defers, cached)
<1>1. PICK u : u = [s EXCEPT !.all = a, !.out = b]
  OBVIOUS
<1>2. Frame(s)
  BY DEF CallIs
<1>3. /\ Frame(u) /\ u.op = s.op /\ u.left = s.left /\ u.misuse = s.misuse
      /\ u.live = s.live /\ u.defers = s.defers /\ u.cached = s.cached /\ u.result = s.result
  BY <1>1, <1>2 DEF Frame
<1> QED BY <1>1, <1>3 DEF CallIs

-----------------------------------------------------------------------------
\* A step of a call: its new state, the others as they were.
LEMMA SetStep ==
  ASSUME NativeInv, NEW t \in Threads, NEW u, CallInv(u), Set(t, u)
  PROVE  NativeInv'
<1>1. thread' = [thread EXCEPT ![t] = u]
  BY DEF Set
<1>2. thread' = [r \in Threads |-> thread'[r]]
  BY <1>1 DEF NativeInv
<1>3. \A r \in Threads : CallInv(thread'[r])
  BY <1>1 DEF NativeInv
<1>4. NativeInv' <=> /\ thread' = [r \in Threads |-> thread'[r]]
                     /\ \A r \in Threads : CallInv(thread'[r])
  BY DEF NativeInv
<1> QED BY <1>2, <1>3, <1>4

\* A call at its next place, and one that returns: what it holds must be what
\* is held there.
LEMMA Going ==
  ASSUME NEW s, NEW op, NEW left, NEW live, NEW defers, NEW cached, NEW p,
         CallIs(s, op, left, "none", live, defers, cached), Owned(p, op, live, defers, cached),
         p \notin {"return", "idle", "identities"}
  PROVE  CallInv(To(s, p))
<1>1. PICK u : u = To(s, p)
  OBVIOUS
<1>2. CallIs(u, op, left, "none", live, defers, cached) /\ u.pc = p
  BY <1>1, ToCall
<1>3. Whole(u)
  BY <1>2 DEF Whole, CallIs
<1> QED BY <1>1, <1>2, <1>3 DEF CallInv, CallIs

LEMMA Returning ==
  ASSUME NEW s, NEW op, NEW left, NEW live, NEW defers, NEW cached, NEW result,
         CallIs(s, op, left, "none", live, defers, cached), Owned("return", op, live, defers, cached),
         op = "ListCertificates" /\ result = "list" => left = {}
  PROVE  CallInv(Return(s, result))
<1>1. PICK u : u = Return(s, result)
  OBVIOUS
<1>2. CallIs(u, op, left, result, live, defers, cached) /\ u.pc = "return"
  BY <1>1, ReturnCall
<1>3. Whole(u)
  BY <1>2 DEF Whole, CallIs
<1> QED BY <1>1, <1>2, <1>3 DEF CallInv, CallIs

\* A call under way has no result yet.
LEMMA UnderWay ==
  ASSUME NEW s, CallInv(s), s.pc \notin {"return", "idle"}
  PROVE  CallIs(s, s.op, s.left, "none", s.live, s.defers, s.cached)
BY DEF CallInv, CallIs, Whole

LEMMA CallStep ==
  ASSUME NativeInv, NEW t \in Threads, NEW op \in Ops, NEW c \in Certs, Call(t, op, c)
  PROVE  NativeInv'
<1>1. PICK todo, cert, result, p :
        /\ Set(t, [NoCall EXCEPT !.op = op, !.cert = cert, !.result = result, !.pc = p,
                                 !.todo = todo])
        /\ \/ p = "return" /\ result = "file store"
           \/ p \in {"open", "identities"} /\ result = "none"
  BY DEF Call
<1>2. PICK u : u = [NoCall EXCEPT !.op = op, !.cert = cert, !.result = result, !.pc = p,
                                  !.todo = todo]
  OBVIOUS
<1>3. u = [op |-> op, pc |-> p, live |-> {}, defers |-> NoDefer, cached |-> NotCached,
           left |-> {}, all |-> {}, out |-> {}, cert |-> cert, todo |-> todo, result |-> result,
           misuse |-> FALSE]
  BY <1>2 DEF NoCall, NoDefer, NotCached
<1>4. /\ Frame(u) /\ u.misuse = FALSE /\ u.op = op /\ u.pc = p
      /\ u.live = {} /\ u.defers = NoDefer /\ u.cached = NotCached
      /\ u.left = {} /\ u.result = result
  BY <1>3 DEF Frame
<1>5. Owned(p, op, {}, NoDefer, NotCached)
  BY <1>1 DEF Owned
<1>6. Whole(u)
  BY <1>1, <1>4 DEF Whole
<1>7. CallInv(u)
  BY <1>4, <1>5, <1>6 DEF CallInv
<1> QED BY <1>1, <1>2, <1>7, SetStep

\* A store that opens is held; one that does not is passed over or ends the
\* call.
LEMMA OpenStoreStep ==
  ASSUME NativeInv, NEW t \in Threads, OpenStore(t)
  PROVE  NativeInv'
<1>1. PICK s : s = thread[t]
  OBVIOUS
<1>2. CallInv(s) /\ s.pc = "open"
  BY <1>1 DEF NativeInv, OpenStore, At
<1>3. s.live = {} /\ s.defers = NoDefer /\ s.cached = NotCached /\ s.op \in Ops
  BY <1>2 DEF CallInv, Owned
<1>4. CallIs(s, s.op, s.left, "none", {}, NoDefer, NotCached)
  BY <1>2, <1>3, UnderWay
<1>5. PICK l \in s.todo :
        LET r == [s EXCEPT !.todo = @ \ {l}, !.left = stores[l], !.all = @ \cup stores[l]]
            byProvider == r.op = "ListCertificatesByProvider"
            opened == IF byProvider THEN Get(r, "store") ELSE Defer(Get(r, "store"), "store")
        IN  \/ Set(t, To(opened, IF r.op = "SignHash" THEN "find" ELSE "enum"))
            \/ Set(t, IF ~byProvider THEN Return(s, "error")
                      ELSE To([s EXCEPT !.todo = @ \ {l}], "close"))
  BY <1>1 DEF OpenStore, Here
<1>6. PICK r : r = [s EXCEPT !.todo = @ \ {l}, !.left = stores[l], !.all = @ \cup stores[l]]
  OBVIOUS
<1>7. CallIs(r, s.op, stores[l], "none", {}, NoDefer, NotCached)
  BY <1>4, <1>6, OpenCall
<1>8. r.op = s.op
  BY <1>7 DEF CallIs
<1>9. CallIs(Get(r, "store"), s.op, stores[l], "none", {"store"}, NoDefer, NotCached)
  BY <1>7, GetCall
<1>10. CallIs(Defer(Get(r, "store"), "store"), s.op, stores[l], "none", {"store"}, StoreDefer,
              NotCached)
  BY <1>9, DeferCall, DeferSequences
<1>11. CASE /\ s.op = "ListCertificatesByProvider"
            /\ Set(t, To(Get(r, "store"), "enum"))
  <2>1. Owned("enum", s.op, {"store"}, NoDefer, NotCached)
    BY <1>11 DEF Owned
  <2>2. CallInv(To(Get(r, "store"), "enum"))
    BY <1>9, <2>1, Going
  <2> QED BY <1>11, <2>2, SetStep
<1>12. CASE /\ s.op = "ListCertificates"
            /\ Set(t, To(Defer(Get(r, "store"), "store"), "enum"))
  <2>1. Owned("enum", s.op, {"store"}, StoreDefer, NotCached)
    BY <1>12 DEF Owned
  <2>2. CallInv(To(Defer(Get(r, "store"), "store"), "enum"))
    BY <1>10, <2>1, Going
  <2> QED BY <1>12, <2>2, SetStep
<1>13. CASE /\ s.op = "SignHash"
            /\ Set(t, To(Defer(Get(r, "store"), "store"), "find"))
  <2>1. Owned("find", s.op, {"store"}, StoreDefer, NotCached)
    BY <1>13 DEF Owned
  <2>2. CallInv(To(Defer(Get(r, "store"), "store"), "find"))
    BY <1>10, <2>1, Going
  <2> QED BY <1>13, <2>2, SetStep
<1>14. CASE Set(t, Return(s, "error"))
  <2>1. Owned("return", s.op, {}, NoDefer, NotCached)
    BY DEF Owned
  <2>2. CallInv(Return(s, "error"))
    BY <1>4, <2>1, Returning
  <2> QED BY <1>14, <2>2, SetStep
<1>15. CASE /\ s.op = "ListCertificatesByProvider"
            /\ Set(t, To([s EXCEPT !.todo = @ \ {l}], "close"))
  <2>1. CallIs([s EXCEPT !.todo = @ \ {l}], s.op, s.left, "none", {}, NoDefer, NotCached)
    BY <1>4, TodoCall
  <2>2. Owned("close", s.op, {}, NoDefer, NotCached)
    BY <1>15 DEF Owned
  <2>3. CallInv(To([s EXCEPT !.todo = @ \ {l}], "close"))
    BY <2>1, <2>2, Going
  <2> QED BY <1>15, <2>3, SetStep
<1> QED
  BY <1>3, <1>5, <1>6, <1>8, <1>11, <1>12, <1>13, <1>14, <1>15 DEF Ops

\* The next call of the enumeration frees the context, with a key cached in it.
LEMMA FreedCall ==
  ASSUME NEW s, CallInv(s), s.pc = "enum"
  PROVE  \/ /\ s.op = "ListCertificates"
            /\ CallIs(Freed(s), s.op, s.left, "none", {"store"}, StoreDefer, NotCached)
         \/ /\ s.op = "ListCertificatesByProvider"
            /\ CallIs(Freed(s), s.op, s.left, "none", {"store"}, NoDefer, NotCached)
<1>1. CallIs(s, s.op, s.left, "none", s.live, s.defers, s.cached)
  BY UnderWay
<1>2. \/ /\ s.op = "ListCertificates" /\ s.defers = StoreDefer
         /\ \/ s.live = {"store"} /\ s.cached = NotCached
            \/ s.live = {"store", "ctx"} /\ s.cached = NotCached
            \/ s.live = {"store", "ctx", "key"} /\ s.cached = IsCached
      \/ /\ s.op = "ListCertificatesByProvider" /\ s.defers = NoDefer
         /\ \/ s.live = {"store"} /\ s.cached = NotCached
            \/ s.live = {"store", "ctx"} /\ s.cached = NotCached
  BY DEF CallInv, Owned
<1>3. CallIs(Freed(s), s.op, s.left, "none", {"store"}, s.defers, NotCached)
  <2>1. CASE s.live = {"store"} /\ s.cached = NotCached
    BY <1>1, <2>1 DEF Freed
  <2>2. CASE s.live = {"store", "ctx"} /\ s.cached = NotCached
    <3>1. Freed(s) = Free(s, "ctx")
      BY <2>2 DEF Freed
    <3>2. CallIs(s, s.op, s.left, "none", {"store", "ctx"}, s.defers, NotCached)
      BY <1>1, <2>2
    <3>3. {"store"} = {"store", "ctx"} \ {"ctx"}
      OBVIOUS
    <3> QED BY <3>1, <3>2, <3>3, FreeCall
  <2>3. CASE s.live = {"store", "ctx", "key"} /\ s.cached = IsCached
    <3>1. Freed(s) = Free(s, "ctx")
      BY <2>3 DEF Freed
    <3>2. CallIs(s, s.op, s.left, "none", {"store", "ctx", "key"}, s.defers, IsCached)
      BY <1>1, <2>3
    <3>3. {"store"} = {"store", "ctx", "key"} \ {"ctx", "key"}
      OBVIOUS
    <3> QED BY <3>1, <3>2, <3>3, FreeCached
  <2> QED BY <1>2, <2>1, <2>2, <2>3
<1> QED BY <1>2, <1>3

\* The enumeration fails, or has come to its end.
LEMMA EnumOverStep ==
  ASSUME NativeInv, NEW t \in Threads, EnumFails(t) \/ EnumEnd(t)
  PROVE  NativeInv'
<1>1. PICK s : s = thread[t]
  OBVIOUS
<1>2. CallInv(s) /\ s.pc = "enum"
  BY <1>1 DEF NativeInv, EnumFails, EnumEnd, At
<1>3. PICK result :
        /\ Set(t, IF s.op = "ListCertificates" THEN Return(Freed(s), result)
                  ELSE To(Freed(s), "close"))
        /\ result = "error" \/ s.left = {}
  BY <1>1 DEF EnumFails, EnumEnd, Here
<1>4. CASE /\ s.op = "ListCertificates"
           /\ CallIs(Freed(s), s.op, s.left, "none", {"store"}, StoreDefer, NotCached)
  <2>1. Owned("return", s.op, {"store"}, StoreDefer, NotCached)
    BY DEF Owned
  <2>2. CallInv(Return(Freed(s), result))
    BY <1>3, <1>4, <2>1, Returning
  <2> QED BY <1>3, <1>4, <2>2, SetStep
<1>5. CASE /\ s.op = "ListCertificatesByProvider"
           /\ CallIs(Freed(s), s.op, s.left, "none", {"store"}, NoDefer, NotCached)
  <2>1. Owned("close", s.op, {"store"}, NoDefer, NotCached)
    BY <1>5 DEF Owned
  <2>2. CallInv(To(Freed(s), "close"))
    BY <1>5, <2>1, Going
  <2> QED BY <1>3, <1>5, <2>2, SetStep
<1> QED BY <1>2, <1>4, <1>5, FreedCall

LEMMA EnumNextStep ==
  ASSUME NativeInv, NEW t \in Threads, EnumNext(t)
  PROVE  NativeInv'
<1>1. PICK s : s = thread[t]
  OBVIOUS
<1>2. CallInv(s) /\ s.pc = "enum"
  BY <1>1 DEF NativeInv, EnumNext, At
<1>3. PICK f : f = Freed(s)
  OBVIOUS
<1>4. PICK defers :
        /\ CallIs(f, s.op, s.left, "none", {"store"}, defers, NotCached)
        /\ \/ s.op = "ListCertificates" /\ defers = StoreDefer
           \/ s.op = "ListCertificatesByProvider" /\ defers = NoDefer
  BY <1>2, <1>3, FreedCall
<1>5. Use(f, "store") = f
  BY <1>4, UseCall
<1>6. PICK g : g = Get(f, "ctx")
  OBVIOUS
<1>7. CallIs(g, s.op, s.left, "none", {"store", "ctx"}, defers, NotCached)
  <2>1. {"store", "ctx"} = {"store"} \cup {"ctx"} /\ "ctx" \notin {"store"}
    OBVIOUS
  <2> QED BY <1>4, <1>6, <2>1, GetCall
<1>8. PICK c : LET r == [g EXCEPT !.left = @ \ {c}, !.cert = {c}] IN
               Set(t, To(r, IF r.op = "ListCertificates" THEN "acquire" ELSE "provider"))
  BY <1>1, <1>3, <1>5, <1>6 DEF EnumNext, Here
<1>9. PICK r : r = [g EXCEPT !.left = @ \ {c}, !.cert = {c}]
  OBVIOUS
<1>10. PICK left : CallIs(r, s.op, left, "none", {"store", "ctx"}, defers, NotCached)
  BY <1>7, <1>9, NextCall
<1>11. r.op = s.op
  BY <1>10 DEF CallIs
<1>12. CASE s.op = "ListCertificates"
  <2>1. Owned("acquire", s.op, {"store", "ctx"}, defers, NotCached)
    BY <1>4, <1>12 DEF Owned
  <2>2. CallInv(To(r, "acquire"))
    BY <1>10, <2>1, Going
  <2> QED BY <1>8, <1>9, <1>11, <1>12, <2>2, SetStep
<1>13. CASE s.op = "ListCertificatesByProvider"
  <2>1. Owned("provider", s.op, {"store", "ctx"}, defers, NotCached)
    BY <1>4, <1>13 DEF Owned
  <2>2. CallInv(To(r, "provider"))
    BY <1>10, <2>1, Going
  <2> QED BY <1>8, <1>9, <1>11, <1>13, <2>2, SetStep
<1> QED BY <1>4, <1>12, <1>13

LEMMA ProviderStep ==
  ASSUME NativeInv, NEW t \in Threads, Provider(t)
  PROVE  NativeInv'
<1>1. PICK s : s = thread[t]
  OBVIOUS
<1>2. CallInv(s) /\ s.pc = "provider"
  BY <1>1 DEF NativeInv, Provider, At
<1>3. /\ s.live = {"store", "ctx"} /\ s.defers = NoDefer /\ s.cached = NotCached
      /\ s.op = "ListCertificatesByProvider"
  BY <1>2 DEF CallInv, Owned
<1>4. CallIs(s, s.op, s.left, "none", {"store", "ctx"}, NoDefer, NotCached)
  BY <1>2, <1>3, UnderWay
<1>5. Use(s, "ctx") = s
  BY <1>4, UseCall
<1>6. Set(t, To([s EXCEPT !.out = @ \cup s.cert], "enum")) \/ Set(t, To(s, "enum"))
  BY <1>1, <1>5 DEF Provider, Here, CertInfoFromContextWithoutKeyCheck
<1>7. Owned("enum", s.op, {"store", "ctx"}, NoDefer, NotCached)
  BY <1>3 DEF Owned
<1>8. CallIs([s EXCEPT !.out = @ \cup s.cert], s.op, s.left, "none", {"store", "ctx"}, NoDefer,
             NotCached)
  BY <1>4, OutCall
<1>9. CallInv(To([s EXCEPT !.out = @ \cup s.cert], "enum")) /\ CallInv(To(s, "enum"))
  BY <1>4, <1>7, <1>8, Going
<1> QED BY <1>6, <1>9, SetStep

LEMMA CloseStoreStep ==
  ASSUME NativeInv, NEW t \in Threads, CloseStore(t)
  PROVE  NativeInv'
<1>1. PICK s : s = thread[t]
  OBVIOUS
<1>2. CallInv(s) /\ s.pc = "close"
  BY <1>1 DEF NativeInv, CloseStore, At
<1>3. /\ s.live = {} \/ s.live = {"store"}
      /\ s.defers = NoDefer /\ s.cached = NotCached /\ s.op = "ListCertificatesByProvider"
  BY <1>2 DEF CallInv, Owned
<1>4. CallIs(s, s.op, s.left, "none", s.live, NoDefer, NotCached)
  BY <1>2, <1>3, UnderWay
<1>5. PICK f : f = IF "store" \in s.live THEN Free(s, "store") ELSE s
  OBVIOUS
<1>6. CallIs(f, s.op, s.left, "none", {}, NoDefer, NotCached)
  <2>1. CASE s.live = {}
    BY <1>4, <1>5, <2>1
  <2>2. CASE s.live = {"store"}
    <3>1. f = Free(s, "store")
      BY <1>5, <2>2
    <3>2. CallIs(s, s.op, s.left, "none", {"store"}, NoDefer, NotCached)
      BY <1>4, <2>2
    <3>3. {} = {"store"} \ {"store"}
      OBVIOUS
    <3> QED BY <3>1, <3>2, <3>3, FreeCall
  <2> QED BY <1>3, <2>1, <2>2
<1>7. Set(t, To(f, "open")) \/ Set(t, Return(f, "list"))
  BY <1>1, <1>5 DEF CloseStore, Here
<1>8. Owned("open", s.op, {}, NoDefer, NotCached) /\ Owned("return", s.op, {}, NoDefer, NotCached)
  BY <1>3 DEF Owned, Ops
<1>9. CallInv(To(f, "open"))
  BY <1>6, <1>8, Going
<1>10. CallInv(Return(f, "list"))
  BY <1>3, <1>6, <1>8, Returning
<1> QED BY <1>7, <1>9, <1>10, SetStep

\* SignHash has the certificate, with its release deferred, or returns.
LEMMA FindCertStep ==
  ASSUME NativeInv, NEW t \in Threads, FindCert(t)
  PROVE  NativeInv'
<1>1. PICK s : s = thread[t]
  OBVIOUS
<1>2. CallInv(s) /\ s.pc = "find"
  BY <1>1 DEF NativeInv, FindCert, At
<1>3. s.live = {"store"} /\ s.defers = StoreDefer /\ s.cached = NotCached /\ s.op = "SignHash"
  BY <1>2 DEF CallInv, Owned
<1>4. CallIs(s, s.op, s.left, "none", {"store"}, StoreDefer, NotCached)
  BY <1>2, <1>3, UnderWay
<1>5. Use(s, "store") = s
  BY <1>4, UseCall
<1>6. \/ Set(t, To(Defer(Get(s, "ctx"), "ctx"), "acquire"))
      \/ Set(t, Return(s, "ErrCertificateNotFound"))
  BY <1>1, <1>5 DEF FindCert, Here
<1>7. CallIs(Get(s, "ctx"), s.op, s.left, "none", {"store", "ctx"}, StoreDefer, NotCached)
  <2>1. {"store", "ctx"} = {"store"} \cup {"ctx"} /\ "ctx" \notin {"store"}
    OBVIOUS
  <2> QED BY <1>4, <2>1, GetCall
<1>8. CallIs(Defer(Get(s, "ctx"), "ctx"), s.op, s.left, "none", {"store", "ctx"}, CtxDefer,
             NotCached)
  BY <1>7, DeferCall, DeferSequences
<1>9. /\ Owned("acquire", s.op, {"store", "ctx"}, CtxDefer, NotCached)
      /\ Owned("return", s.op, {"store"}, StoreDefer, NotCached)
  BY <1>3 DEF Owned
<1>10. CallInv(To(Defer(Get(s, "ctx"), "ctx"), "acquire"))
  BY <1>8, <1>9, Going
<1>11. CallInv(Return(s, "ErrCertificateNotFound"))
  BY <1>3, <1>4, <1>9, Returning
<1> QED BY <1>6, <1>10, <1>11, SetStep

LEMMA CachedCall ==
  ASSUME NEW s, NEW op, NEW left, NEW result, NEW live, NEW defers, NEW cached,
         CallIs(s, op, left, result, live, defers, cached), NEW a
  PROVE  CallIs([s EXCEPT !.cached = a], op, left, result, live, defers, a)
<1>1. PICK u : u = [s EXCEPT !.cached = a]
  OBVIOUS
<1>2. Frame(s)
  BY DEF CallIs
<1>3. /\ Frame(u) /\ u.op = s.op /\ u.left = s.left /\ u.misuse = s.misuse
      /\ u.live = s.live /\ u.defers = s.defers /\ u.cached = a /\ u.result = s.result
  BY <1>1, <1>2 DEF Frame
<1> QED BY <1>1, <1>3 DEF CallIs

\* A key of its own is released, by hasPrivateKey or by a deferred release; a
\* cached one is left to its context.
LEMMA AcquirePrivateKeyStep ==
  ASSUME NativeInv, NEW t \in Threads, AcquirePrivateKey(t)
  PROVE  NativeInv'
<1>1. PICK s : s = thread[t]
  OBVIOUS
<1>2. CallInv(s) /\ s.pc = "acquire"
  BY <1>1 DEF NativeInv, AcquirePrivateKey, At
<1>3. /\ s.live = {"store", "ctx"} /\ s.cached = NotCached
      /\ \/ s.op = "ListCertificates" /\ s.defers = StoreDefer
         \/ s.op = "SignHash" /\ s.defers = CtxDefer
  BY <1>2 DEF CallInv, Owned
<1>4. CallIs(s, s.op, s.left, "none", {"store", "ctx"}, s.defers, NotCached)
  BY <1>2, <1>3, UnderWay
<1>5. Use(s, "ctx") = s
  BY <1>4, UseCall
<1>6. CallIs(Get(s, "key"), s.op, s.left, "none", {"store", "ctx", "key"}, s.defers, NotCached)
  <2>1. {"store", "ctx", "key"} = {"store", "ctx"} \cup {"key"} /\ "key" \notin {"store", "ctx"}
    OBVIOUS
  <2> QED BY <1>4, <2>1, GetCall
<1>7. CASE Set(t, IF s.op = "ListCertificates" THEN To(s, "enum") ELSE Return(s, "ErrNoPrivateKey"))
  <2>1. CASE s.op = "ListCertificates"
    <3>1. Owned("enum", s.op, {"store", "ctx"}, s.defers, NotCached)
      BY <1>3, <2>1 DEF Owned
    <3>2. CallInv(To(s, "enum"))
      BY <1>4, <3>1, Going
    <3> QED BY <1>7, <2>1, <3>2, SetStep
  <2>2. CASE s.op = "SignHash"
    <3>1. Owned("return", s.op, {"store", "ctx"}, s.defers, NotCached)
      BY <1>3, <2>2 DEF Owned
    <3>2. CallInv(Return(s, "ErrNoPrivateKey"))
      BY <1>4, <2>2, <3>1, Returning
    <3> QED BY <1>7, <2>2, <3>2, SetStep
  <2> QED BY <1>3, <2>1, <2>2
<1>8. ASSUME NEW cached \in BOOLEAN, NEW k, k = [Get(s, "key") EXCEPT !.cached = cached],
             IF k.op = "ListCertificates"
             THEN \E listed \in CertInfoFromContext(k) : Set(t, To(listed, "enum"))
             ELSE Set(t, To(IF cached THEN k ELSE Defer(k, "key"), "sign"))
      PROVE  NativeInv'
  <2>1. CallIs(k, s.op, s.left, "none", {"store", "ctx", "key"}, s.defers, cached)
    BY <1>6, <1>8, CachedCall
  <2>2. k.op = s.op /\ k.cached = cached
    BY <2>1 DEF CallIs
  <2>3. CASE s.op = "ListCertificates"
    <3>1. PICK h : h = HasPrivateKey(k)
      OBVIOUS
    <3>2. PICK live, c : /\ CallIs(h, s.op, s.left, "none", live, s.defers, c)
                         /\ Owned("enum", s.op, live, s.defers, c)
      <4>1. CASE cached
        <5>1. h = k
          BY <2>2, <3>1, <4>1 DEF HasPrivateKey
        <5>2. cached = IsCached
          BY <4>1 DEF IsCached
        <5>3. Owned("enum", s.op, {"store", "ctx", "key"}, s.defers, IsCached)
          BY <1>3, <2>3 DEF Owned
        <5> QED BY <2>1, <5>1, <5>2, <5>3
      <4>2. CASE ~cached
        <5>1. h = Free(k, "key")
          BY <2>2, <3>1, <4>2 DEF HasPrivateKey
        <5>2. cached = NotCached
          BY <4>2 DEF NotCached
        <5>3. {"store", "ctx"} = {"store", "ctx", "key"} \ {"key"}
              /\ "key" \in {"store", "ctx", "key"}
          OBVIOUS
        <5>4. CallIs(h, s.op, s.left, "none", {"store", "ctx"}, s.defers, NotCached)
          BY <2>1, <5>1, <5>2, <5>3, FreeCall
        <5>5. Owned("enum", s.op, {"store", "ctx"}, s.defers, NotCached)
          BY <1>3, <2>3 DEF Owned
        <5> QED BY <5>4, <5>5
      <4> QED BY <4>1, <4>2
    <3>3. \/ Set(t, To(h, "enum"))
          \/ Set(t, To([h EXCEPT !.out = @ \cup k.cert], "enum"))
      BY <1>8, <2>2, <2>3, <3>1 DEF CertInfoFromContext
    <3>4. CallIs([h EXCEPT !.out = @ \cup k.cert], s.op, s.left, "none", live, s.defers, c)
      BY <3>2, OutCall
    <3>5. CallInv(To(h, "enum")) /\ CallInv(To([h EXCEPT !.out = @ \cup k.cert], "enum"))
      BY <3>2, <3>4, Going
    <3> QED BY <3>3, <3>5, SetStep
  <2>4. CASE s.op = "SignHash"
    <3>1. CASE cached
      <4>1. cached = IsCached
        BY <3>1 DEF IsCached
      <4>2. Owned("sign", s.op, {"store", "ctx", "key"}, s.defers, IsCached)
        BY <1>3, <2>4 DEF Owned
      <4>3. CallInv(To(k, "sign"))
        BY <2>1, <4>1, <4>2, Going
      <4>4. Set(t, To(k, "sign"))
        BY <1>8, <2>2, <2>4, <3>1
      <4> QED BY <4>3, <4>4, SetStep
    <3>2. CASE ~cached
      <4>1. cached = NotCached
        BY <3>2 DEF NotCached
      <4>2. s.defers = CtxDefer
        BY <1>3, <2>4
      <4>3. CallIs(Defer(k, "key"), s.op, s.left, "none", {"store", "ctx", "key"}, KeyDefer,
                   NotCached)
        BY <2>1, <4>1, <4>2, DeferCall, DeferSequences
      <4>4. Owned("sign", s.op, {"store", "ctx", "key"}, KeyDefer, NotCached)
        BY <2>4 DEF Owned
      <4>5. CallInv(To(Defer(k, "key"), "sign"))
        BY <4>3, <4>4, Going
      <4>6. Set(t, To(Defer(k, "key"), "sign"))
        BY <1>8, <2>2, <2>4, <3>2
      <4> QED BY <4>5, <4>6, SetStep
    <3> QED BY <3>1, <3>2
  <2> QED BY <1>3, <2>3, <2>4
<1> QED
  BY <1>1, <1>5, <1>7, <1>8 DEF AcquirePrivateKey, Here

LEMMA SignHashWithCertStep ==
  ASSUME NativeInv, NEW t \in Threads, SignHashWithCert(t)
  PROVE  NativeInv'
<1>1. PICK s : s = thread[t]
  OBVIOUS
<1>2. CallInv(s) /\ s.pc = "sign"
  BY <1>1 DEF NativeInv, SignHashWithCert, At
<1>3. /\ s.live = {"store", "ctx", "key"} /\ s.op = "SignHash"
      /\ \/ s.defers = CtxDefer /\ s.cached = IsCached
         \/ s.defers = KeyDefer /\ s.cached = NotCached
  BY <1>2 DEF CallInv, Owned
<1>4. CallIs(s, s.op, s.left, "none", s.live, s.defers, s.cached)
  BY <1>2, UnderWay
<1>5. Use(s, "key") = s
  BY <1>3, <1>4, UseCall
<1>6. PICK result : Set(t, Return(s, result))
  BY <1>1, <1>5 DEF SignHashWithCert, Here
<1>7. Owned("return", s.op, s.live, s.defers, s.cached)
  BY <1>3 DEF Owned
<1>8. CallInv(Return(s, result))
  BY <1>3, <1>4, <1>7, Returning
<1> QED BY <1>6, <1>8, SetStep

\* The list of identities is held with its release deferred; nothing is left
\* to look at.
LEMMA GetIdentitiesStep ==
  ASSUME NativeInv, NEW t \in Threads, GetIdentities(t)
  PROVE  NativeInv'
<1>1. PICK s : s = thread[t]
  OBVIOUS
<1>2. CallInv(s) /\ s.pc = "identities"
  BY <1>1 DEF NativeInv, GetIdentities, At
<1>3. /\ s.live = {} /\ s.defers = NoDefer /\ s.cached = NotCached /\ s.op \in Ops
      /\ s.left = {}
  BY <1>2 DEF CallInv, Owned, Whole
<1>4. CallIs(s, s.op, {}, "none", {}, NoDefer, NotCached)
  BY <1>2, <1>3, UnderWay
<1>5. CallIs(Get(s, "list"), s.op, {}, "none", {"list"}, NoDefer, NotCached)
  BY <1>4, GetCall
<1>6. PICK d : d = Defer(Get(s, "list"), "list")
  OBVIOUS
<1>7. CallIs(d, s.op, {}, "none", {"list"}, ListDefer, NotCached)
  BY <1>5, <1>6, DeferCall, DeferSequences
<1>8. PICK certs, parsed :
        LET r == [d EXCEPT !.all = certs, !.out = parsed] IN
        Set(t, CASE r.op = "ListCertificates" -> Return(r, "list")
                 [] r.op = "ListCertificatesByProvider" ->
                      Return([r EXCEPT !.out = @ \cap OfProvider], "list")
                 [] r.op = "SignHash" -> To(r, "match"))
  BY <1>1, <1>6 DEF GetIdentities, Here
<1>9. PICK r : r = [d EXCEPT !.all = certs, !.out = parsed]
  OBVIOUS
<1>10. CallIs(r, s.op, {}, "none", {"list"}, ListDefer, NotCached)
  BY <1>7, <1>9, IdentitiesCall
<1>11. CallIs([r EXCEPT !.out = @ \cap OfProvider], s.op, {}, "none", {"list"}, ListDefer, NotCached)
  BY <1>10, OutCall
<1>12. r.op = s.op
  BY <1>10 DEF CallIs
<1>13. Owned("return", s.op, {"list"}, ListDefer, NotCached)
  BY DEF Owned
<1>14. CallInv(Return(r, "list")) /\ CallInv(Return([r EXCEPT !.out = @ \cap OfProvider], "list"))
  BY <1>10, <1>11, <1>13, Returning
<1>15. s.op = "SignHash" => CallInv(To(r, "match"))
  <2>1. SUFFICES ASSUME s.op = "SignHash" PROVE CallInv(To(r, "match"))
    OBVIOUS
  <2>2. Owned("match", s.op, {"list"}, ListDefer, NotCached)
    BY <2>1 DEF Owned
  <2> QED BY <1>10, <2>2, Going
<1>16. \/ Set(t, Return(r, "list")) \/ Set(t, Return([r EXCEPT !.out = @ \cap OfProvider], "list"))
       \/ s.op = "SignHash" /\ Set(t, To(r, "match"))
  BY <1>3, <1>8, <1>9, <1>12 DEF Ops
<1> QED BY <1>14, <1>15, <1>16, SetStep

LEMMA MatchStep ==
  ASSUME NativeInv, NEW t \in Threads, Match(t)
  PROVE  NativeInv'
<1>1. PICK s : s = thread[t]
  OBVIOUS
<1>2. CallInv(s) /\ s.pc = "match"
  BY <1>1 DEF NativeInv, Match, At
<1>3. s.live = {"list"} /\ s.defers = ListDefer /\ s.cached = NotCached /\ s.op = "SignHash"
  BY <1>2 DEF CallInv, Owned
<1>4. CallIs(s, s.op, s.left, "none", {"list"}, ListDefer, NotCached)
  BY <1>2, <1>3, UnderWay
<1>5. Set(t, To(s, "privKey")) \/ Set(t, Return(s, "error"))
  BY <1>1 DEF Match, Here
<1>6. /\ Owned("privKey", s.op, {"list"}, ListDefer, NotCached)
      /\ Owned("return", s.op, {"list"}, ListDefer, NotCached)
  BY <1>3 DEF Owned
<1>7. CallInv(To(s, "privKey"))
  BY <1>4, <1>6, Going
<1>8. CallInv(Return(s, "error"))
  BY <1>4, <1>6, Returning
<1> QED BY <1>5, <1>7, <1>8, SetStep

LEMMA CopyPrivateKeyStep ==
  ASSUME NativeInv, NEW t \in Threads, CopyPrivateKey(t)
  PROVE  NativeInv'
<1>1. PICK s : s = thread[t]
  OBVIOUS
<1>2. CallInv(s) /\ s.pc = "privKey"
  BY <1>1 DEF NativeInv, CopyPrivateKey, At
<1>3. s.live = {"list"} /\ s.defers = ListDefer /\ s.cached = NotCached /\ s.op = "SignHash"
  BY <1>2 DEF CallInv, Owned
<1>4. CallIs(s, s.op, s.left, "none", {"list"}, ListDefer, NotCached)
  BY <1>2, <1>3, UnderWay
<1>5. Use(s, "list") = s
  BY <1>4, UseCall
<1>6. CallIs(Get(s, "privKey"), s.op, s.left, "none", {"list", "privKey"}, ListDefer, NotCached)
  <2>1. {"list", "privKey"} = {"list"} \cup {"privKey"} /\ "privKey" \notin {"list"}
    OBVIOUS
  <2> QED BY <1>4, <2>1, GetCall
<1>7. Set(t, To(Get(s, "privKey"), "create")) \/ Set(t, Return(s, "error"))
  BY <1>1, <1>5 DEF CopyPrivateKey, Here
<1>8. /\ Owned("create", s.op, {"list", "privKey"}, ListDefer, NotCached)
      /\ Owned("return", s.op, {"list"}, ListDefer, NotCached)
  BY <1>3 DEF Owned
<1>9. CallInv(To(Get(s, "privKey"), "create"))
  BY <1>6, <1>8, Going
<1>10. CallInv(Return(s, "error"))
  BY <1>4, <1>8, Returning
<1> QED BY <1>7, <1>9, <1>10, SetStep

LEMMA CreateSignatureStep ==
  ASSUME NativeInv, NEW t \in Threads, CreateSignature(t)
  PROVE  NativeInv'
<1>1. PICK s : s = thread[t]
  OBVIOUS
<1>2. CallInv(s) /\ s.pc = "create"
  BY <1>1 DEF NativeInv, CreateSignature, At
<1>3. /\ s.live = {"list", "privKey"} /\ s.defers = ListDefer /\ s.cached = NotCached
      /\ s.op = "SignHash"
  BY <1>2 DEF CallInv, Owned
<1>4. CallIs(s, s.op, s.left, "none", {"list", "privKey"}, ListDefer, NotCached)
  BY <1>2, <1>3, UnderWay
<1>5. Use(s, "privKey") = s
  BY <1>4, UseCall
<1>6. PICK f : f = Free(s, "privKey")
  OBVIOUS
<1>7. CallIs(f, s.op, s.left, "none", {"list"}, ListDefer, NotCached)
  <2>1. {"list"} = {"list", "privKey"} \ {"privKey"} /\ "privKey" \in {"list", "privKey"}
    OBVIOUS
  <2> QED BY <1>4, <1>6, <2>1, FreeCall
<1>8. CallIs(Get(f, "sigBuf"), s.op, s.left, "none", {"list", "sigBuf"}, ListDefer, NotCached)
  <2>1. {"list", "sigBuf"} = {"list"} \cup {"sigBuf"} /\ "sigBuf" \notin {"list"}
    OBVIOUS
  <2> QED BY <1>7, <2>1, GetCall
<1>9. Set(t, To(Get(f, "sigBuf"), "copy")) \/ Set(t, Return(f, "error"))
  BY <1>1, <1>5, <1>6 DEF CreateSignature, Here
<1>10. /\ Owned("copy", s.op, {"list", "sigBuf"}, ListDefer, NotCached)
       /\ Owned("return", s.op, {"list"}, ListDefer, NotCached)
  BY <1>3 DEF Owned
<1>11. CallInv(To(Get(f, "sigBuf"), "copy"))
  BY <1>8, <1>10, Going
<1>12. CallInv(Return(f, "error"))
  BY <1>7, <1>10, Returning
<1> QED BY <1>9, <1>11, <1>12, SetStep

LEMMA CopySignatureStep ==
  ASSUME NativeInv, NEW t \in Threads, CopySignature(t)
  PROVE  NativeInv'
<1>1. PICK s : s = thread[t]
  OBVIOUS
<1>2. CallInv(s) /\ s.pc = "copy"
  BY <1>1 DEF NativeInv, CopySignature, At
<1>3. /\ s.live = {"list", "sigBuf"} /\ s.defers = ListDefer /\ s.cached = NotCached
      /\ s.op = "SignHash"
  BY <1>2 DEF CallInv, Owned
<1>4. CallIs(s, s.op, s.left, "none", {"list", "sigBuf"}, ListDefer, NotCached)
  BY <1>2, <1>3, UnderWay
<1>5. Use(s, "sigBuf") = s
  BY <1>4, UseCall
<1>6. CallIs(Free(s, "sigBuf"), s.op, s.left, "none", {"list"}, ListDefer, NotCached)
  <2>1. {"list"} = {"list", "sigBuf"} \ {"sigBuf"} /\ "sigBuf" \in {"list", "sigBuf"}
    OBVIOUS
  <2> QED BY <1>4, <2>1, FreeCall
<1>7. Set(t, Return(Free(s, "sigBuf"), "signature"))
  BY <1>1, <1>5 DEF CopySignature, Here
<1>8. Owned("return", s.op, {"list"}, ListDefer, NotCached)
  BY DEF Owned
<1>9. CallInv(Return(Free(s, "sigBuf"), "signature"))
  BY <1>3, <1>6, <1>8, Returning
<1> QED BY <1>7, <1>9, SetStep

\* One deferred release.
LEMMA Released ==
  ASSUME NEW s, NEW x, CallInv(s), s.pc = "return", NEW live, NEW rest,
         CallIs(Free(s, x), s.op, s.left, s.result, live, s.defers, NotCached),
         rest = Tail(s.defers), Owned("return", s.op, live, rest, NotCached)
  PROVE  CallInv([Free(s, x) EXCEPT !.defers = Tail(@)])
<1>1. PICK f : f = Free(s, x)
  OBVIOUS
<1>2. Frame(s) /\ Whole(s)
  BY DEF CallInv
<1>3. f.pc = "return"
  BY <1>1, <1>2 DEF Free, Frame
<1>4. /\ Frame(f) /\ f.misuse = FALSE /\ f.op = s.op /\ f.left = s.left /\ f.result = s.result
      /\ f.live = live /\ f.defers = s.defers /\ f.cached = NotCached
  BY <1>1 DEF CallIs
<1>5. PICK u : u = [f EXCEPT !.defers = Tail(@)]
  OBVIOUS
<1>6. /\ Frame(u) /\ u.pc = f.pc /\ u.misuse = f.misuse /\ u.op = f.op /\ u.left = f.left
      /\ u.result = f.result /\ u.live = f.live /\ u.cached = f.cached
      /\ u.defers = Tail(f.defers)
  BY <1>4, <1>5 DEF Frame
<1>7. Whole(u)
  BY <1>2, <1>3, <1>4, <1>6 DEF Whole
<1>8. Owned(u.pc, u.op, u.live, u.defers, u.cached)
  BY <1>3, <1>4, <1>6
<1> QED BY <1>1, <1>4, <1>5, <1>6, <1>7, <1>8 DEF CallInv

LEMMA RunDeferredStep ==
  ASSUME NativeInv, NEW t \in Threads, RunDeferred(t)
  PROVE  NativeInv'
<1>1. PICK s : s = thread[t]
  OBVIOUS
<1>2. CallInv(s) /\ s.pc = "return"
  BY <1>1 DEF NativeInv, RunDeferred, At
<1>3. IF s.defers # <<>>
      THEN Set(t, [Free(s, Head(s.defers)) EXCEPT !.defers = Tail(@)])
      ELSE Set(t, To(s, "idle"))
  BY <1>1 DEF RunDeferred, Here
<1>4. CallIs(s, s.op, s.left, s.result, s.live, s.defers, s.cached)
  BY <1>2 DEF CallInv, CallIs
<1>5. \/ s.live = {} /\ s.defers = NoDefer /\ s.cached = NotCached
      \/ s.live = {"store"} /\ s.defers = StoreDefer /\ s.cached = NotCached
      \/ s.live = {"store", "ctx"} /\ s.defers = CtxDefer /\ s.cached = NotCached
      \/ s.live = {"store", "ctx", "key"} /\ s.defers = CtxDefer /\ s.cached = IsCached
      \/ s.live = {"store", "ctx", "key"} /\ s.defers = KeyDefer /\ s.cached = NotCached
      \/ s.live = {"list"} /\ s.defers = ListDefer /\ s.cached = NotCached
  BY <1>2 DEF CallInv, Owned
<1>6. /\ Owned("return", s.op, {}, NoDefer, NotCached)
      /\ Owned("return", s.op, {"store"}, StoreDefer, NotCached)
      /\ Owned("return", s.op, {"store", "ctx"}, CtxDefer, NotCached)
  BY DEF Owned
<1>7. CASE s.live = {} /\ s.defers = NoDefer /\ s.cached = NotCached
  <2>1. PICK u : u = To(s, "idle")
    OBVIOUS
  <2>2. CallIs(u, s.op, s.left, s.result, {}, NoDefer, NotCached) /\ u.pc = "idle"
    BY <1>4, <1>7, <2>1, ToCall
  <2>3. Owned("idle", s.op, {}, NoDefer, NotCached)
    BY DEF Owned
  <2>4. Whole(u)
    BY <1>2, <2>2 DEF CallInv, CallIs, Whole
  <2>5. CallInv(u)
    BY <2>2, <2>3, <2>4 DEF CallInv, CallIs
  <2> QED BY <1>3, <1>7, <2>1, <2>5, SetStep, DeferSequences
<1>8. CASE s.live = {"store"} /\ s.defers = StoreDefer /\ s.cached = NotCached
  <2>1. {} = {"store"} \ {"store"} /\ "store" \in {"store"}
    OBVIOUS
  <2>2. CallIs(Free(s, "store"), s.op, s.left, s.result, {}, s.defers, NotCached)
    BY <1>4, <1>8, <2>1, FreeCall
  <2>3. NoDefer = Tail(s.defers) /\ Head(s.defers) = "store" /\ s.defers # <<>>
    BY <1>8, DeferSequences
  <2>4. CallInv([Free(s, "store") EXCEPT !.defers = Tail(@)])
    BY <1>2, <1>6, <2>2, <2>3, Released
  <2> QED BY <1>3, <2>3, <2>4, SetStep
<1>9. CASE s.live = {"store", "ctx"} /\ s.defers = CtxDefer /\ s.cached = NotCached
  <2>1. {"store"} = {"store", "ctx"} \ {"ctx"} /\ "ctx" \in {"store", "ctx"}
    OBVIOUS
  <2>2. CallIs(Free(s, "ctx"), s.op, s.left, s.result, {"store"}, s.defers, NotCached)
    BY <1>4, <1>9, <2>1, FreeCall
  <2>3. StoreDefer = Tail(s.defers) /\ Head(s.defers) = "ctx" /\ s.defers # <<>>
    BY <1>9, DeferSequences
  <2>4. CallInv([Free(s, "ctx") EXCEPT !.defers = Tail(@)])
    BY <1>2, <1>6, <2>2, <2>3, Released
  <2> QED BY <1>3, <2>3, <2>4, SetStep
<1>10. CASE s.live = {"store", "ctx", "key"} /\ s.defers = CtxDefer /\ s.cached = IsCached
  <2>1. /\ {"store"} = {"store", "ctx", "key"} \ {"ctx", "key"}
        /\ "ctx" \in {"store", "ctx", "key"} /\ "key" \in {"store", "ctx", "key"}
    OBVIOUS
  <2>2. CallIs(Free(s, "ctx"), s.op, s.left, s.result, {"store"}, s.defers, NotCached)
    BY <1>4, <1>10, <2>1, FreeCached
  <2>3. StoreDefer = Tail(s.defers) /\ Head(s.defers) = "ctx" /\ s.defers # <<>>
    BY <1>10, DeferSequences
  <2>4. CallInv([Free(s, "ctx") EXCEPT !.defers = Tail(@)])
    BY <1>2, <1>6, <2>2, <2>3, Released
  <2> QED BY <1>3, <2>3, <2>4, SetStep
<1>11. CASE s.live = {"store", "ctx", "key"} /\ s.defers = KeyDefer /\ s.cached = NotCached
  <2>1. {"store", "ctx"} = {"store", "ctx", "key"} \ {"key"} /\ "key" \in {"store", "ctx", "key"}
    OBVIOUS
  <2>2. CallIs(Free(s, "key"), s.op, s.left, s.result, {"store", "ctx"}, s.defers, NotCached)
    BY <1>4, <1>11, <2>1, FreeCall
  <2>3. CtxDefer = Tail(s.defers) /\ Head(s.defers) = "key" /\ s.defers # <<>>
    BY <1>11, DeferSequences
  <2>4. CallInv([Free(s, "key") EXCEPT !.defers = Tail(@)])
    BY <1>2, <1>6, <2>2, <2>3, Released
  <2> QED BY <1>3, <2>3, <2>4, SetStep
<1>12. CASE s.live = {"list"} /\ s.defers = ListDefer /\ s.cached = NotCached
  <2>1. {} = {"list"} \ {"list"} /\ "list" \in {"list"}
    OBVIOUS
  <2>2. CallIs(Free(s, "list"), s.op, s.left, s.result, {}, s.defers, NotCached)
    BY <1>4, <1>12, <2>1, FreeCall
  <2>3. NoDefer = Tail(s.defers) /\ Head(s.defers) = "list" /\ s.defers # <<>>
    BY <1>12, DeferSequences
  <2>4. CallInv([Free(s, "list") EXCEPT !.defers = Tail(@)])
    BY <1>2, <1>6, <2>2, <2>3, Released
  <2> QED BY <1>3, <2>3, <2>4, SetStep
<1> QED BY <1>5, <1>7, <1>8, <1>9, <1>10, <1>11, <1>12

-----------------------------------------------------------------------------
\* What every call holds at each of its places, after every step.
THEOREM NativeInvariance == NativeSpec => []NativeInv
<1>1. ASSUME NativeInit PROVE NativeInv
  <2>1. CallInv(NoCall)
    <3>1. /\ Frame(NoCall) /\ NoCall.misuse = FALSE /\ NoCall.pc = "idle" /\ NoCall.op = "none"
          /\ NoCall.live = {} /\ NoCall.defers = NoDefer /\ NoCall.cached = NotCached
      BY DEF NoCall, Frame, NoDefer, NotCached
    <3>2. Owned("idle", "none", {}, NoDefer, NotCached)
      BY DEF Owned
    <3>3. Whole(NoCall)
      BY DEF Whole, NoCall
    <3> QED BY <3>1, <3>2, <3>3 DEF CallInv
  <2>2. thread = [t \in Threads |-> NoCall]
    BY <1>1 DEF NativeInit
  <2> QED BY <2>1, <2>2 DEF NativeInv
<1>2. ASSUME NativeInv, [NativeNext]_nativeVars PROVE NativeInv'
  <2>1. CASE UNCHANGED nativeVars \/ Change
    <3>1. thread' = thread
      BY <2>1 DEF nativeVars, Change
    <3> QED BY <1>2, <3>1 DEF NativeInv
  <2>2. ASSUME NEW t \in Threads, Step(t) PROVE NativeInv'
    BY <1>2, <2>2, OpenStoreStep, EnumOverStep, EnumNextStep, ProviderStep, CloseStoreStep,
       FindCertStep, AcquirePrivateKeyStep, SignHashWithCertStep, GetIdentitiesStep, MatchStep,
       CopyPrivateKeyStep, CreateSignatureStep, CopySignatureStep, RunDeferredStep
       DEF Step
  <2> QED BY <1>2, <2>1, <2>2, CallStep DEF NativeNext
<1> QED BY <1>1, <1>2, PTL DEF NativeSpec

(***************************************************************************)
(* Whatever call of the operating system fails, a function of the stores   *)
(* of Windows and macOS that has returned holds nothing any more: every    *)
(* store, context, key, list and buffer was released, by hand, by a        *)
(* deferred release or with the context that owned it.                     *)
(***************************************************************************)
THEOREM NothingLeaks == NativeSpec => []ReleasedWhenDone
<1>1. NativeInv => ReleasedWhenDone
  BY DEF NativeInv, CallInv, Owned, ReleasedWhenDone
<1> QED BY <1>1, NativeInvariance, PTL

(***************************************************************************)
(* And it never uses or releases what was released before, or overwrites   *)
(* what it still holds: the order of the deferred releases, and the cached *)
(* key of acquirePrivateKey.                                               *)
(***************************************************************************)
THEOREM NothingMisused == NativeSpec => []NoMisuse
<1>1. NativeInv => NoMisuse
  BY DEF NativeInv, CallInv, NoMisuse
<1> QED BY <1>1, NativeInvariance, PTL

(***************************************************************************)
(* The list of ListCertificates is never cut off by an enumeration that    *)
(* failed.                                                                 *)
(***************************************************************************)
THEOREM ListComplete == NativeSpec => []CompleteOrError
<1>1. NativeInv => CompleteOrError
  BY DEF NativeInv, CallInv, Whole, CompleteOrError
<1> QED BY <1>1, NativeInvariance, PTL
=============================================================================
