----------------------------- MODULE CertServer -----------------------------
(***************************************************************************)
(* The process of the certificate server (cmd/cert-server/main.go): the    *)
(* cut of its log file, the start step by step, the goroutines that serve  *)
(* gRPC and answer discovery, and the end on a signal.                     *)
(*                                                                         *)
(* gRPC's server and the signals are external.  What a request does is the *)
(* business of FileStore and NativeStore, what discovery says that of      *)
(* Discovery.                                                              *)
(***************************************************************************)
EXTENDS Integers, Sequences

CONSTANTS
  MaxLogSize,    \* maxLogSize
  MaxOldLog,     \* bound: the length of the log file found
  MaxRequests    \* bound: requests at the same time

ASSUME CertServerAssumption == {MaxLogSize, MaxOldLog, MaxRequests} \subseteq Nat

VARIABLES
  pc,            \* where main is
  oldLog,        \* the log file found, "c" for a character and "n" for a newline
  logFile,       \* the log file after it was cut
  discovery,     \* the flag
  listening,     \* the TCP port is bound
  serve,         \* the goroutine in grpcServer.Serve
  responder,     \* the goroutine in RunDiscovery
  ctxDone,       \* cancel has been called
  signals,       \* signals that wait in the channel, at most one
  requests,      \* requests being served
  answered,      \* no request that was accepted has lost its answer
  exit           \* the exit code, or -1

vars == <<pc, oldLog, logFile, discovery, listening, serve, responder, ctxDone, signals,
          requests, answered, exit>>
logVars == <<oldLog, logFile>>
workVars == <<requests, answered>>

Logs == UNION {[1 .. n -> {"c", "n"}] : n \in 0 .. MaxOldLog}

Init ==
  /\ pc = "truncateLogFile"
  /\ oldLog \in Logs
  /\ logFile = oldLog
  /\ discovery \in BOOLEAN
  /\ listening = FALSE
  /\ serve = "none"
  /\ responder = "none"
  /\ ctxDone = FALSE
  /\ signals = 0
  /\ requests = 0
  /\ answered = TRUE
  /\ exit = -1

Running == exit = -1

(***************************************************************************)
(* The log file                                                            *)
(***************************************************************************)
\* Mutant: the cut is one byte too early.
Cut_one_more(l) ==
  LET tail == SubSeq(l, Len(l) - MaxLogSize, Len(l)) IN
  IF Len(l) <= MaxLogSize THEN l ELSE tail

\* The last MaxLogSize bytes, without what comes before the first newline
\* in them unless nothing would be left.
Cut(l) ==
  LET tail == SubSeq(l, Len(l) - MaxLogSize + 1, Len(l))
      ends == {i \in DOMAIN tail : tail[i] = "n"}
      first == CHOOSE i \in ends : \A j \in ends : i <= j
  IN  IF Len(l) <= MaxLogSize THEN l
      ELSE IF ends # {} /\ first < Len(tail) THEN SubSeq(tail, first + 1, Len(tail)) ELSE tail

\* log.Fatalf
Fatal ==
  /\ exit' = 1
  /\ answered' = (requests = 0)
  /\ UNCHANGED <<pc, logVars, discovery, listening, serve, responder, ctxDone, signals, requests>>

\* A step of the start, which may fail.
Starting(at, next) ==
  /\ Running /\ pc = at
  /\ \/ Fatal
     \/ /\ pc' = next
        /\ UNCHANGED <<discovery, ctxDone, signals, workVars, exit, oldLog, serve, responder>>
        /\ logFile' = IF at = "truncateLogFile" THEN Cut(logFile) ELSE logFile
        /\ listening' = (listening \/ at = "listen")

\* os.WriteFile empties the file and fails before all is written.
WriteFileFails ==
  /\ Running /\ pc = "truncateLogFile"
  /\ Len(logFile) > MaxLogSize
  /\ \E n \in 0 .. Len(Cut(logFile)) - 1 : logFile' = SubSeq(Cut(logFile), 1, n)
  /\ exit' = 1
  /\ UNCHANGED <<pc, oldLog, discovery, listening, serve, responder, ctxDone, signals, workVars>>

\* Mutant: discovery is started with the configuration.
Start_announces_first ==
  \/ Starting("truncateLogFile", "open log")
  \/ Starting("open log", "cert-dir")
  \/ Starting("cert-dir", "tls config")
  \/ /\ Running /\ pc = "tls config"
     /\ pc' = "listen"
     /\ responder' = IF discovery THEN "running" ELSE "none"
     /\ UNCHANGED <<logVars, discovery, listening, serve, ctxDone, signals, workVars, exit>>
  \/ Starting("listen", "go")

\* The log file, the directory of certificates, TLS, the port.
Start ==
  \/ Starting("truncateLogFile", "open log")
  \/ Starting("open log", "cert-dir")
  \/ Starting("cert-dir", "tls config")
  \/ Starting("tls config", "listen")
  \/ Starting("listen", "go")

(***************************************************************************)
(* Goroutines                                                              *)
(***************************************************************************)
\* The responder gets its goroutine, then gRPC, and then signals are waited
\* for; the goroutines run meanwhile.
GoDiscovery ==
  /\ Running /\ pc = "go"
  /\ pc' = "go serve"
  /\ responder' = IF discovery THEN "running" ELSE "none"
  /\ UNCHANGED <<logVars, discovery, listening, serve, ctxDone, signals, workVars, exit>>

GoServe ==
  /\ Running /\ pc = "go serve"
  /\ pc' = "notify"
  /\ serve' = "started"
  /\ UNCHANGED <<logVars, discovery, listening, responder, ctxDone, signals, workVars, exit>>

Notify ==
  /\ Running /\ pc = "notify"
  /\ pc' = "wait"
  /\ UNCHANGED <<logVars, discovery, listening, serve, responder, ctxDone, signals, workVars, exit>>

\* RunDiscovery returns, with an error that is only logged or because the
\* context is done.
DiscoveryEnds ==
  /\ Running /\ responder = "running"
  /\ responder' = "ended"
  /\ UNCHANGED <<pc, logVars, discovery, listening, serve, ctxDone, signals, workVars, exit>>

\* Serve: a server that was stopped before does not serve.
Serve ==
  /\ Running /\ serve = "started"
  /\ \/ /\ pc \notin {"stopping", "stopped"}
        /\ serve' = "serving"
        /\ UNCHANGED <<pc, logVars, discovery, listening, responder, ctxDone, signals, workVars, exit>>
     \/ pc \in {"stopping", "stopped"} /\ Fatal

\* The listener fails.
ServeFails == Running /\ serve = "serving" /\ pc \in {"notify", "wait"} /\ Fatal

Request ==
  /\ Running /\ serve = "serving" /\ listening
  /\ requests < MaxRequests
  /\ requests' = requests + 1
  /\ UNCHANGED <<pc, logVars, discovery, listening, serve, responder, ctxDone, signals, answered, exit>>

Answer ==
  /\ Running /\ requests > 0
  /\ requests' = requests - 1
  /\ UNCHANGED <<pc, logVars, discovery, listening, serve, responder, ctxDone, signals, answered, exit>>

(***************************************************************************)
(* The end                                                                 *)
(***************************************************************************)
\* SIGINT or SIGTERM: it ends a process that does not wait for it yet; the
\* channel holds one, and none is looked at after the first.
Signal ==
  /\ Running
  /\ IF pc \in {"wait", "stopping", "stopped"}
     THEN signals' = 1 /\ UNCHANGED exit
     ELSE exit' = 2 /\ UNCHANGED signals
  /\ UNCHANGED <<pc, logVars, discovery, listening, serve, responder, ctxDone, workVars>>

\* Mutant: the listener stays open.
Stop_keeps_listening ==
  /\ Running /\ pc = "wait" /\ signals = 1
  /\ signals' = 0
  /\ ctxDone' = TRUE
  /\ pc' = "stopping"
  /\ UNCHANGED <<logVars, discovery, listening, serve, responder, workVars, exit>>

\* cancel, and GracefulStop closes the listener.
Stop ==
  /\ Running /\ pc = "wait" /\ signals = 1
  /\ signals' = 0
  /\ ctxDone' = TRUE
  /\ listening' = FALSE
  /\ pc' = "stopping"
  /\ UNCHANGED <<logVars, discovery, serve, responder, workVars, exit>>

\* Mutant: Stop instead of GracefulStop.
GracefulStop_at_once ==
  /\ Running /\ pc = "stopping"
  /\ pc' = "stopped"
  /\ serve' = IF serve = "serving" THEN "returned" ELSE serve
  /\ answered' = (requests = 0)
  /\ requests' = 0
  /\ UNCHANGED <<logVars, discovery, listening, responder, ctxDone, signals, exit>>

\* GracefulStop waits for the requests; Serve returns without an error.
GracefulStop ==
  /\ Running /\ pc = "stopping"
  /\ requests = 0
  /\ pc' = "stopped"
  /\ serve' = IF serve = "serving" THEN "returned" ELSE serve
  /\ UNCHANGED <<logVars, discovery, listening, responder, ctxDone, signals, workVars, exit>>

\* main returns and takes the goroutines with it.
Exit ==
  /\ Running /\ pc = "stopped"
  /\ exit' = 0
  /\ UNCHANGED <<pc, logVars, discovery, listening, serve, responder, ctxDone, signals, workVars>>

Next ==
  \/ Start \/ WriteFileFails \/ GoDiscovery \/ GoServe \/ Notify \/ DiscoveryEnds \/ Serve \/ ServeFails \/ Request \/ Answer
  \/ Signal \/ Stop \/ GracefulStop \/ Exit

(***************************************************************************)
(* Go's scheduler runs every goroutine that can run, and a request ends:   *)
(* the stores' calls return.                                               *)
(***************************************************************************)
Fairness == WF_vars(Stop) /\ WF_vars(GracefulStop) /\ WF_vars(Exit) /\ WF_vars(Answer)

Spec == Init /\ [][Next]_vars /\ Fairness

-----------------------------------------------------------------------------
(***************************************************************************)
(* Properties                                                              *)
(***************************************************************************)
\* Every variable keeps its type, and the channel holds at most one signal.
TypeOK ==
  /\ pc \in {"truncateLogFile", "open log", "cert-dir", "tls config", "listen",
            "go", "go serve", "notify", "wait", "stopping", "stopped"}
  /\ oldLog \in Logs /\ logFile \in Logs
  /\ serve \in {"none", "started", "serving", "returned"}
  /\ responder \in {"none", "running", "ended"}
  /\ {discovery, listening, ctxDone, answered} \subseteq BOOLEAN
  /\ signals \in {0, 1}
  /\ requests \in 0 .. MaxRequests
  /\ exit \in -1 .. 2

(***************************************************************************)
(* Discovery announces the gRPC port only when it is bound: a client that  *)
(* is told of the server can connect to it.  The exception is a server     *)
(* that is being stopped.                                                  *)
(***************************************************************************)
AnnouncedIsBound == responder = "running" => listening \/ ctxDone

(***************************************************************************)
(* A server that is stopped with a signal answers every request that it    *)
(* had accepted before it exits, whatever arrives meanwhile.               *)
(***************************************************************************)
NoAnswerLost == exit = 0 => requests = 0 /\ answered

(***************************************************************************)
(* The log file that is left is bounded, is the end of the one before, and *)
(* begins with a whole line if it was cut and there is one in it.          *)
(***************************************************************************)
LogIsBounded ==
  pc # "truncateLogFile" =>
    LET d == Len(oldLog) - Len(logFile) IN
    /\ Len(logFile) <= MaxLogSize
    /\ logFile = SubSeq(oldLog, d + 1, Len(oldLog))
    /\ \/ d = 0 \/ oldLog[d] = "n"
       \/ \A i \in 1 .. Len(logFile) - 1 : logFile[i] = "c"

\* A server that takes a signal ends, after the requests it has accepted.
SignalEnds == pc = "wait" /\ signals = 1 ~> ~Running
=============================================================================
