---------------------------- MODULE CommandSessions ----------------------------
(***************************************************************************)
(* A command a dim client runs in the controller (core/commandSessions.ts, *)
(* adminController.ts, cli/controller-session.ts).                         *)
(*                                                                         *)
(* The controller runs the operation, keeps its last events and streams    *)
(* them; the client reads them, posts what the user types one request at   *)
(* a time, and deletes the session on SIGINT.  Events, input and the       *)
(* cancellation travel on connections of their own, so they meet the       *)
(* session, and each other's answers, in any order.                        *)
(***************************************************************************)
EXTENDS Naturals

CONSTANTS NMaxOutput,   \* bound on the output events of the command
          NMaxInput     \* bound on the chunks the user types

ASSUME SessionAssumption == NMaxOutput \in Nat /\ NMaxInput \in Nat

VARIABLES
    nController,   \* "up", "down"
    nSession,      \* [phase, ended: stdin ended, written: chunks of stdin, emitted, last: kind of the last event]
    nStream,       \* [at: state of the event stream, next: next event to read]
    nPost,         \* the chunk being posted: "none", "wire", "accepted", "refused"
    nStray,        \* a post whose client gave up may still reach the controller
    nCancel,       \* the DELETE: "none", "wire", "accepted", "refused", "settled"
    nClient        \* [at, accepting, failed, queue: chunks to post, typed: chunks queued so far]

nVars == <<nController, nSession, nStream, nPost, nStray, nCancel, nClient>>

SessionInit ==
    /\ nController = "up"
    /\ nSession = [phase |-> "none", ended |-> FALSE, written |-> 0, emitted |-> 0, last |-> "none"]
    /\ nStream = [at |-> "idle", next |-> 0]
    /\ nPost = "none" /\ nStray = FALSE /\ nCancel = "none"
    /\ nClient = [at |-> "idle", accepting |-> FALSE, failed |-> FALSE, queue |-> 0, typed |-> 0]

NRunning == nController = "up" /\ nSession.phase = "running"
NWaiting == nClient.at \in {"streaming", "draining", "failing"}

(* recordFailure: the first failure ends the race with the event stream.   *)
NFailed == [nClient EXCEPT !.failed = TRUE, !.accepting = FALSE,
                           !.at = IF @ = "streaming" THEN "failing" ELSE @]

(* The stream is destroyed when the client stops reading it.               *)
NClosed == [nStream EXCEPT !.at = "closed"]
NFails == nClient' = NFailed /\ nStream' = NClosed

(* #emit: an event takes the next sequence number.                         *)
NEmitted(kind) == [nSession EXCEPT !.emitted = @ + 1, !.last = kind]

(* POST /v1/sessions starts the operation, then the client streams.        *)
NStart ==
    /\ nClient.at = "idle"
    /\ nController = "up"
    /\ nSession' = [nSession EXCEPT !.phase = "running"]
    /\ nClient' = [nClient EXCEPT !.at = "streaming", !.accepting = TRUE]
    /\ UNCHANGED <<nController, nStream, nPost, nStray, nCancel>>

NOutput ==
    /\ NRunning
    /\ nSession.emitted < NMaxOutput
    /\ nSession' = NEmitted("output")
    /\ UNCHANGED <<nController, nStream, nPost, nStray, nCancel, nClient>>

(* The operation settles: the final event, complete, end of input.  A      *)
(* cancelled command settles too, the runner kills what ignores SIGTERM.   *)
NSettle ==
    /\ NRunning
    /\ \E kind \in {"result", "error"} :
          nSession' = [NEmitted(kind) EXCEPT !.phase = "complete", !.ended = TRUE]
    /\ UNCHANGED <<nController, nStream, nPost, nStray, nCancel, nClient>>

(* The session is deleted five minutes after it completed.                 *)
NDelete ==
    /\ nController = "up" /\ nSession.phase = "complete"
    /\ nSession' = [nSession EXCEPT !.phase = "deleted"]
    /\ UNCHANGED <<nController, nStream, nPost, nStray, nCancel, nClient>>

\* Mutant: only events after the subscription are sent.
NConnectsLate ==
    /\ nStream' = [at |-> "open", next |-> nSession.emitted]
    /\ UNCHANGED nClient

(* GET events: sendSessionEvents subscribes and replays the retained       *)
(* events; which of the older ones were dropped from the window shows no   *)
(* further, the last event is always retained.                             *)
NConnects == \E from \in 0 .. nSession.emitted :
    /\ from = nSession.emitted => nSession.emitted = 0
    /\ nStream' = [at |-> "open", next |-> from]
    /\ UNCHANGED nClient

NConnect ==
    /\ nClient.at = "streaming" /\ nStream.at = "idle"
    /\ nController = "up" /\ nSession.phase \in {"running", "complete"}
    /\ NConnects
    /\ UNCHANGED <<nController, nSession, nPost, nStray, nCancel>>

(* No such session, or nobody listens: readAdminSession fails.             *)
NConnectFails ==
    /\ nClient.at = "streaming" /\ nStream.at = "idle"
    /\ nController = "down" \/ nSession.phase = "deleted"
    /\ NFails
    /\ UNCHANGED <<nController, nSession, nPost, nStray, nCancel>>

NReading == nClient.at = "streaming" /\ nStream.at = "open"

(* The client reads an event that does not end the session.                *)
NRead ==
    /\ NReading
    /\ nStream.next < nSession.emitted
    /\ ~(nStream.next = nSession.emitted - 1 /\ nSession.last \in {"result", "error"})
    /\ nStream' = [nStream EXCEPT !.next = @ + 1]
    /\ UNCHANGED <<nController, nSession, nPost, nStray, nCancel, nClient>>

(* It reads the final event: a result is returned once the input drained.  *)
NReadFinal ==
    /\ NReading
    /\ nStream.next = nSession.emitted - 1
    /\ \/ /\ nSession.last = "result"
          /\ nClient' = [nClient EXCEPT !.at = "draining", !.accepting = FALSE]
          /\ nStream' = NClosed
       \/ /\ nSession.last = "error"
          /\ NFails
    /\ UNCHANGED <<nController, nSession, nPost, nStray, nCancel>>

(* The connection breaks with the controller.                              *)
NDisconnect ==
    /\ NReading
    /\ nController = "down"
    /\ NFails
    /\ UNCHANGED <<nController, nSession, nPost, nStray, nCancel>>

(* enqueueInput                                                            *)
NType ==
    /\ nClient.accepting
    /\ nClient.typed < NMaxInput
    /\ nClient' = [nClient EXCEPT !.queue = @ + 1, !.typed = @ + 1]
    /\ UNCHANGED <<nController, nSession, nStream, nPost, nStray, nCancel>>

(* The head of the queue is posted, or dropped once a failure is recorded. *)
NPostInput ==
    /\ nClient.queue > 0 /\ nPost = "none"
    /\ \/ ~nClient.failed /\ nPost' = "wire" /\ UNCHANGED nClient
       \/ nClient.failed /\ nClient' = [nClient EXCEPT !.queue = @ - 1] /\ UNCHANGED nPost
    /\ UNCHANGED <<nController, nSession, nStream, nStray, nCancel>>

(* CommandSessionManager.input writes to the session's stdin; a write      *)
(* after its end is lost.                                                  *)
NWritten == [nSession EXCEPT !.written = @ + (IF nSession.ended THEN 0 ELSE 1)]

NInput ==
    /\ nPost = "wire"
    /\ \/ NRunning /\ nSession' = NWritten /\ nPost' = "accepted"
       \/ ~NRunning /\ nPost' = "refused" /\ UNCHANGED nSession
    /\ UNCHANGED <<nController, nStream, nStray, nCancel, nClient>>

(* The write after the end of a stdin nobody drained is an unhandled       *)
(* stream error, which ends the controller process.                        *)
NInputThrows ==
    /\ nPost = "wire" \/ nStray
    /\ NRunning /\ nSession.ended
    /\ nController' = "down"
    /\ nPost' = IF nPost = "wire" THEN "refused" ELSE nPost
    /\ nStray' = FALSE
    /\ UNCHANGED <<nSession, nStream, nCancel, nClient>>

(* The abandoned request arrives after all, or is dropped.                 *)
NStrayInput ==
    /\ nStray
    /\ nStray' = FALSE
    /\ \/ NRunning /\ nSession' = NWritten
       \/ UNCHANGED nSession
    /\ UNCHANGED <<nController, nStream, nPost, nCancel, nClient>>

(* requestCancellation asks once.                                          *)
NAsked == IF nCancel = "none" THEN "wire" ELSE nCancel

NInputAccepted ==
    /\ nPost = "accepted"
    /\ nPost' = "none"
    /\ nClient' = [nClient EXCEPT !.queue = @ - 1]
    /\ UNCHANGED <<nController, nSession, nStream, nStray, nCancel>>

(* A refused or aborted post fails the client and cancels the session.     *)
NInputRefused ==
    /\ \/ nPost = "refused" /\ UNCHANGED nStray
       \/ nPost = "wire" /\ nClient.failed /\ nStray' = TRUE
    /\ nPost' = "none"
    /\ nClient' = [NFailed EXCEPT !.queue = @ - 1]
    /\ nStream' = NClosed
    /\ nCancel' = NAsked
    /\ UNCHANGED <<nController, nSession>>

(* SIGINT                                                                  *)
NInterrupt ==
    /\ NWaiting
    /\ nCancel = "none"
    /\ nCancel' = "wire"
    /\ UNCHANGED <<nController, nSession, nStream, nPost, nStray, nClient>>

(* CommandSessionManager.cancel aborts the command and ends its input.     *)
NCancelled ==
    /\ nCancel = "wire"
    /\ \/ NRunning /\ nSession' = [nSession EXCEPT !.ended = TRUE] /\ nCancel' = "accepted"
       \/ ~NRunning /\ nCancel' = "refused" /\ UNCHANGED nSession
    /\ UNCHANGED <<nController, nStream, nPost, nStray, nClient>>

(* The answer: an accepted cancellation aborts the reading, a refused one  *)
(* is a failure even when the result was already read.                     *)
NCancelAnswered ==
    /\ nCancel \in {"accepted", "refused"}
    /\ nCancel' = "settled"
    /\ IF nCancel = "refused" \/ nClient.at = "streaming" THEN NFails ELSE UNCHANGED <<nClient, nStream>>
    /\ UNCHANGED <<nController, nSession, nPost, nStray>>

\* Mutant: the result settles before the input queue.
NDrainedAtOnce == TRUE

(* await inputQueue, then the result or the recorded failure.              *)
NDrained == nClient.queue = 0

NReturn ==
    /\ nClient.at \in {"draining", "failing"}
    /\ NDrained
    /\ nClient' = [nClient EXCEPT !.at = IF nClient.failed \/ @ = "failing" THEN "throwing" ELSE "returning"]
    /\ UNCHANGED <<nController, nSession, nStream, nPost, nStray, nCancel>>

(* finally: the cancellation is awaited, the terminal restored.            *)
NEnd ==
    /\ nClient.at \in {"throwing", "returning"}
    /\ nCancel \in {"none", "settled"}
    /\ nClient' = [nClient EXCEPT !.at = IF @ = "throwing" THEN "threw" ELSE "returned"]
    /\ UNCHANGED <<nController, nSession, nStream, nPost, nStray, nCancel>>

(* The controller stops; its admin server cancels every session.           *)
NStop ==
    /\ nController = "up"
    /\ nController' = "down"
    /\ UNCHANGED <<nSession, nStream, nPost, nStray, nCancel, nClient>>

NDone == nClient.at \in {"threw", "returned"} /\ UNCHANGED nVars

NRequests == NConnect \/ NConnectFails \/ NDisconnect \/ NPostInput \/ NInput \/ NInputAccepted
             \/ NInputRefused \/ NCancelled \/ NCancelAnswered \/ NReturn \/ NEnd

SessionNext ==
    \/ NStart \/ NOutput \/ NSettle \/ NDelete \/ NRead \/ NReadFinal \/ NType \/ NInputThrows
    \/ NStrayInput \/ NInterrupt \/ NStop \/ NDone \/ NRequests

SessionSpec == SessionInit /\ [][SessionNext]_nVars

(* Requests are answered or fail, and the client reads what was sent.      *)
SessionFairness == WF_nVars(NRequests) /\ WF_nVars(NRead) /\ WF_nVars(NReadFinal)

-----------------------------------------------------------------------------
(* A client that returns the result of an uninterrupted command had every  *)
(* chunk the user typed written to the command's stdin: the result may     *)
(* overtake the posts on their own connections, and the client still waits *)
(* for them and reports a chunk the session no longer took.                *)
NSuccessMeansDelivered ==
    nClient.at = "returned" /\ nCancel = "none" => nSession.written = nClient.typed

(* A client ends once its session completed, was cancelled, or lost its    *)
(* controller, whatever requests were in flight then.                      *)
NClientEnds ==
    (NWaiting /\ (nSession.phase = "complete" \/ nCancel # "none" \/ nController = "down"))
        ~> nClient.at \in {"threw", "returned"}
=============================================================================
