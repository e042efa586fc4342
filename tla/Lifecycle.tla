------------------------------ MODULE Lifecycle ------------------------------
(***************************************************************************)
(* The process around LogServer: atl serve (cmd/atl/main.go:42-176), the   *)
(* listener and its graceful shutdown (internal/api/server.go:107-125),    *)
(* the loop of the heartbeat (internal/sth/heartbeat.go:39-53), the        *)
(* interval from internal/config, the operator's key file, which atl       *)
(* keygen rewrites, and the restart of docker-compose.yml.  LogServer has  *)
(* what handlers and beats do; here is when they may, and how they end.    *)
(*                                                                         *)
(* A second signal stays in sigCh and does nothing.  The environment       *)
(* variables do not change while the service is deployed; those that Load  *)
(* refuses keep it from ever starting.                                     *)
(***************************************************************************)
EXTENDS LogServer, Integers

CONSTANTS MMDs,    \* values of ATL_MMD_SECONDS
          Second,  \* time.Second
          Width,   \* bits of time.Duration
          OldKey, NewKey \* the operator's key before and after a keygen

VARIABLES proc,        \* "down", "up", "draining" in Shutdown, "closing" after s.Close
          listening,   \* whether the listener is open
          reading,     \* handlers in io.ReadAll, their body has not arrived
          cancelled,   \* ctx is cancelled: SIGINT or SIGTERM has come
          beating,     \* the goroutine of the heartbeat is in its loop
          interval,    \* interval of the heartbeat, from cfg.MMDSeconds
          keyFile,     \* contents of operator.key, Nil for none
          operatorKey, \* operatorPriv of the process, whose public key metadata serves
          latestKey    \* the key that signed latestSTH

serveVars == <<proc, listening, reading, cancelled, beating, operatorKey>>
keyVars == <<keyFile, latestKey>>
lifeVars == <<serveVars, keyVars, interval>>
allVars == <<vars, lifeVars>>

(* time.Duration(cfg.MMDSeconds) * time.Second, which wraps. *)
Duration(seconds) == ((seconds * Second + 2^(Width - 1)) % 2^Width) - 2^(Width - 1)

ASSUME DurationAssumption == \A m \in MMDs : Duration(m) \in Int

LifeInit == /\ Init
            /\ proc = "down" /\ listening = FALSE /\ reading = {} /\ cancelled = FALSE
            /\ beating = FALSE /\ operatorKey = Nil
            /\ interval \in {Duration(m) : m \in MMDs}
            /\ keyFile = OldKey /\ latestKey = Nil
-----------------------------------------------------------------------------
(* The process starts and ends. *)

(* main.go:47-76.  Without a key the process exits and is started again. *)
Start == /\ proc = "down" /\ keyFile # Nil
         /\ proc' = "up" /\ operatorKey' = keyFile
         /\ UNCHANGED <<vars, listening, reading, cancelled, beating, keyVars, interval>>

(* The process is gone, and what only it knew. *)
End == /\ Crash
       /\ proc' = "down" /\ listening' = FALSE /\ reading' = {} /\ cancelled' = FALSE
       /\ beating' = FALSE /\ operatorKey' = Nil
       /\ UNCHANGED <<keyVars, interval>>

(* SIGKILL, a panic, the machine; before signal.Notify any signal. *)
Kill == proc # "down" /\ End

(* Variant for a mutant: the error is logged and the server goes on. *)
RebuildErrorIgnored == /\ proc = "up" /\ phase = "rebuild"
                       /\ phase' = "serving" /\ cursor' = 0
                       /\ UNCHANGED <<storeVars, tree, handlerVars, hbVars, clientVars, crashes, lifeVars>>

(* main.go:79-90: the tree is rebuilt, or the process exits. *)
Rebuild == /\ proc = "up"
           /\ RebuildNext \/ RebuildDone
           /\ UNCHANGED lifeVars

RebuildError == proc = "up" /\ phase = "rebuild" /\ End

(* main.go:173: the deferred calls are done and the command returns, *)
(* whatever handlers are still doing.                                *)
Exit == proc = "closing" /\ End
-----------------------------------------------------------------------------
(* The listener: server.go:107-125. *)

Listen == /\ proc = "up" /\ phase = "serving" /\ ~listening
          /\ listening' = TRUE
          /\ UNCHANGED <<vars, proc, reading, cancelled, beating, operatorKey, keyVars, interval>>

(* Variant for a mutant: the error is not sent to errCh, select waits. *)
ListenErrorLost ==
    \/ /\ proc = "up" /\ phase = "serving" /\ ~listening
       /\ proc' = "deaf"
       /\ UNCHANGED <<vars, listening, reading, cancelled, beating, operatorKey, keyVars, interval>>
    \/ proc = "deaf" /\ UNCHANGED allVars

(* The port is taken, or Accept fails: the error from errCh is returned. *)
ListenError == proc = "up" /\ phase = "serving" /\ End

(* A connection whose request waits for its body, for which no timeout is set. *)
Accept(h) == /\ proc = "up" /\ listening /\ pc[h] = "idle" /\ h \notin reading
             /\ reading' = reading \cup {h}
             /\ UNCHANGED <<vars, proc, listening, cancelled, beating, operatorKey, keyVars, interval>>

(* handlers.go:18: the body has arrived, or the connection broke. *)
ReadAll(h) == /\ h \in reading
              /\ reading' = reading \ {h}
              /\ Receive(h) \/ UNCHANGED vars
              /\ UNCHANGED <<proc, listening, cancelled, beating, operatorKey, keyVars, interval>>

(* main.go:168-172: the goroutine takes the signal and cancels ctx. *)
Signal == /\ proc = "up" /\ phase = "serving" /\ ~cancelled /\ crashes < MaxCrashes
          /\ cancelled' = TRUE
          /\ UNCHANGED <<vars, proc, listening, reading, beating, operatorKey, keyVars, interval>>

(* Shutdown closes the listener and waits for the requests under way, *)
(* 10 seconds at most.                                                 *)
Shutdown == /\ proc = "up" /\ cancelled
            /\ proc' = "draining" /\ listening' = FALSE
            /\ UNCHANGED <<vars, reading, cancelled, beating, operatorKey, keyVars, interval>>

Close == /\ proc = "draining" /\ proc' = "closing"
         /\ UNCHANGED <<vars, listening, reading, cancelled, beating, operatorKey, keyVars, interval>>

Drained == Close /\ reading = {} /\ \A h \in Handlers : pc[h] = "idle"

(* Variant for a mutant: Shutdown is given a context without a deadline. *)
NoDeadline == Drained

Deadline == Close
-----------------------------------------------------------------------------
(* Handlers and heartbeat in a process that may be closing. *)

(* A save is signed with the key the process has loaded. *)
SavedSTH == latestKey' = operatorKey /\ UNCHANGED <<keyFile, serveVars, interval>>

Statements == {"dedup", "insert", "save", "state"}

(* Variant for a mutant: the errors of saves are logged and the handler *)
(* goes on.                                                             *)
ClosedIgnored(h) == /\ proc = "closing"
                    /\ Goto(h, "save", "compact") \/ Goto(h, "state", "reply")
                    /\ UNCHANGED <<storeVars, tree, body, leafIndex, rootHash, sth, compact,
                                   hbVars, clientVars, processVars, lifeVars>>

(* A statement under way when the database is closed may still be done; *)
(* one that begins later fails.                                         *)
DatabaseClosed(h) == /\ proc = "closing"
                     /\ \E call \in Statements : InternalError(h, call)
                     /\ UNCHANGED <<storeVars, lifeVars>>

SavesHead(h) == /\ proc # "closing"
                /\ \/ SaveHead(h) /\ SavedSTH
                   \/ SaveHeadError(h) /\ SaveSTH(sth[h]) /\ SavedSTH
                   \/ SaveHeadError(h) /\ UNCHANGED <<storeVars, lifeVars>>

HandlerStep(h) == \/ /\ pc[h] # "save"
                     /\ proc = "closing" => pc[h] \notin Statements
                     /\ Handle(h)
                     /\ UNCHANGED lifeVars
                  \/ SavesHead(h)
                  \/ DatabaseClosed(h)

(* heartbeat.go:40: NewTicker, which panics unless the interval is positive. *)
HeartbeatStart == /\ proc # "down" /\ phase = "serving" /\ ~beating /\ ~cancelled
                  /\ interval > 0
                  /\ beating' = TRUE
                  /\ UNCHANGED <<vars, proc, listening, reading, cancelled, operatorKey, keyVars, interval>>

HeartbeatPanic == phase = "serving" /\ interval <= 0 /\ End

(* select may still take a tick after ctx is cancelled. *)
HeartbeatReturn == /\ beating /\ cancelled /\ hbPc = "wait"
                   /\ beating' = FALSE
                   /\ UNCHANGED <<vars, proc, listening, reading, cancelled, operatorKey, keyVars, interval>>

(* Variant for a mutant: a head that has not changed is not saved again. *)
BeatSavesNew == /\ hbPc = "save" /\ proc # "closing"
                /\ \/ hbSTH = latestSTH /\ BeatDone /\ UNCHANGED <<storeVars, lifeVars>>
                   \/ hbSTH # latestSTH /\ BeatSave /\ SavedSTH

BeatSaves == proc # "closing" /\ BeatSave /\ SavedSTH

BeatFails == \/ proc # "closing" /\ BeatError /\ SaveSTH(hbSTH) /\ SavedSTH
             \/ proc # "closing" /\ BeatError /\ UNCHANGED <<storeVars, lifeVars>>
             \/ proc = "closing" /\ BeatDone /\ UNCHANGED <<storeVars, lifeVars>>

BeatStep == /\ beating
            /\ \/ (BeatRoot \/ BeatSign) /\ UNCHANGED lifeVars
               \/ BeatSaves
               \/ BeatFails
-----------------------------------------------------------------------------
(* atl keygen: main.go:204, os.WriteFile truncates and then writes.        *)
(* The bound: one rotation.                                                *)
KeygenTruncate == /\ keyFile = OldKey /\ keyFile' = Nil
                  /\ UNCHANGED <<vars, serveVars, latestKey, interval>>

KeygenWrite == /\ keyFile = Nil /\ keyFile' = NewKey
               /\ UNCHANGED <<vars, serveVars, latestKey, interval>>

LifeNext == \/ Start \/ Kill \/ Rebuild \/ RebuildError \/ Exit
            \/ Listen \/ ListenError \/ Signal \/ Shutdown \/ Drained \/ Deadline
            \/ \E h \in Handlers : Accept(h) \/ ReadAll(h) \/ HandlerStep(h)
            \/ HeartbeatStart \/ HeartbeatPanic \/ HeartbeatReturn \/ BeatStep
            \/ KeygenTruncate \/ KeygenWrite

LifeSpec == LifeInit /\ [][LifeNext]_allVars

(* Requests and beats of the heartbeat that do not overlap. *)
SerialLifeSpec == LifeInit /\ [][LifeNext /\ OneAtATime']_allVars

(* Go runs a goroutine that can run, a statement on the database returns,  *)
(* the heartbeat's ticker and the deadline of Shutdown fire while the      *)
(* process lives, and a process that has ended is started again.  A        *)
(* statement may fail any number of times, but not every time it is tried. *)
(* Clients, signals and failures need not come, nor a body that was        *)
(* announced.                                                              *)
Fairness == /\ WF_allVars(Start) /\ WF_allVars(Rebuild) /\ WF_allVars(Exit)
            /\ WF_allVars(Listen) /\ WF_allVars(Shutdown) /\ WF_allVars(Drained \/ Deadline)
            /\ \A h \in Handlers : WF_allVars(HandlerStep(h))
            /\ WF_allVars(HeartbeatStart) /\ WF_allVars(BeatStep)
            /\ SF_allVars(beating /\ BeatSaves)
            /\ WF_allVars(KeygenWrite)

FairSpec == LifeSpec /\ Fairness
-----------------------------------------------------------------------------
(* Every variable of the process holds a value of its type. *)
LifeTypeOK == /\ proc \in {"down", "up", "draining", "closing"}
              /\ listening \in BOOLEAN /\ cancelled \in BOOLEAN /\ beating \in BOOLEAN
              /\ reading \subseteq Handlers
              /\ interval \in Int
              /\ {keyFile, operatorKey, latestKey} \subseteq {OldKey, NewKey, Nil}

(* Whatever ends the process, in whatever state its requests are, and      *)
(* whatever is still running when the database is closed, the database and *)
(* the clients see a LogServer that crashed, with statements that failed   *)
(* (server.go:117-124, main.go:57, 164-174): what is proved of LogServer   *)
(* holds of the process.                                                   *)
Server == INSTANCE LogServer WITH Faults <- Faults \cup (FaultKinds \ {"insertAck"})
ServerKept == Server!Spec

(* Every request is answered, or its process ends (handlers.go:15-146). *)
Answered == \A h \in Handlers : pc[h] # "idle" ~> pc[h] = "idle"

(* The leaves the process holds: those in its tree, those a handler is to  *)
(* append, and all that are committed while it starts.                     *)
Held(l) == \/ l \in Leafs(tree)
           \/ \E h \in Handlers : pc[h] = "append" /\ body[h] = l
           \/ phase = "rebuild" /\ l \in Committed

(* Every entry the process holds gets under the latest head, the one that  *)
(* GET /v1/sth returns, whatever becomes of the request that carried it    *)
(* and of the process: the heartbeat signs what a failed or killed handler *)
(* did not, also after an older head was saved late (heartbeat.go:47-51,   *)
(* main.go:79-90).  An entry whose INSERT lost its result (entries.go:17)  *)
(* is not held before the next start.                                      *)
EventuallyCovered ==
    \A l \in Leaves : Held(l) /\ interval > 0
                       ~> latestSTH # Nil /\ l \in Leafs(latestSTH.rootHash)

(* A signal ends the process, also when a client never sends the body it   *)
(* announced (server.go:117-121).                                          *)
ShutdownEnds == cancelled ~> proc = "down"

(* Whatever ended the process, the service comes back, if its interval is  *)
(* one a ticker takes (main.go:64, server.go:109-123).                     *)
ServesAgain == proc = "down" /\ interval > 0 ~> listening

(* After the operator's key is replaced, the latest head verifies with the *)
(* key that metadata serves as soon as the heartbeat has beaten, even if   *)
(* no entry ever comes (heartbeat.go:47-51, main.go:64-69).                *)
LatestVerifies ==
    latestSTH # Nil /\ latestKey # operatorKey /\ proc = "up" /\ interval > 0
        ~> latestKey = operatorKey \/ proc # "up"
=============================================================================
