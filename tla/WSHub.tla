-------------------------------- MODULE WSHub --------------------------------
(***************************************************************************)
(* The registry of the web hub (src/internal/web/ws.go): how a connection  *)
(* is admitted and closed, how requests for a fresh baseline are combined  *)
(* on a timer, and how the hub shuts down while all of this goes on.       *)
(* Module Stream follows one admitted connection; here there are several   *)
(* and what they exchange is left out.                                     *)
(*                                                                         *)
(* A step is one critical section of mu or of resyncMu.  dispatchMu, which *)
(* is held while a baseline is built, is the variable dispatching.         *)
(***************************************************************************)
EXTENDS Naturals, FiniteSets

CONSTANTS
  Conns,        \* connections; an ended one may be used again
  Limits,       \* the values maxClients may be configured to
  Free, Nil

ASSUME HubAssumption == IsFiniteSet(Conns) /\ Limits \subseteq Nat \ {0}

VARIABLES
  maxClients,      \* configured, never changed
  phase,           \* per connection where its handler and its pumps are
  closed,          \* per connection how far signalClose and close have come
  clients, pending, closing,       \* guarded by mu
  dispatching,     \* the connection that holds dispatchMu, Free if none does
  resyncPending,   \* guarded by resyncMu; Nil is the nil map
  resyncTimer, resyncClosing,
  flushes,         \* the sets that flushResync has taken and not yet served
  owed,            \* history: open connections whose resync is unanswered
  lost,            \* history: those of owed that a flush has given up
  closer           \* where closeClients is, with the clients it has yet to close

hubVars == <<maxClients, phase, closed, clients, pending, closing, dispatching, resyncPending,
             resyncTimer, resyncClosing, flushes, owed, lost, closer>>

registry == <<clients, pending, closing>>
resyncs == <<resyncPending, resyncTimer, resyncClosing, flushes, owed, lost>>

Phases == {"none", "reserved", "upgraded", "registered", "open", "ended"}
Closes == {"no", "signalled", "unlisted", "forgotten"}

-----------------------------------------------------------------------------
(* serveWS *)

Reserve(c) ==
  /\ phase[c] = "none" /\ ~closing
  /\ Cardinality(clients) + pending < maxClients
  /\ pending' = pending + 1
  /\ phase' = [phase EXCEPT ![c] = "reserved"]
  /\ UNCHANGED <<maxClients, closed, clients, closing, dispatching, resyncs, closer>>

(* Mutant: a failed upgrade keeps its reservation.                         *)
UpgradeFails_Keeps(c) ==
  /\ phase[c] = "reserved"
  /\ phase' = [phase EXCEPT ![c] = "none"]
  /\ UNCHANGED <<maxClients, closed, registry, dispatching, resyncs, closer>>

UpgradeFails(c) ==
  /\ phase[c] = "reserved"
  /\ pending' = pending - 1
  /\ phase' = [phase EXCEPT ![c] = "none"]
  /\ UNCHANGED <<maxClients, closed, clients, closing, dispatching, resyncs, closer>>

Upgraded(c) ==
  /\ phase[c] = "reserved"
  /\ phase' = [phase EXCEPT ![c] = "upgraded"]
  /\ UNCHANGED <<maxClients, closed, registry, dispatching, resyncs, closer>>

(* Mutant: closing is not looked at again after the upgrade.               *)
Register_Unchecked(c) ==
  /\ phase[c] = "upgraded" /\ dispatching = Free
  /\ pending' = pending - 1
  /\ clients' = clients \cup {c} /\ dispatching' = c
  /\ phase' = [phase EXCEPT ![c] = "registered"]
  /\ UNCHANGED <<maxClients, closed, closing, resyncs, closer>>

(* If the hub began to close meanwhile the socket is closed; otherwise     *)
(* dispatchMu is kept for the baseline.                                    *)
Register(c) ==
  /\ phase[c] = "upgraded" /\ dispatching = Free
  /\ pending' = pending - 1
  /\ IF closing
     THEN /\ phase' = [phase EXCEPT ![c] = "none"]
          /\ UNCHANGED <<maxClients, clients, dispatching>>
     ELSE /\ clients' = clients \cup {c} /\ dispatching' = c
          /\ phase' = [phase EXCEPT ![c] = "registered"]
  /\ UNCHANGED <<maxClients, closed, closing, resyncs, closer>>

(* Mutant: a refused baseline returns with dispatchMu locked.              *)
Baseline_KeepsLock(c) ==
  /\ phase[c] = "registered"
  /\ \E ok \in {closed[c] = "no", FALSE} :
       /\ phase' = [phase EXCEPT ![c] = IF ok THEN "open" ELSE "ended"]
       /\ closed' = [closed EXCEPT ![c] = IF ~ok /\ @ = "no" THEN "signalled" ELSE @]
       /\ dispatching' = IF ok THEN Free ELSE dispatching
  /\ UNCHANGED <<maxClients, registry, resyncs, closer>>

(* The baseline is queued and the pumps start; a client that was closed    *)
(* meanwhile refuses it, and a baseline may fail to be prepared.           *)
Baseline(c) ==
  /\ phase[c] = "registered"
  /\ \E ok \in {closed[c] = "no", FALSE} :
       /\ phase' = [phase EXCEPT ![c] = IF ok THEN "open" ELSE "ended"]
       /\ closed' = [closed EXCEPT ![c] = IF ~ok /\ @ = "no" THEN "signalled" ELSE @]
  /\ dispatching' = Free
  /\ UNCHANGED <<maxClients, registry, resyncs, closer>>

-----------------------------------------------------------------------------
(* close *)

(* A pump stops: the browser leaves, is too slow, or misbehaves.           *)
Leave(c) ==
  /\ phase[c] = "open" /\ closed[c] = "no"
  /\ closed' = [closed EXCEPT ![c] = "signalled"]
  /\ owed' = owed \ {c} /\ lost' = lost \ {c}
  /\ UNCHANGED <<maxClients, phase, registry, dispatching, resyncPending, resyncTimer,
                 resyncClosing, flushes, closer>>

(* The two sections of close.                                              *)
Unlist(c) ==
  /\ closed[c] = "signalled"
  /\ clients' = clients \ {c}
  /\ closed' = [closed EXCEPT ![c] = "unlisted"]
  /\ UNCHANGED <<maxClients, phase, pending, closing, dispatching, resyncs, closer>>

Forget(c) ==
  /\ closed[c] = "unlisted"
  /\ resyncPending' = IF resyncPending = Nil THEN Nil ELSE resyncPending \ {c}
  /\ closed' = [closed EXCEPT ![c] = "forgotten"]
  /\ UNCHANGED <<maxClients, phase, registry, dispatching, resyncTimer, resyncClosing,
                 flushes, owed, lost, closer>>

(* Both pumps see the closed socket.                                       *)
PumpsEnd(c) ==
  /\ phase[c] = "open" /\ closed[c] # "no"
  /\ phase' = [phase EXCEPT ![c] = "ended"]
  /\ UNCHANGED <<maxClients, closed, registry, dispatching, resyncs, closer>>

(* Nothing of it is left in the handler, the pumps or close.               *)
Gone(c) ==
  /\ phase[c] = "ended" /\ closed[c] = "forgotten"
  /\ \A set \in flushes : c \notin set
  /\ resyncPending # Nil => c \notin resyncPending
  /\ c \notin closer.left
  /\ phase' = [phase EXCEPT ![c] = "none"]
  /\ closed' = [closed EXCEPT ![c] = "no"]
  /\ UNCHANGED <<maxClients, registry, dispatching, resyncs, closer>>

-----------------------------------------------------------------------------
(* Resync *)

(* Mutant: a request during a flush relies on the timer of that flush.     *)
RequestResync_OneFlush(c) ==
  /\ phase[c] = "open" /\ ~resyncClosing
  /\ resyncPending' = resyncPending \cup {c}
  /\ resyncTimer' = (resyncTimer \/ flushes = {})
  /\ owed' = IF closed[c] = "no" THEN owed \cup {c} ELSE owed
  /\ lost' = lost \ {c}
  /\ UNCHANGED <<maxClients, phase, closed, registry, dispatching, resyncClosing, flushes, closer>>

(* requestResync, from the read pump; another pump may already have closed *)
(* the client.  The timer that is set covers later requests too.           *)
RequestResync(c) ==
  /\ phase[c] = "open" /\ ~resyncClosing
  /\ resyncPending' = resyncPending \cup {c}
  /\ resyncTimer' = TRUE
  /\ owed' = IF closed[c] = "no" THEN owed \cup {c} ELSE owed
  /\ lost' = lost \ {c}
  /\ UNCHANGED <<maxClients, phase, closed, registry, dispatching, resyncClosing, flushes, closer>>

(* flushResync: the timer fires and the set is taken, and later, under     *)
(* dispatchMu, each of its clients is queued one baseline.  A flush may    *)
(* begin while an earlier one waits for dispatchMu.  Of two that wait with *)
(* the same set one is enough: it succeeds if either of them would.        *)
TakeResync ==
  /\ resyncTimer /\ ~resyncClosing
  /\ flushes' = flushes \cup {resyncPending}
  /\ resyncPending' = {} /\ resyncTimer' = FALSE
  /\ lost' = lost \ resyncPending
  /\ UNCHANGED <<maxClients, phase, closed, registry, dispatching, resyncClosing, owed, closer>>

Answer(set) == owed' = owed \ set /\ lost' = lost \ set

(* The baseline cannot be prepared: nothing is queued and nobody is told.  *)
GiveUp(set) == set # {} /\ owed' = owed /\ lost' = lost \cup (set \cap owed)

FlushResync(set) ==
  /\ set \in flushes /\ dispatching = Free
  /\ flushes' = flushes \ {set}
  /\ \/ closing /\ owed' = {} /\ lost' = {}
     \/ ~closing /\ (Answer(set) \/ GiveUp(set))
  /\ UNCHANGED <<maxClients, phase, closed, registry, dispatching, resyncPending, resyncTimer,
                 resyncClosing, closer>>

-----------------------------------------------------------------------------
(* closeClients *)

Running == [pc |-> "running", left |-> {}, at |-> Nil]

StopResync ==
  /\ closer = Running
  /\ closer' = [closer EXCEPT !.pc = "stopping"]
  /\ resyncClosing' = TRUE /\ resyncPending' = Nil /\ owed' = {} /\ lost' = {}
  /\ UNCHANGED <<maxClients, phase, closed, registry, dispatching, resyncTimer, flushes>>

StartClosing ==
  /\ closer.pc = "stopping"
  /\ closing' = TRUE
  /\ closer' = [closer EXCEPT !.pc = "closing", !.left = clients]
  /\ UNCHANGED <<maxClients, phase, closed, clients, pending, dispatching, resyncs>>

(* c.close() for one client after the other; a call returns when the first *)
(* call for that client has.                                               *)
CloseClient(c) ==
  /\ closer.at = Nil /\ c \in closer.left
  /\ closer' = [closer EXCEPT !.at = c]
  /\ closed' = [closed EXCEPT ![c] = IF @ = "no" THEN "signalled" ELSE @]
  /\ UNCHANGED <<maxClients, phase, registry, dispatching, resyncs>>

ClientClosed ==
  /\ closer.at # Nil /\ closed[closer.at] = "forgotten"
  /\ closer' = [closer EXCEPT !.left = @ \ {closer.at}, !.at = Nil]
  /\ UNCHANGED <<maxClients, phase, closed, registry, dispatching, resyncs>>

AllClosed ==
  /\ closer.pc = "closing" /\ closer.left = {}
  /\ closer' = [closer EXCEPT !.pc = "done"]
  /\ UNCHANGED <<maxClients, phase, closed, registry, dispatching, resyncs>>

-----------------------------------------------------------------------------
HubInit ==
  /\ maxClients \in Limits
  /\ phase = [c \in Conns |-> "none"] /\ closed = [c \in Conns |-> "no"]
  /\ clients = {} /\ pending = 0 /\ closing = FALSE
  /\ dispatching = Free
  /\ resyncPending = {} /\ resyncTimer = FALSE /\ resyncClosing = FALSE
  /\ flushes = {} /\ owed = {} /\ lost = {}
  /\ closer = Running

(* What goes on without anything from outside; the handshake has a         *)
(* timeout, so an upgrade ends.                                            *)
Proceed(c) ==
  \/ UpgradeFails(c) \/ Upgraded(c) \/ Register(c)
  \/ Baseline(c) \/ Unlist(c) \/ Forget(c) \/ PumpsEnd(c)

Close == StartClosing \/ (\E c \in Conns : CloseClient(c)) \/ ClientClosed \/ AllClosed

Resync == TakeResync \/ \E set \in SUBSET Conns : FlushResync(set)

HubNext ==
  \/ \E c \in Conns : Reserve(c) \/ Leave(c) \/ Gone(c) \/ RequestResync(c) \/ Proceed(c)
  \/ Resync \/ StopResync \/ Close

(* A runnable goroutine runs, a mutex is handed over to a goroutine that   *)
(* keeps waiting for it, and the resync timer fires.                       *)
HubFairness ==
  /\ \A c \in Conns :
       /\ SF_hubVars(Proceed(c))
       /\ SF_hubVars(\E set \in SUBSET Conns : c \in set /\ FlushResync(set))
  /\ WF_hubVars(Close) /\ WF_hubVars(TakeResync)

HubSpec == HubInit /\ [][HubNext]_hubVars /\ HubFairness

-----------------------------------------------------------------------------
(* Properties *)

(* The limit counts reservations and clients, each exactly once, so that   *)
(* neither a failed upgrade nor a refused baseline uses up capacity; and   *)
(* a client that is not being closed is registered.                        *)
AdmissionExact ==
  /\ Cardinality(clients) + pending <= maxClients
  /\ pending = Cardinality({c \in Conns : phase[c] \in {"reserved", "upgraded"}})
  /\ clients = {c \in Conns : phase[c] \in {"registered", "open", "ended"}
                               /\ closed[c] \in {"no", "signalled"}}

(* An upgrade that was under way when the hub began to close does not      *)
(* outlive it: closeClients returns with nobody left to serve, and once    *)
(* the resync map is nil nobody writes to it.                              *)
ShutdownComplete ==
  /\ resyncClosing => resyncPending = Nil
  /\ closer.pc = "done" =>
    /\ clients = {}
    /\ \A c \in Conns : phase[c] \in {"registered", "open"} => closed[c] # "no"

(* The shutdown ends, and every reservation with it.                       *)
ShutdownDrains ==
  (closer.pc = "stopping") ~> (closer.pc = "done" /\ pending = 0 /\ dispatching = Free)

(* A request for a baseline is answered, however many share the timer,     *)
(* unless its connection or the hub closes or the flush that took it fails *)
(* to prepare one.  A request that is made or taken after that counts anew.*)
ResyncAnswered == \A c \in Conns : (c \in owed) ~> (c \notin owed \/ c \in lost)
=============================================================================
