------------------------------ MODULE VmManager ------------------------------
(***************************************************************************)
(* The managers of the runtime types (vm_factory.go): Start, Stop and the  *)
(* message of a changed chain configuration, which adds managers while     *)
(* contracts run.  Nothing synchronises them, so each access to one of the *)
(* two maps that another may come before or after is a step of its own.    *)
(*                                                                         *)
(* StartVM of the wasmer manager does nothing; those of other engines are  *)
(* not in this repository, may fail and may take any time.                 *)
(***************************************************************************)
EXTENDS Integers, Sequences

CONSTANTS
  Types,         \* runtime types
  FirstManagers, \* of each type: the manager the node is configured with, or 0
  Provided,      \* types an engine has registered a provider for
  Supports,      \* the support lists messages may carry, as sequences of types
  MaxAdded       \* bounds how many managers are made

ASSUME TypesAssumption ==
  /\ MaxAdded \in Nat
  /\ FirstManagers \in [Types -> 0..MaxAdded]
  /\ Provided \subseteq Types /\ {"DOCKER_GO", "GO"} \subseteq Types
  /\ Supports \subseteq Seq(Types)

VARIABLES
  InstanceManagers,  \* the manager of each type, 0 if there is none
  aliveManagers,
  newest,            \* the manager made last
  started,           \* managers whose StartVM was called
  launched,          \* managers whose StartVM a goroutine has yet to call
  starting,          \* Start: what is left of its range, and the entry it is at
  message            \* OnMessage: types to look at, those being added, and how far

vmVars == <<InstanceManagers, aliveManagers, newest, started, launched, starting, message>>

(* Of an entry Start is at, range has read the manager; calling: StartVM.  *)
NoEntry     == [type |-> "none", manager |-> 0, calling |-> FALSE]
NotStarting == [todo |-> {}, late |-> {}, entry |-> NoEntry]
NoMessage   == [types |-> <<>>, adding |-> <<>>, step |-> "next"]

Entry    == [type : Types \cup {"none"}, manager : 0..MaxAdded, calling : BOOLEAN]
Starting == [todo : SUBSET Types, late : SUBSET Types, entry : Entry]
Message  == [types : Seq(Types), adding : Seq(Types), step : {"next", "stored", "launched"}]

VmTypeOK ==
  /\ InstanceManagers \in [Types -> 0..MaxAdded]
  /\ aliveManagers \subseteq Types
  /\ newest \in 0..MaxAdded
  /\ started \subseteq 1..MaxAdded /\ launched \subseteq 1..MaxAdded
  /\ starting \in Starting
  /\ message \in Message /\ (message.step # "next" => message.adding # <<>>)

(* NewVmManager: nothing is alive yet.                                     *)
VmInit ==
  /\ InstanceManagers = FirstManagers
  /\ aliveManagers = {}
  /\ newest \in {n \in 0..MaxAdded : /\ \A r \in Types : FirstManagers[r] <= n
                                     /\ n \in {0} \cup {FirstManagers[r] : r \in Types}}
  /\ started = {} /\ launched = {}
  /\ starting = NotStarting
  /\ message = NoMessage

----------------------------------------------------------------------------
(* Start goes through the managers in any order; a type that gets its      *)
(* first manager meanwhile may come up or not.                             *)
Start ==
  /\ starting = NotStarting
  /\ LET have == {r \in Types : InstanceManagers[r] # 0} IN
       starting' = [NotStarting EXCEPT !.todo = have, !.late = Types \ have]
  /\ UNCHANGED <<InstanceManagers, aliveManagers, newest, started, launched, message>>

NextManager(r) ==
  /\ starting.entry = NoEntry
  /\ r \in starting.todo \cup starting.late /\ InstanceManagers[r] # 0
  /\ starting' = [todo |-> starting.todo \ {r}, late |-> starting.late \ {r},
                  entry |-> [type |-> r, manager |-> InstanceManagers[r], calling |-> FALSE]]
  /\ UNCHANGED <<InstanceManagers, aliveManagers, newest, started, launched, message>>

StartAliveAlready ==
  /\ starting.entry # NoEntry /\ ~starting.entry.calling
  /\ starting.entry.type \in aliveManagers
  /\ starting' = [starting EXCEPT !.entry = NoEntry]
  /\ UNCHANGED <<InstanceManagers, aliveManagers, newest, started, launched, message>>

(* StartVM is given the manager range has read, whichever the type has now. *)
StartVM ==
  /\ starting.entry # NoEntry /\ ~starting.entry.calling
  /\ starting.entry.type \notin aliveManagers
  /\ starting' = [starting EXCEPT !.entry.calling = TRUE]
  /\ started' = started \cup {starting.entry.manager}
  /\ UNCHANGED <<InstanceManagers, aliveManagers, newest, launched, message>>

Started ==
  /\ starting.entry.calling
  /\ aliveManagers' = aliveManagers \cup {starting.entry.type}
  /\ starting' = [starting EXCEPT !.entry = NoEntry]
  /\ UNCHANGED <<InstanceManagers, newest, started, launched, message>>

(* The first failure ends Start.                                           *)
StartFails ==
  /\ starting.entry.calling
  /\ starting' = NotStarting
  /\ UNCHANGED <<InstanceManagers, aliveManagers, newest, started, launched, message>>

StartEnds ==
  /\ starting.entry = NoEntry /\ starting.todo = {} /\ starting.late # {}
  /\ starting' = NotStarting
  /\ UNCHANGED <<InstanceManagers, aliveManagers, newest, started, launched, message>>

(* Stop, of one type: a manager whose StopVM fails stays alive, and the    *)
(* rest is stopped all the same.                                           *)
Stop(r) ==
  /\ r \in aliveManagers /\ InstanceManagers[r] # 0
  /\ aliveManagers' = aliveManagers \ {r}
  /\ UNCHANGED <<InstanceManagers, newest, started, launched, starting, message>>

----------------------------------------------------------------------------
(* The bus delivers one message after the other.                           *)
OnMessage(supported) ==
  /\ message = NoMessage
  /\ message' = [NoMessage EXCEPT !.types = supported]
  /\ UNCHANGED <<InstanceManagers, aliveManagers, newest, started, launched, starting>>

SkipAlive ==
  /\ message.adding = <<>> /\ message.types # <<>>
  /\ Head(message.types) \in aliveManagers
  /\ message' = [message EXCEPT !.types = Tail(@)]
  /\ UNCHANGED <<InstanceManagers, aliveManagers, newest, started, launched, starting>>

AddMissing ==
  /\ message.adding = <<>> /\ message.types # <<>>
  /\ Head(message.types) \notin aliveManagers
  /\ message' = [NoMessage EXCEPT !.types = Tail(message.types),
                 !.adding = IF Head(message.types) = "DOCKER_GO" THEN <<"DOCKER_GO", "GO">>
                            ELSE <<Head(message.types)>>]
  /\ UNCHANGED <<InstanceManagers, aliveManagers, newest, started, launched, starting>>

(* No provider, one that fails, or one that yields nil.                    *)
NothingToAdd ==
  /\ message.step = "next" /\ message.adding # <<>>
  /\ message' = [message EXCEPT !.adding = Tail(@)]
  /\ UNCHANGED <<InstanceManagers, aliveManagers, newest, started, launched, starting>>

(* addNewRuntimeType makes a manager and stores it, has a goroutine start  *)
(* it, and marks the type alive: three steps, others in between.  The type *)
(* is not tested again: GO may be alive, and so may any type that Start    *)
(* has marked since AddMissing.                                            *)
addNewRuntimeType ==
  /\ message.step = "next" /\ message.adding # <<>>
  /\ Head(message.adding) \in Provided
  /\ newest < MaxAdded
  /\ newest' = newest + 1
  /\ InstanceManagers' = [InstanceManagers EXCEPT ![Head(message.adding)] = newest']
  /\ message' = [message EXCEPT !.step = "stored"]
  /\ UNCHANGED <<aliveManagers, started, launched, starting>>

(* A bug: nothing is launched for a type that is alive.                    *)
LaunchUnlessAlive ==
  /\ message.step = "stored"
  /\ launched' = IF Head(message.adding) \in aliveManagers THEN launched
                 ELSE launched \cup {newest}
  /\ message' = [message EXCEPT !.step = "launched"]
  /\ UNCHANGED <<InstanceManagers, aliveManagers, newest, started, starting>>

LaunchStartVM ==
  /\ message.step = "stored"
  /\ launched' = launched \cup {newest}
  /\ message' = [message EXCEPT !.step = "launched"]
  /\ UNCHANGED <<InstanceManagers, aliveManagers, newest, started, starting>>

MarkAlive ==
  /\ message.step = "launched"
  /\ aliveManagers' = aliveManagers \cup {Head(message.adding)}
  /\ message' = [NoMessage EXCEPT !.types = message.types, !.adding = Tail(message.adding)]
  /\ UNCHANGED <<InstanceManagers, newest, started, launched, starting>>

(* The goroutine: whether StartVM fails is only logged.                    *)
StartVMLater(m) ==
  /\ m \in launched
  /\ launched' = launched \ {m}
  /\ started' = started \cup {m}
  /\ UNCHANGED <<InstanceManagers, aliveManagers, newest, starting, message>>

----------------------------------------------------------------------------
StartSteps ==
  \/ Start \/ StartAliveAlready \/ StartVM \/ Started \/ StartFails \/ StartEnds
  \/ \E r \in Types : NextManager(r)

MessageSteps ==
  \/ SkipAlive \/ AddMissing \/ NothingToAdd
  \/ addNewRuntimeType \/ LaunchStartVM \/ MarkAlive
  \/ \E m \in 1..MaxAdded : StartVMLater(m)

VmNext ==
  \/ StartSteps
  \/ \E r \in Types : Stop(r)
  \/ \E supported \in Supports : OnMessage(supported)
  \/ MessageSteps

VmSpec == VmInit /\ [][VmNext]_vmVars

----------------------------------------------------------------------------
(* Start and OnMessage both pass over a type that is alive, so a manager   *)
(* it has that nobody has started, or is about to, would get contracts and *)
(* never be started.  However Start, Stop and the three steps of adding    *)
(* interleave, and whoever replaced the manager since it was read, the     *)
(* manager of an alive type had its StartVM called, is waited for by a     *)
(* goroutine that calls it, or is the one the handler of a message has     *)
(* just stored and launches next (vm_factory.go:86-91, 163, 636-646).      *)
BeingAdded == IF message.step = "stored" THEN {newest} ELSE {}

AliveHaveBeenStarted ==
  \A r \in aliveManagers : InstanceManagers[r] \in started \cup launched \cup BeingAdded
=============================================================================
