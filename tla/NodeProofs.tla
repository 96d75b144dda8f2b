----------------------------- MODULE NodeProofs -----------------------------
(***************************************************************************)
(* The node is made of its parts: every step of it is a step of the        *)
(* context pointers and of the instances managers, or leaves them alone,   *)
(* so what is proved of the parts holds of the node.  What joins them is   *)
(* that a call has a context pointer only while it has a runtime.          *)
(***************************************************************************)
EXTENDS Node, ContextPointersProofs, InstancesManagerProofs

(* The managers of the runtime types alone: what holds of the entry Start  *)
(* is at, whose manager may have been replaced since range read it.        *)
Watched == started \cup launched \cup BeingAdded

EntryIsWatched ==
  starting.entry # NoEntry =>
    /\ starting.entry.type \in Types /\ starting.entry.manager # 0
    /\ InstanceManagers[starting.entry.type] \in Watched \cup {starting.entry.manager}
    /\ starting.entry.calling => starting.entry.manager \in started

(* The manager the handler of a message is adding is the one its type has. *)
AddedIsWatched ==
  message.step # "next" =>
    /\ InstanceManagers[Head(message.adding)] \in Watched
    /\ message.step = "stored" => newest # 0

VmInv == VmTypeOK /\ EntryIsWatched /\ AddedIsWatched /\ AliveHaveBeenStarted

LEMMA VmInitEstablishes == VmInit => VmInv
  <1> SUFFICES ASSUME VmInit PROVE VmInv
    OBVIOUS
  <1>1. /\ starting = [todo |-> {}, late |-> {}, entry |-> NoEntry]
        /\ NoEntry = [type |-> "none", manager |-> 0, calling |-> FALSE]
        /\ message = [types |-> <<>>, adding |-> <<>>, step |-> "next"] /\ <<>> \in Seq(Types)
    BY DEF VmInit, NotStarting, NoMessage, NoEntry
  <1>2. starting \in Starting
    BY <1>1, TypesAssumption DEF Starting, Entry
  <1>3. message \in Message /\ message.step = "next"
    BY <1>1 DEF Message
  <1>4. EntryIsWatched
    BY <1>1 DEF EntryIsWatched
  <1>5. AddedIsWatched
    BY <1>3 DEF AddedIsWatched
  <1> QED BY <1>2, <1>3, <1>4, <1>5, TypesAssumption
          DEF VmInit, VmInv, VmTypeOK, AliveHaveBeenStarted

(* A step that stores no manager keeps the invariant when it forgets no    *)
(* manager that is watched, and marks a type only if its own is.           *)
LEMMA WatchKept ==
  ASSUME VmInv, VmTypeOK', EntryIsWatched', AddedIsWatched', Watched \subseteq Watched',
         InstanceManagers' = InstanceManagers,
         \A r \in aliveManagers' : r \in aliveManagers \/ InstanceManagers[r] \in Watched'
  PROVE  VmInv'
  BY DEF VmInv, AliveHaveBeenStarted, Watched

(* Start.                                                                  *)
LEMMA StartKeeps ==
  ASSUME VmInv, StartSteps
  PROVE  VmInv'
  <1> DEFINE e == starting.entry
  <1>1. /\ starting.todo \subseteq Types /\ starting.late \subseteq Types /\ e \in Entry
        /\ starting = [todo |-> starting.todo, late |-> starting.late, entry |-> e]
        /\ InstanceManagers \in [Types -> 0..MaxAdded] /\ MaxAdded \in Nat
        /\ started \subseteq 1..MaxAdded /\ aliveManagers \subseteq Types
        /\ NoEntry \in Entry /\ NotStarting = [todo |-> {}, late |-> {}, entry |-> NoEntry]
    BY TypesAssumption DEF VmInv, VmTypeOK, Starting, Entry, NoEntry, NotStarting
  <1>2. /\ e = [type |-> e.type, manager |-> e.manager, calling |-> e.calling]
        /\ e.type \in Types \cup {"none"} /\ e.manager \in 0..MaxAdded /\ e.calling \in BOOLEAN
        /\ ~NoEntry.calling
    BY <1>1 DEF Entry, NoEntry
  <1>3. UNCHANGED <<InstanceManagers, newest, launched, message>>
    BY DEF StartSteps, Start, StartAliveAlready, StartVM, Started, StartFails, StartEnds,
           NextManager
  <1>4. ASSUME starting' \in Starting, started' \subseteq 1..MaxAdded, started \subseteq started',
               aliveManagers' \subseteq Types, EntryIsWatched',
               \A r \in aliveManagers' : r \in aliveManagers \/ InstanceManagers[r] \in Watched'
        PROVE  VmInv'
    <2>1. VmTypeOK'
      BY <1>3, <1>4 DEF VmInv, VmTypeOK
    <2>2. Watched \subseteq Watched'
      BY <1>3, <1>4 DEF Watched, BeingAdded
    <2>3. AddedIsWatched'
      BY <1>3, <2>2 DEF VmInv, AddedIsWatched
    <2> QED BY <1>3, <1>4, <2>1, <2>2, <2>3, WatchKept
  <1>5. CASE Start \/ StartAliveAlready \/ StartFails \/ StartEnds
    <2>1. started' = started /\ aliveManagers' = aliveManagers
      BY <1>5 DEF Start, StartAliveAlready, StartFails, StartEnds
    <2>2. \E todo, late \in SUBSET Types :
            starting' = [todo |-> todo, late |-> late, entry |-> NoEntry]
      <3>1. CASE Start
        <4>1. starting' = [todo |-> {r \in Types : InstanceManagers[r] # 0},
                           late |-> Types \ {r \in Types : InstanceManagers[r] # 0},
                           entry |-> NoEntry]
          BY <3>1 DEF Start, NotStarting
        <4> QED BY <4>1
      <3>2. CASE StartAliveAlready
        <4>1. starting' = [todo |-> starting.todo, late |-> starting.late, entry |-> NoEntry]
          BY <1>1, <3>2 DEF StartAliveAlready
        <4> QED BY <1>1, <4>1
      <3>3. CASE StartFails \/ StartEnds
        BY <1>1, <3>3 DEF StartFails, StartEnds
      <3> QED BY <1>5, <3>1, <3>2, <3>3
    <2>3. starting' \in Starting /\ starting'.entry = NoEntry
      BY <1>1, <2>2 DEF Starting
    <2>4. EntryIsWatched'
      BY <2>3 DEF EntryIsWatched, NoEntry
    <2> QED BY <1>1, <1>4, <2>1, <2>3, <2>4
  <1>6. ASSUME NEW r \in Types, NextManager(r)
        PROVE  VmInv'
    <2> DEFINE f == [type |-> r, manager |-> InstanceManagers[r], calling |-> FALSE]
    <2>1. /\ starting' = [todo |-> starting.todo \ {r}, late |-> starting.late \ {r}, entry |-> f]
          /\ InstanceManagers[r] # 0 /\ started' = started /\ aliveManagers' = aliveManagers
      BY <1>6 DEF NextManager
    <2>2. f \in Entry /\ f.type = r /\ f.manager = InstanceManagers[r] /\ ~f.calling
      BY <1>1 DEF Entry
    <2> HIDE DEF f
    <2>3. starting' \in Starting /\ starting'.entry = f
      BY <1>1, <2>1, <2>2 DEF Starting
    <2>4. EntryIsWatched'
      BY <1>3, <2>1, <2>2, <2>3 DEF EntryIsWatched
    <2> QED BY <1>1, <1>4, <2>1, <2>3, <2>4
  <1>7. CASE StartVM
    <2> DEFINE f == [type |-> e.type, manager |-> e.manager, calling |-> TRUE]
    <2>1. /\ starting' = [todo |-> starting.todo, late |-> starting.late, entry |-> f]
          /\ started' = started \cup {e.manager} /\ aliveManagers' = aliveManagers /\ e # NoEntry
      BY <1>1, <1>2, <1>7 DEF StartVM
    <2>2. /\ f \in Entry /\ f.type = e.type /\ f.manager = e.manager
          /\ e.type \in Types /\ e.manager \in 1..MaxAdded
          /\ InstanceManagers[e.type] \in Watched \cup {e.manager}
      BY <1>1, <1>2, <2>1 DEF Entry, VmInv, EntryIsWatched
    <2>3. starting' \in Starting /\ starting'.entry = f
      BY <1>1, <2>1, <2>2 DEF Starting
    <2> HIDE DEF f, e
    <2>4. EntryIsWatched'
      BY <1>3, <2>1, <2>2, <2>3 DEF EntryIsWatched, Watched, BeingAdded
    <2> QED BY <1>1, <1>4, <2>1, <2>2, <2>3, <2>4
  <1>8. CASE Started
    <2>1. /\ starting' = [todo |-> starting.todo, late |-> starting.late, entry |-> NoEntry]
          /\ started' = started /\ aliveManagers' = aliveManagers \cup {e.type}
          /\ e.calling /\ e # NoEntry
      BY <1>1, <1>2, <1>8 DEF Started
    <2>2. /\ e.type \in Types /\ e.manager \in started
          /\ InstanceManagers[e.type] \in Watched \cup {e.manager}
      BY <2>1 DEF VmInv, EntryIsWatched
    <2>3. starting' \in Starting /\ starting'.entry = NoEntry
      BY <1>1, <2>1 DEF Starting
    <2> HIDE DEF e
    <2>4. EntryIsWatched'
      BY <2>3 DEF EntryIsWatched, NoEntry
    <2>5. InstanceManagers[e.type] \in Watched'
      BY <1>3, <2>1, <2>2 DEF Watched, BeingAdded
    <2> QED BY <1>1, <1>4, <2>1, <2>2, <2>3, <2>4, <2>5
  <1> QED BY <1>5, <1>6, <1>7, <1>8 DEF StartSteps

LEMMA MessageFields ==
  ASSUME NEW m \in Message, NEW x
  PROVE  /\ [m EXCEPT !.types = x] = [types |-> x, adding |-> m.adding, step |-> m.step]
         /\ [m EXCEPT !.adding = x] = [types |-> m.types, adding |-> x, step |-> m.step]
  <1>1. m = [f \in {"types", "adding", "step"} |-> m[f]]
    BY DEF Message
  <1>2. [m EXCEPT !.types = x] = [types |-> x, adding |-> m.adding, step |-> m.step]
    BY <1>1
  <1>3. [m EXCEPT !.adding = x] = [types |-> m.types, adding |-> x, step |-> m.step]
    BY <1>1
  <1> QED BY <1>2, <1>3

(* The message of a changed configuration: until it adds a manager only    *)
(* its own position moves.                                                 *)
LEMMA MessageMoves ==
  ASSUME VmInv,
         \/ \E supported \in Supports : OnMessage(supported)
         \/ SkipAlive \/ AddMissing \/ NothingToAdd
  PROVE  VmInv'
  <1>1. /\ message.types \in Seq(Types) /\ message.adding \in Seq(Types)
        /\ message = [types |-> message.types, adding |-> message.adding, step |-> message.step]
        /\ (message.adding = <<>> => message.step = "next")
        /\ message.step \in {"next", "stored", "launched"}
    BY DEF VmInv, VmTypeOK, Message
  <1>2. UNCHANGED <<InstanceManagers, aliveManagers, newest, started, launched, starting>>
    BY DEF OnMessage, SkipAlive, AddMissing, NothingToAdd
  <1>3. ASSUME NEW types \in Seq(Types), NEW adding \in Seq(Types),
               message' = [types |-> types, adding |-> adding, step |-> "next"],
               message.step = "next"
        PROVE  VmInv'
    <2>1. message' \in Message /\ message'.step = "next"
      BY <1>3 DEF Message
    <2>2. Watched' = Watched
      BY <1>2, <1>3, <2>1 DEF Watched, BeingAdded
    <2>3. VmTypeOK' /\ EntryIsWatched' /\ AddedIsWatched'
      BY <1>2, <2>1, <2>2 DEF VmInv, VmTypeOK, EntryIsWatched, AddedIsWatched
    <2> QED BY <1>2, <2>2, <2>3, WatchKept
  <1>4. ASSUME NEW supported \in Supports, OnMessage(supported)
        PROVE  VmInv'
    <2>1. message' = [types |-> supported, adding |-> <<>>, step |-> "next"] /\ message.step = "next"
      BY <1>4 DEF OnMessage, NoMessage
    <2>2. supported \in Seq(Types) /\ <<>> \in Seq(Types)
      BY TypesAssumption
    <2> QED BY <1>3, <2>1, <2>2
  <1>5. CASE SkipAlive
    <2>1. Tail(message.types) \in Seq(Types) /\ message.step = "next"
      BY <1>1, <1>5 DEF SkipAlive
    <2>2. message' = [types |-> Tail(message.types), adding |-> message.adding, step |-> "next"]
      BY <1>5, <2>1, MessageFields DEF SkipAlive, VmInv, VmTypeOK
    <2> QED BY <1>1, <1>3, <2>1, <2>2
  <1>6. CASE AddMissing
    <2> DEFINE adding == IF Head(message.types) = "DOCKER_GO" THEN <<"DOCKER_GO", "GO">>
                         ELSE <<Head(message.types)>>
    <2>1. /\ Tail(message.types) \in Seq(Types) /\ Head(message.types) \in Types
          /\ message.step = "next"
      BY <1>1, <1>6 DEF AddMissing
    <2>2. adding \in Seq(Types)
      BY <2>1, TypesAssumption
    <2>3. message' = [types |-> Tail(message.types), adding |-> adding, step |-> "next"]
      BY <1>6 DEF AddMissing, NoMessage
    <2> HIDE DEF adding
    <2> QED BY <1>3, <2>1, <2>2, <2>3
  <1>7. CASE NothingToAdd
    <2>1. Tail(message.adding) \in Seq(Types) /\ message.step = "next"
      BY <1>1, <1>7 DEF NothingToAdd
    <2>2. message' = [types |-> message.types, adding |-> Tail(message.adding), step |-> "next"]
      BY <1>7, <2>1, MessageFields DEF NothingToAdd, VmInv, VmTypeOK
    <2> QED BY <1>1, <1>3, <2>1, <2>2
  <1> QED BY <1>4, <1>5, <1>6, <1>7

(* The three steps of addNewRuntimeType and the goroutine it launches.     *)
LEMMA AddingKeeps ==
  ASSUME VmInv,
         \/ addNewRuntimeType \/ LaunchStartVM \/ MarkAlive
         \/ \E m \in 1..MaxAdded : StartVMLater(m)
  PROVE  VmInv'
  <1>1. /\ message.types \in Seq(Types) /\ message.adding \in Seq(Types)
        /\ message = [types |-> message.types, adding |-> message.adding, step |-> message.step]
        /\ (message.step # "next" => message.adding # <<>>)
        /\ InstanceManagers \in [Types -> 0..MaxAdded] /\ MaxAdded \in Nat
        /\ newest \in 0..MaxAdded
    BY TypesAssumption DEF VmInv, VmTypeOK, Message
  <1>2. starting' = starting
    BY DEF addNewRuntimeType, LaunchStartVM, MarkAlive, StartVMLater
  <1>3. ASSUME NEW step \in {"next", "stored", "launched"}, message.adding # <<>>,
               message' = [types |-> message.types, adding |-> message.adding, step |-> step]
        PROVE  message' \in Message /\ message'.step = step /\ message'.adding # <<>>
    BY <1>1, <1>3 DEF Message
  <1>4. CASE addNewRuntimeType
    <2> DEFINE r == Head(message.adding)
    <2>1. /\ r \in Types /\ newest' = newest + 1 /\ newest' \in 1..MaxAdded
          /\ InstanceManagers' = [InstanceManagers EXCEPT ![r] = newest']
          /\ UNCHANGED <<aliveManagers, started, launched>> /\ message.adding # <<>>
          /\ message.step = "next"
      BY <1>1, <1>4 DEF addNewRuntimeType
    <2>2. message' \in Message /\ message'.step = "stored" /\ message'.adding # <<>>
      BY <1>1, <1>3, <1>4, <2>1 DEF addNewRuntimeType
    <2>3. Watched' = Watched \cup {newest'}
      BY <2>1, <2>2 DEF Watched, BeingAdded
    <2>6. AddedIsWatched'
      <3>1. Head(message'.adding) = r /\ newest' # 0
        BY <1>1, <1>4, <2>1 DEF addNewRuntimeType
      <3>2. InstanceManagers'[r] = newest'
        BY <1>1, <2>1
      <3> QED BY <2>3, <3>1, <3>2 DEF AddedIsWatched
    <2> HIDE DEF r
    <2>4. EntryIsWatched' /\ AliveHaveBeenStarted'
      BY <1>1, <1>2, <2>1, <2>3
      DEF VmInv, VmTypeOK, EntryIsWatched, AliveHaveBeenStarted, Watched
    <2>5. VmTypeOK'
      BY <1>1, <1>2, <2>1, <2>2 DEF VmInv, VmTypeOK
    <2> QED BY <2>4, <2>5, <2>6 DEF VmInv
  <1>5. CASE LaunchStartVM
    <2>1. /\ launched' = launched \cup {newest} /\ message.step = "stored"
          /\ UNCHANGED <<InstanceManagers, aliveManagers, newest, started>>
      BY <1>5 DEF LaunchStartVM
    <2>2. message' \in Message /\ message'.step = "launched" /\ message'.adding # <<>>
      BY <1>1, <1>3, <1>5, <2>1 DEF LaunchStartVM
    <2>3. newest \in 1..MaxAdded
      BY <1>1, <2>1 DEF VmInv, AddedIsWatched
    <2>4. Watched' = Watched
      BY <2>1, <2>2 DEF Watched, BeingAdded
    <2>5. message'.adding = message.adding
      BY <1>1, <1>5 DEF LaunchStartVM
    <2>6. VmTypeOK' /\ EntryIsWatched' /\ AddedIsWatched'
      BY <1>2, <2>1, <2>2, <2>3, <2>4, <2>5
      DEF VmInv, VmTypeOK, EntryIsWatched, AddedIsWatched
    <2> QED BY <2>1, <2>4, <2>6, WatchKept
  <1>6. CASE MarkAlive
    <2>1. /\ aliveManagers' = aliveManagers \cup {Head(message.adding)}
          /\ message.step = "launched" /\ Head(message.adding) \in Types
          /\ UNCHANGED <<InstanceManagers, newest, started, launched>>
          /\ Tail(message.adding) \in Seq(Types)
      BY <1>1, <1>6 DEF MarkAlive
    <2>2. message' \in Message /\ message'.step = "next"
      <3>1. message' = [types |-> message.types, adding |-> Tail(message.adding), step |-> "next"]
        BY <1>6 DEF MarkAlive, NoMessage
      <3> QED BY <1>1, <2>1, <3>1 DEF Message
    <2>3. Watched' = Watched
      BY <2>1, <2>2 DEF Watched, BeingAdded
    <2>4. InstanceManagers[Head(message.adding)] \in Watched
      BY <2>1 DEF VmInv, AddedIsWatched
    <2>5. aliveManagers' \subseteq Types
      BY <2>1 DEF VmInv, VmTypeOK
    <2>6. VmTypeOK' /\ EntryIsWatched' /\ AddedIsWatched'
      BY <1>2, <2>1, <2>2, <2>3, <2>5 DEF VmInv, VmTypeOK, EntryIsWatched, AddedIsWatched
    <2> QED BY <2>1, <2>3, <2>4, <2>6, WatchKept
  <1>7. ASSUME NEW m \in 1..MaxAdded, StartVMLater(m)
        PROVE  VmInv'
    <2>1. /\ m \in launched /\ launched' = launched \ {m} /\ started' = started \cup {m}
          /\ UNCHANGED <<InstanceManagers, aliveManagers, newest, message>>
      BY <1>7 DEF StartVMLater
    <2>2. Watched' = Watched
      BY <2>1 DEF Watched, BeingAdded
    <2>3. VmTypeOK' /\ EntryIsWatched' /\ AddedIsWatched'
      BY <1>2, <2>1, <2>2 DEF VmInv, VmTypeOK, EntryIsWatched, AddedIsWatched
    <2> QED BY <2>1, <2>2, <2>3, WatchKept
  <1> QED BY <1>4, <1>5, <1>6, <1>7

LEMMA VmStepKeeps ==
  ASSUME VmInv, [VmNext]_vmVars
  PROVE  VmInv'
  <1>1. CASE UNCHANGED vmVars
    BY <1>1 DEF vmVars, VmInv, VmTypeOK, EntryIsWatched, AddedIsWatched, AliveHaveBeenStarted,
                Watched, BeingAdded
  <1>2. ASSUME NEW r \in Types, Stop(r)
        PROVE  VmInv'
    BY <1>2 DEF Stop, VmInv, VmTypeOK, EntryIsWatched, AddedIsWatched, AliveHaveBeenStarted,
                Watched, BeingAdded
  <1>3. CASE StartSteps
    BY <1>3, StartKeeps
  <1>4. CASE \E supported \in Supports : OnMessage(supported)
    BY <1>4, MessageMoves
  <1>5. CASE MessageSteps
    BY <1>5, MessageMoves, AddingKeeps DEF MessageSteps
  <1> QED BY <1>1, <1>2, <1>3, <1>4, <1>5 DEF VmNext

(* The manager of a type that counts as alive had its StartVM called, or   *)
(* somebody is about to call it, however Start, Stop and the three steps   *)
(* of adding a manager interleave: no manager that contracts are given to  *)
(* is passed over as alive and left unstarted (vm_factory.go:86-91, 163,   *)
(* 636-646).                                                               *)
THEOREM AliveManagersStarted == VmSpec => []AliveHaveBeenStarted
  <1>1. VmInv /\ [VmNext]_vmVars => VmInv'
    BY VmStepKeeps
  <1>2. VmInv => AliveHaveBeenStarted
    BY DEF VmInv
  <1> QED BY VmInitEstablishes, <1>1, <1>2, PTL DEF VmSpec

----------------------------------------------------------------------------
(* The composition.                                                        *)
NumberedHaveRuntime == \A c \in Numbered : At(c, "runtime")

NodeInv ==
  /\ PointersInv /\ ManagersInv /\ VmInv
  /\ NumberedHaveRuntime
  /\ load \in Loads /\ ending \subseteq Calls

(* What a step of the node does to each part.                              *)
PointersPart == [PointersNext]_pointerVars
ManagersPart == [ManagersNext]_managersVars
VmPart       == [VmNext]_vmVars

(* The calls of the two modules are the same.                              *)
LEMMA UsersAreCalls == Users = Calls
  BY NodeAssumption

LEMMA NodeInitEstablishes == Init => NodeInv
  BY PointersInitEstablishes, ManagersInitEstablishes, VmInitEstablishes
  DEF Init, NodeInv, NumberedHaveRuntime, Numbered, PointersInit

(* A step of one call keeps the runtimes of the others.                    *)
LEMMA NumberedKept ==
  ASSUME NodeInv, NEW c \in Calls,
         At(c, "runtime")' \/ place'[c] = "idle",
         \A d \in Calls : d # c => user'[d] = user[d] /\ place'[d] = place[d]
  PROVE  NumberedHaveRuntime'
  BY DEF NodeInv, NumberedHaveRuntime, Numbered, At

LEMMA RunContractSteps ==
  ASSUME NodeInv, NEW c \in Calls, NEW contract \in Contracts,
         invokeUserContractByRuntime(c, contract)
  PROVE  PointersPart /\ ManagersPart /\ VmPart /\ NumberedHaveRuntime'
  <1> DEFINE k == [manager |-> InstanceManagers["WASMER"], contract |-> contract]
  <1>1. /\ NewRuntimeInstance(c, k)
        /\ UNCHANGED pointerVars /\ UNCHANGED vmVars
        /\ InstanceManagers["WASMER"] # 0
    BY DEF invokeUserContractByRuntime
  <1>2. k \in Key
    BY <1>1, NodeAssumption, ManagersAssumption DEF NodeInv, VmInv, VmTypeOK, Key, Managers
  <1>3. ManagersNext
    BY <1>1, <1>2, UsersAreCalls DEF ManagersNext
  <1>4. NumberedHaveRuntime'
    <2>1. c \notin Numbered
      BY <1>1 DEF NewRuntimeInstance, At, NodeInv, NumberedHaveRuntime
    <2>2. /\ user' = [user EXCEPT ![c].at = "asked", ![c].key = k]
          /\ Numbered' = Numbered
      BY <1>1 DEF NewRuntimeInstance, pointerVars, Numbered
    <2>3. \A d \in Calls : d # c => user'[d] = user[d]
      BY <2>2, UsersAreCalls DEF NodeInv, ManagersInv, ManagersTypeOK
    <2> QED BY <2>1, <2>2, <2>3 DEF NodeInv, NumberedHaveRuntime, Numbered, At
  <1> QED BY <1>1, <1>3, <1>4 DEF PointersPart, ManagersPart, VmPart

LEMMA GetVmPoolSteps ==
  ASSUME NodeInv, NEW c \in Calls, getVmPool(c)
  PROVE  PointersPart /\ ManagersPart /\ VmPart /\ NumberedHaveRuntime'
  <1>1. /\ LookUp(c) \/ LookUpAgain(c) \/ NewVmPoolFails(c) \/ NewVmPool(c)
        /\ UNCHANGED pointerVars /\ UNCHANGED vmVars
    BY DEF getVmPool
  <1>2. ManagersNext
    BY <1>1, UsersAreCalls DEF ManagersNext
  <1>3. NumberedHaveRuntime'
    <2>1. c \notin Numbered
      BY <1>1 DEF LookUp, LookUpAgain, NewVmPoolFails, NewVmPool, NeedsPool, At, NodeInv,
                  NumberedHaveRuntime
    <2>2. \A d \in Calls : d # c => user'[d] = user[d]
      BY <1>1, UsersAreCalls
      DEF LookUp, LookUpAgain, NewVmPoolFails, NewVmPool, HaveRuntime, Drop, NodeInv, ManagersInv,
          ManagersTypeOK
    <2>3. Numbered' = Numbered
      BY <1>1 DEF pointerVars, Numbered
    <2> QED BY <2>1, <2>2, <2>3 DEF NodeInv, NumberedHaveRuntime, Numbered, At
  <1> QED BY <1>1, <1>2, <1>3 DEF PointersPart, ManagersPart, VmPart

LEMMA InvokeSteps ==
  ASSUME NodeInv, NEW c \in Calls,
         EndWithoutInstance(c) \/ NewSimContext(c) \/ EndInvoke(c)
  PROVE  PointersPart /\ ManagersPart /\ VmPart /\ NumberedHaveRuntime'
  <1>1. CASE EndWithoutInstance(c)
    <2>1. /\ At(c, "runtime") /\ Drop(c) /\ UNCHANGED poolVars
          /\ place[c] = "idle" /\ UNCHANGED pointerVars /\ UNCHANGED vmVars
      BY <1>1 DEF EndWithoutInstance
    <2>2. ManagersNext
      BY <2>1, UsersAreCalls DEF ManagersNext
    <2>3. \A d \in Calls : d # c => user'[d] = user[d]
      BY <2>1, UsersAreCalls DEF Drop, NodeInv, ManagersInv, ManagersTypeOK
    <2>4. place' = place
      BY <2>1 DEF pointerVars
    <2>5. NumberedHaveRuntime'
      BY <2>1, <2>3, <2>4, NumberedKept
    <2> QED BY <2>1, <2>2, <2>5 DEF PointersPart, ManagersPart, VmPart
  <1>2. CASE NewSimContext(c)
    <2>1. /\ At(c, "runtime")
          /\ putCtxPointer(c) \/ put(c)
          /\ UNCHANGED managersVars /\ UNCHANGED vmVars
      BY <1>2 DEF NewSimContext
    <2>2. PointersNext
      BY <2>1 DEF PointersNext
    <2>3. \A d \in Calls : d # c => place'[d] = place[d]
      BY <2>1 DEF putCtxPointer, put, NodeInv, PointersInv, PointersTypeOK
    <2>4. user' = user /\ At(c, "runtime")
      BY <1>2, <2>1 DEF managersVars, NewSimContext
    <2>5. NumberedHaveRuntime'
      BY <2>3, <2>4, NumberedKept DEF At
    <2> QED BY <2>1, <2>2, <2>5 DEF PointersPart, ManagersPart, VmPart
  <1>3. CASE EndInvoke(c)
    <2>1. remove(c) /\ Drop(c) /\ UNCHANGED poolVars /\ UNCHANGED vmVars
      BY <1>3 DEF EndInvoke
    <2>2. PointersNext
      BY <2>1 DEF PointersNext
    <2>3. At(c, "runtime")
      BY <2>1 DEF remove, NodeInv, NumberedHaveRuntime, Numbered
    <2>4. ManagersNext
      BY <2>1, <2>3, UsersAreCalls DEF ManagersNext
    <2>5. \A d \in Calls : d # c => user'[d] = user[d] /\ place'[d] = place[d]
      BY <2>1, UsersAreCalls
      DEF Drop, remove, NodeInv, ManagersInv, ManagersTypeOK, PointersInv, PointersTypeOK
    <2>6. place'[c] = "idle"
      BY <2>1 DEF remove, NodeInv, PointersInv, PointersTypeOK
    <2>7. NumberedHaveRuntime'
      BY <2>5, <2>6, NumberedKept
    <2> QED BY <2>1, <2>2, <2>4, <2>7 DEF PointersPart, ManagersPart, VmPart
  <1> QED BY <1>1, <1>2, <1>3

LEMMA ClosingSteps ==
  ASSUME NodeInv,
         \/ \E c \in Calls : CloseFailed(c)
         \/ \E k \in Key : CloseRuntimeInstance(k)
         \/ \E m \in Managers : CloseEverything(m)
  PROVE  PointersPart /\ ManagersPart /\ VmPart /\ NumberedHaveRuntime'
  <1>1. \A c \in Calls : user[c].key \in Key
    BY UsersAreCalls DEF NodeInv, ManagersInv, ManagersTypeOK
  <1>2. /\ \/ \E k \in Key : CloseAVmPool(k) /\ UNCHANGED user
           \/ \E m \in Managers : CloseAllVmPool(m) /\ UNCHANGED user
        /\ UNCHANGED user /\ UNCHANGED pointerVars /\ UNCHANGED vmVars
    BY <1>1 DEF CloseFailed, CloseRuntimeInstance, CloseEverything
  <1>3. ManagersNext
    BY <1>2 DEF ManagersNext
  <1>4. NumberedHaveRuntime'
    BY <1>2 DEF NodeInv, NumberedHaveRuntime, Numbered, At, pointerVars
  <1> QED BY <1>2, <1>3, <1>4 DEF PointersPart, ManagersPart, VmPart

LEMMA ManagerSteps ==
  ASSUME NodeInv, VmNext, UNCHANGED callVars
  PROVE  PointersPart /\ ManagersPart /\ VmPart /\ NumberedHaveRuntime'
  BY DEF callVars, PointersPart, ManagersPart, VmPart, NodeInv, NumberedHaveRuntime, Numbered, At,
         pointerVars, managersVars

(* A step of the node, part by part.                                       *)
LEMMA NodeStep ==
  ASSUME NodeInv, [Next]_nodeVars
  PROVE  PointersPart /\ ManagersPart /\ VmPart /\ NodeInv'
  <1>1. load' = load
    BY DEF Next, nodeVars, invokeUserContractByRuntime, getVmPool, EndWithoutInstance,
           NewSimContext, CloseFailed, EndInvoke, CloseRuntimeInstance, CloseEverything
  <1>2. PointersPart /\ ManagersPart /\ VmPart /\ NumberedHaveRuntime'
    <2>1. CASE UNCHANGED nodeVars
      BY <2>1 DEF nodeVars, callVars, PointersPart, ManagersPart, VmPart, NodeInv,
                  NumberedHaveRuntime, Numbered, At, pointerVars, managersVars
    <2>2. CASE \E c \in Calls :
                 \/ \E contract \in Contracts : invokeUserContractByRuntime(c, contract)
                 \/ getVmPool(c) \/ EndWithoutInstance(c)
                 \/ NewSimContext(c) \/ CloseFailed(c) \/ EndInvoke(c)
      <3>1. PICK c \in Calls :
                 \/ \E contract \in Contracts : invokeUserContractByRuntime(c, contract)
                 \/ getVmPool(c) \/ EndWithoutInstance(c)
                 \/ NewSimContext(c) \/ CloseFailed(c) \/ EndInvoke(c)
        BY <2>2
      <3> QED BY <3>1, RunContractSteps, GetVmPoolSteps, InvokeSteps, ClosingSteps
    <2>3. CASE \/ \E k \in Key : CloseRuntimeInstance(k)
               \/ \E m \in Managers : CloseEverything(m)
      BY <2>3, ClosingSteps
    <2>4. CASE /\ \/ load.starts /\ (StartSteps \/ \E r \in Types : Stop(r))
                  \/ \E supported \in load.lists : OnMessage(supported)
                  \/ MessageSteps
               /\ UNCHANGED <<callVars, load>>
      <3>1. load.lists \subseteq Supports
        BY NodeAssumption DEF NodeInv
      <3>2. VmNext
        BY <2>4, <3>1 DEF VmNext
      <3>3. UNCHANGED callVars
        BY <2>4
      <3> QED BY <3>2, <3>3, ManagerSteps
    <2> QED BY <2>1, <2>2, <2>3, <2>4 DEF Next
  <1>3. PointersInv' /\ ManagersInv'
    BY <1>2, PointersStepKeeps, ManagersStepKeeps DEF PointersPart, ManagersPart, NodeInv
  <1>4. VmInv'
    BY <1>2, VmStepKeeps DEF VmPart, NodeInv
  <1>5. ending' \subseteq Calls
    BY DEF NodeInv, Next, nodeVars, callVars, invokeUserContractByRuntime, getVmPool,
           EndWithoutInstance, NewSimContext, CloseFailed, EndInvoke, CloseRuntimeInstance,
           CloseEverything
  <1> QED BY <1>1, <1>2, <1>3, <1>4, <1>5 DEF NodeInv

(* Every part of the node does what its own specification allows: how      *)
(* Invoke, getVmPool and the messages of the node put the parts together   *)
(* takes nothing from what each part promises (runtime.go:41,              *)
(* vm_factory.go:354).                                                     *)
THEOREM NodeImplementsItsParts == Spec => PointersSpec /\ ManagersSpec /\ VmSpec
  <1>1. Init => PointersInit /\ ManagersInit /\ VmInit
    BY DEF Init
  <1>2. NodeInv /\ [Next]_nodeVars => [PointersNext]_pointerVars
    BY NodeStep DEF PointersPart
  <1>3. NodeInv /\ [Next]_nodeVars => [ManagersNext]_managersVars
    BY NodeStep DEF ManagersPart
  <1>4. NodeInv /\ [Next]_nodeVars => [VmNext]_vmVars
    BY NodeStep DEF VmPart
  <1>5. NodeInv /\ [Next]_nodeVars => NodeInv'
    BY NodeStep
  <1> QED BY NodeInitEstablishes, <1>1, <1>2, <1>3, <1>4, <1>5, PTL
          DEF Spec, PointersSpec, ManagersSpec, VmSpec

(* On a node, a syscall finds the context of its own call, open pools can  *)
(* be closed and are closed once, and the manager of a type that counts as *)
(* alive was started or is about to be (vm_bridge.go:455,                  *)
(* vm_instances_manager.go:94, vm_factory.go:636-646).                     *)
THEOREM NodeIsSafe ==
  Spec => [](CacheIsRunningCalls /\ OpenPoolsAreRegistered /\ ClosedOnce /\ AliveHaveBeenStarted)
  BY NodeImplementsItsParts, PointersMeanOneCall, OpenPoolsFound, PoolsClosedOnce,
     AliveManagersStarted, PTL

(* The type invariant of the node: pointers, managers of contracts and     *)
(* managers of runtime types (context_pointers of vm_bridge.go,            *)
(* vm_instances_manager.go, vm_factory.go).                                *)
THEOREM NodeTypeOK == Spec => []TypeOK
  <1>1. NodeInv => TypeOK
    BY DEF NodeInv, PointersInv, ManagersInv, VmInv, TypeOK
  <1>2. NodeInv /\ [Next]_nodeVars => NodeInv'
    BY NodeStep
  <1> QED BY NodeInitEstablishes, <1>1, <1>2, PTL DEF Spec
=============================================================================
