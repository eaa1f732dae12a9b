----------------------------- MODULE Lifecycle -----------------------------
(***************************************************************************)
(* The objects rcg::System, rcg::Interface and rcg::Device of one GenTL    *)
(* producer: who holds whom (shared and weak pointers), the counters of    *)
(* nested open() calls, the producer's handles and the initialisation of   *)
(* its library.                                                            *)
(*                                                                         *)
(* One application thread makes the calls.  Every call is a step, except   *)
(* the loops over interfaces (opening in System::getInterfaces(), closing  *)
(* in clearSystems(), discovery in the functions getDevices() and          *)
(* getDevice() over all systems), which take a step per interface, and     *)
(* destructors: an object that nobody holds any more is destroyed by a     *)
(* step of its own before the next call.  The application closes only what it has opened;  *)
(* it may drop a pointer without closing.                                  *)
(***************************************************************************)
EXTENDS Naturals, FiniteSets

CONSTANTS
  Systems, Interfaces, Devices,  \* addresses for objects of the three classes
  DeviceIds,   \* ids under which the producer finds devices
  None,        \* null pointer, no id
  MaxOpen,     \* bound on the application's open() calls per object
  Mishaps,     \* what may go wrong: "lost", the producer loses an interface;
               \* "throw", a call inside of one of the loops throws;
               \* "gone", the producer's file leaves the system path;
               \* "late", the application asks a system that clearSystems()
               \* has dropped for interfaces
  MaxMishaps   \* bound on the kinds of mishaps in one behaviour

ASSUME ObjectsAssumption ==
  /\ IsFiniteSet(Systems) /\ IsFiniteSet(Interfaces) /\ IsFiniteSet(Devices)
  /\ Systems \cap Interfaces = {} /\ Systems \cap Devices = {}
  /\ Interfaces \cap Devices = {}
  /\ None \notin Systems \cup Interfaces \cup Devices \cup DeviceIds
ASSUME BoundsAssumption == MaxOpen \in Nat \ {0} /\ MaxMishaps \in Nat
ASSUME MishapsAssumption == Mishaps \subseteq {"lost", "throw", "gone", "late"}

Objects == Systems \cup Interfaces \cup Devices

VARIABLES
  systemList,  \* system_list
  library,     \* the System whose constructor has called GCInitLib
  live,        \* constructed objects
  parent,      \* Interface::parent, Device::parent
  ident,       \* Device::id
  ilist,       \* System::ilist, which keeps interfaces alive
  dlist,       \* Interface::dlist, which does not keep devices alive
  nOpen,       \* n_open of every object
  handle,      \* tl, ifh or dev: null, valid, or freed by the producer
  app,         \* objects the application holds a pointer to
  opens,       \* open() calls of the application not followed by close()
  task,        \* the loop that is running, and its local variables
  seen,        \* mishaps that have happened
  \* What a loop that has thrown left behind; these three only record it.
  leaked,      \* open() calls of the loop that nobody will close
  unopened,    \* listed interfaces that the loop did not come to open
  taken        \* interfaces that clearSystems() has closed although neither it
               \* nor the list had opened them

counters == <<nOpen, handle>>
lists == <<systemList, ilist, dlist>>
objects == <<library, live, parent, ident>>
leftovers == <<leaked, unopened, taken>>
past == <<seen, leftovers>>
vars == <<lists, objects, counters, app, opens, task, past>>

\* all is the system that a discovery over all systems has opened.
Idle == [op |-> "none", todo |-> {}, all |-> None, got |-> {}]

Init ==
  /\ systemList = {} /\ library = None /\ live = {}
  /\ parent = [o \in Objects |-> None]
  /\ ident = [d \in Devices |-> None]
  /\ ilist = [s \in Systems |-> {}]
  /\ dlist = [i \in Interfaces |-> {}]
  /\ nOpen = [o \in Objects |-> 0]
  /\ handle = [o \in Objects |-> "null"]
  /\ app = {} /\ opens = [o \in Objects |-> 0] /\ task = Idle
  /\ seen = {} /\ leaked = [o \in Objects |-> 0] /\ unopened = {} /\ taken = {}

-----------------------------------------------------------------------------
(* Shared pointers. *)

Children(o) == {x \in live : parent[x] = o}

\* A name with a suffix is a variant of the definition that follows it, with a
\* mistake some property has to notice.

Held(o) ==
  \/ o \in app \cup systemList
  \/ \E s \in Systems : o \in ilist[s]
  \/ Children(o) # {}

Unreferenced == {o \in live : ~Held(o)}

Mishap(m) ==
  /\ m \in Mishaps
  /\ seen' = seen \cup {m} /\ Cardinality(seen') <= MaxMishaps

\* No loop is running and no destructor is due.
Ready == task = Idle /\ Unreferenced = {}

-----------------------------------------------------------------------------
(* Opening and closing.  c is a record of nOpen and handle. *)

Now == [n |-> nOpen, h |-> handle]
Becomes(c) == nOpen' = c.n /\ handle' = c.h

Below(o) ==
  {x \in live : \/ parent[x] = o
                \/ parent[x] # None /\ parent[parent[x]] = o}

\* The producer's close call for o: handles below it are freed with it.
Freed(h, o) ==
  [x \in Objects |-> IF x = o THEN "null"
                     ELSE IF x \in Below(o) /\ h[x] = "live" THEN "stale"
                     ELSE h[x]]

Enter(c, o) ==
  [n |-> [c.n EXCEPT ![o] = @ + 1],
   h |-> IF c.n[o] = 0 THEN [c.h EXCEPT ![o] = "live"] ELSE c.h]

\* The handle is closed with the first close() of several.
Leave_FreesNested(c, o) ==
  [n |-> [c.n EXCEPT ![o] = @ - 1], h |-> Freed(c.h, o)]

Leave(c, o) ==
  [n |-> [c.n EXCEPT ![o] = @ - 1],
   h |-> IF c.n[o] = 1 THEN Freed(c.h, o) ELSE c.h]

\* System::open, Interface::open, Device::open that succeed.
OpenSystem(c, s) == Enter(c, s)

OpenInterface(c, i) ==
  Enter(IF c.n[i] = 0 THEN OpenSystem(c, parent[i]) ELSE c, i)

OpenDevice(c, d) ==
  Enter(IF c.n[d] = 0 THEN OpenInterface(c, parent[d]) ELSE c, d)

\* System::close, Interface::close, Device::close.
CloseSystem(c, s) == IF c.n[s] > 0 THEN Leave(c, s) ELSE c

CloseInterface(c, i) ==
  IF c.n[i] = 1 THEN CloseSystem(Leave(c, i), parent[i])
  ELSE IF c.n[i] > 1 THEN Leave(c, i) ELSE c

CloseDevice(c, d) ==
  IF c.n[d] = 1 THEN CloseInterface(Leave(c, d), parent[d])
  ELSE IF c.n[d] > 1 THEN Leave(c, d) ELSE c

Opened(o) ==
  IF o \in Systems THEN OpenSystem(Now, o)
  ELSE IF o \in Interfaces THEN OpenInterface(Now, o)
  ELSE OpenDevice(Now, o)

Closed(o) ==
  IF o \in Systems THEN CloseSystem(Now, o)
  ELSE IF o \in Interfaces THEN CloseInterface(Now, o)
  ELSE CloseDevice(Now, o)

\* open() whose own call of the producer fails: the parent is opened before
\* and closed again.
OpenFails(o) ==
  IF o \in Systems \/ nOpen[o] > 0 THEN Now
  ELSE IF o \in Interfaces
       THEN CloseSystem(OpenSystem(Now, parent[o]), parent[o])
       ELSE CloseInterface(OpenInterface(Now, parent[o]), parent[o])

\* The producer opens o only below a valid handle.
CanOpen(o) ==
  o \notin Systems /\ nOpen[o] = 0 /\ nOpen[parent[o]] > 0
    => handle[parent[o]] = "live"

Open(o) ==
  /\ Ready /\ o \in app
  /\ \/ /\ CanOpen(o) /\ opens[o] < MaxOpen
        /\ Becomes(Opened(o))
        /\ opens' = [opens EXCEPT ![o] = @ + 1]
     \/ nOpen[o] = 0 /\ Becomes(OpenFails(o)) /\ UNCHANGED opens
  /\ UNCHANGED <<lists, objects, app, task, past>>

Close(o) ==
  /\ Ready /\ o \in app /\ opens[o] > 0
  /\ Becomes(Closed(o))
  /\ opens' = [opens EXCEPT ![o] = @ - 1]
  /\ UNCHANGED <<lists, objects, app, task, past>>

-----------------------------------------------------------------------------
(* Systems. *)

\* System::getSystems.  A producer's library is initialised once: a second
\* System for it cannot be constructed while the first one lives.
SystemsReused ==
  /\ systemList # {}
  /\ app' = app \cup systemList
  /\ UNCHANGED <<lists, objects, counters, opens, task, past>>

SystemConstructed ==
  /\ systemList = {} /\ library = None
  /\ \E s \in Systems \ live :
        /\ systemList' = {s} /\ library' = s
        /\ live' = live \cup {s} /\ app' = app \cup {s}
  /\ UNCHANGED <<ilist, dlist, parent, ident, counters, opens, task, past>>

\* The file is not found, or the constructor throws: the system leaves the
\* list and the call throws.
NoSystems ==
  /\ IF systemList = {} THEN UNCHANGED seen ELSE Mishap("gone")
  /\ systemList' = {}
  /\ UNCHANGED <<ilist, dlist, objects, counters, app, opens, task, leftovers>>

GetSystems == Ready /\ (SystemsReused \/ SystemConstructed \/ NoSystems)

\* System::clearSystems: closes the listed interfaces one by one, ...
ClearSystems ==
  /\ Ready
  /\ task' = [Idle EXCEPT !.op = "clear", !.todo = UNION {ilist[s] : s \in systemList}]
  /\ UNCHANGED <<lists, objects, counters, app, opens, past>>

ClearInterface ==
  /\ task.op = "clear"
  /\ \E i \in task.todo :
        /\ Becomes(CloseInterface(Now, i))
        /\ taken' = IF i \in unopened /\ nOpen[i] > 0 THEN taken \cup {i} ELSE taken
        /\ task' = [task EXCEPT !.todo = @ \ {i}]
  /\ UNCHANGED <<lists, objects, app, opens, seen, leaked, unopened>>

\* The interfaces are closed and left in ilist.
ClearDone_KeepsInterfaces ==
  /\ task.op = "clear" /\ task.todo = {}
  /\ systemList' = {}
  /\ task' = Idle
  /\ UNCHANGED <<ilist, dlist, objects, counters, app, opens, past>>

\* ... then drops the interfaces and the systems.
ClearDone ==
  /\ task.op = "clear" /\ task.todo = {}
  /\ ilist' = [s \in Systems |-> IF s \in systemList THEN {} ELSE ilist[s]]
  /\ systemList' = {}
  /\ task' = Idle
  /\ UNCHANGED <<dlist, objects, counters, app, opens, past>>

-----------------------------------------------------------------------------
(* Interfaces. *)

\* System::getInterfaces.
InterfacesReused(s) ==
  /\ handle[s] = "null" \/ ilist[s] # {}
  /\ app' = app \cup ilist[s]
  /\ UNCHANGED <<lists, objects, counters, opens, task, past>>

\* A successful enumeration: fresh objects, which are opened one by one.
InterfacesListed(s, all) ==
  /\ handle[s] # "null" /\ ilist[s] = {}
  /\ \E new \in SUBSET (Interfaces \ live) :
        /\ live' = live \cup new
        /\ parent' = [o \in Objects |-> IF o \in new THEN s ELSE parent[o]]
        /\ ilist' = [ilist EXCEPT ![s] = new]
        /\ task' = [Idle EXCEPT !.op = "open", !.todo = new, !.all = all]
  /\ IF s \in systemList THEN UNCHANGED seen ELSE Mishap("late")
  /\ UNCHANGED <<systemList, dlist, library, ident, counters, app, opens, leftovers>>

GetInterfaces(s) ==
  /\ Ready /\ s \in app
  /\ InterfacesReused(s) \/ InterfacesListed(s, None)

OpenListed ==
  /\ task.op = "open"
  /\ \E i \in task.todo :
        /\ Becomes(OpenInterface(Now, i))
        /\ task' = [task EXCEPT !.todo = @ \ {i}]
  /\ UNCHANGED <<lists, objects, app, opens, past>>

\* The open() of a discovery over all systems that has thrown stays.
LeavesOpen(o) == [leaked EXCEPT ![o] = @ + 1]

\* An open() throws: the rest of the list stays closed.
OpenListedThrows ==
  /\ task.op = "open"
  /\ \E i \in task.todo : Becomes(OpenFails(i))
  /\ task' = Idle
  /\ Mishap("throw")
  /\ unopened' = unopened \cup task.todo
  /\ leaked' = IF task.all = None THEN leaked ELSE LeavesOpen(task.all)
  /\ UNCHANGED <<lists, objects, app, opens, taken>>

InterfacesReturned ==
  /\ task.op = "open" /\ task.todo = {} /\ task.all = None
  /\ app' = app \cup UNION {ilist[s] : s \in Systems}
  /\ task' = Idle
  /\ UNCHANGED <<lists, objects, counters, opens, past>>

-----------------------------------------------------------------------------
(* Devices. *)

\* Interface::getDevices: the discovery needs a valid interface and opens it
\* anew if the producer has lost it.
Reopened(i) ==
  /\ handle[i] # "null"
  /\ handle[i] = "stale" => handle[parent[i]] = "live"
  /\ handle' = [handle EXCEPT ![i] = "live"]
  /\ UNCHANGED nOpen

\* The discovery finds the devices ids; found are the objects for them.
Discovered_NoReuse(i, ids, found) ==
  /\ found \subseteq Devices \ live
  /\ \E name \in [found -> ids] :
        /\ {name[d] : d \in found} = ids /\ Cardinality(found) = Cardinality(ids)
        /\ ident' = [d \in Devices |-> IF d \in found THEN name[d] ELSE ident[d]]
  /\ live' = live \cup found
  /\ parent' = [o \in Objects |-> IF o \in found THEN i ELSE parent[o]]
  /\ dlist' = [dlist EXCEPT ![i] = found]

Discovered(i, ids, found) ==
  LET known == {d \in dlist[i] : ident[d] \in ids}
      names == ids \ {ident[d] : d \in known}
      new == found \ known
  IN  /\ known \subseteq found /\ new \subseteq Devices \ live
      /\ \E name \in [new -> names] :
            /\ {name[d] : d \in new} = names
            /\ Cardinality(new) = Cardinality(names)
            /\ ident' = [d \in Devices |-> IF d \in new THEN name[d] ELSE ident[d]]
      /\ live' = live \cup new
      /\ parent' = [o \in Objects |-> IF o \in new THEN i ELSE parent[o]]
      /\ dlist' = [dlist EXCEPT ![i] = found]

GetDevices(i) ==
  /\ Ready /\ i \in app
  /\ Reopened(i)
  /\ \E ids \in SUBSET DeviceIds, found \in SUBSET Devices :
        /\ Discovered(i, ids, found)
        /\ app' = app \cup found
  /\ UNCHANGED <<systemList, ilist, library, opens, task, past>>

\* The discovery throws after the interface has been opened anew.
GetDevicesThrows(i) ==
  /\ Ready /\ i \in app
  /\ Reopened(i)
  /\ UNCHANGED <<lists, objects, app, opens, task, past>>

\* Interface::getDevice: one of the devices, found by id or name, ...
GetDevice(i) ==
  /\ Ready /\ i \in app
  /\ Reopened(i)
  /\ \E ids \in SUBSET DeviceIds, found \in SUBSET Devices :
        /\ Discovered(i, ids, found)
        /\ \E d \in found : app' = app \cup {d}
  /\ UNCHANGED <<systemList, ilist, library, opens, task, past>>

\* ... or, if the discovery does not show it, a device the producer can open.
GetHiddenDevice(i) ==
  /\ Ready /\ i \in app
  /\ Reopened(i)
  /\ \E d \in Devices \ live, id \in DeviceIds :
        /\ live' = live \cup {d} /\ app' = app \cup {d}
        /\ parent' = [parent EXCEPT ![d] = i]
        /\ ident' = [ident EXCEPT ![d] = id]
  /\ \E still \in SUBSET dlist[i] : dlist' = [dlist EXCEPT ![i] = still]
  /\ UNCHANGED <<systemList, ilist, library, opens, task, past>>

-----------------------------------------------------------------------------
(* The functions getDevices() and getDevice() go through all systems.  They  *)
(* open the system and each interface and close them after the discovery.    *)

AllDevices(s) ==
  /\ Ready /\ s \in systemList
  /\ Becomes(OpenSystem(Now, s))
  /\ task' = [Idle EXCEPT !.op = "enumerate", !.all = s]
  /\ UNCHANGED <<lists, objects, app, opens, past>>

\* System::getInterfaces() inside of it.
EnumerateAll ==
  /\ task.op = "enumerate"
  /\ \/ InterfacesListed(task.all, task.all)
     \/ /\ ilist[task.all] # {}
        /\ task' = [task EXCEPT !.op = "collect", !.todo = ilist[task.all]]
        /\ UNCHANGED <<lists, objects, app, opens, past>>
  /\ UNCHANGED counters

AllOpened ==
  /\ task.op = "open" /\ task.todo = {} /\ task.all # None
  /\ task' = [task EXCEPT !.op = "collect", !.todo = ilist[task.all]]
  /\ UNCHANGED <<lists, objects, counters, app, opens, past>>

\* The interface is not closed after the discovery.
Visited_StaysOpen(i) == [OpenInterface(Now, i) EXCEPT !.h[i] = "live"]

\* Interface::open, the discovery, which needs a valid handle, and close.
Visited(i) == CloseInterface([OpenInterface(Now, i) EXCEPT !.h[i] = "live"], i)

CollectDevices ==
  /\ task.op = "collect"
  /\ \E i \in task.todo, ids \in SUBSET DeviceIds, found \in SUBSET Devices :
        /\ CanOpen(i) /\ handle[task.all] = "live"
        /\ Becomes(Visited(i))
        /\ Discovered(i, ids, found)
        /\ task' = [task EXCEPT !.todo = @ \ {i}, !.got = @ \cup found]
  /\ UNCHANGED <<systemList, ilist, library, app, opens, past>>

\* The opening or the discovery throws: the system stays open, and the
\* interface if it was opened.  Each time counts them up for ever; the bound is
\* one time.
CollectThrows ==
  /\ task.op = "collect" /\ "throw" \notin seen
  /\ \E i \in task.todo :
        \/ /\ nOpen[i] = 0 /\ Becomes(OpenFails(i))
           /\ leaked' = LeavesOpen(task.all)
        \/ /\ CanOpen(i) /\ Becomes(OpenInterface(Now, i))
           /\ leaked' = [LeavesOpen(task.all) EXCEPT ![i] = @ + 1]
  /\ task' = Idle
  /\ Mishap("throw")
  /\ UNCHANGED <<lists, objects, app, opens, unopened, taken>>

\* getDevices() returns all devices; getDevice() the one that is asked for, if
\* it was found, and it visits no interface after it, or only the named one.
Collected ==
  /\ task.op = "collect"
  /\ Becomes(CloseSystem(Now, task.all))
  /\ \/ task.todo = {} /\ app' = app \cup task.got
     \/ \E d \in task.got : app' = app \cup {d}
     \/ app' = app
  /\ task' = Idle
  /\ UNCHANGED <<lists, objects, opens, past>>

-----------------------------------------------------------------------------
(* Pointers and destructors. *)

GetParent(o) ==
  /\ Ready /\ o \in app \ Systems
  /\ app' = app \cup {parent[o]}
  /\ UNCHANGED <<lists, objects, counters, opens, task, past>>

Drop(o) ==
  /\ Ready /\ o \in app
  /\ app' = app \ {o}
  /\ UNCHANGED <<lists, objects, counters, opens, task, past>>

\* ~System, ~Interface, ~Device: an open object closes its handle and, once,
\* its parent.
Destroyed(o) ==
  LET c == [n |-> [nOpen EXCEPT ![o] = 0], h |-> Freed(handle, o)]
  IN  IF nOpen[o] = 0 \/ o \in Systems THEN c
      ELSE IF o \in Interfaces THEN CloseSystem(c, parent[o])
      ELSE CloseInterface(c, parent[o])

Destroy ==
  /\ task = Idle
  /\ \E o \in Unreferenced :
        /\ Becomes(Destroyed(o))
        /\ live' = live \ {o}
        /\ library' = IF o = library THEN None ELSE library
        /\ parent' = [parent EXCEPT ![o] = None]
        /\ ident' = [d \in Devices |-> IF d = o THEN None ELSE ident[d]]
        /\ ilist' = [s \in Systems |-> IF s = o THEN {} ELSE ilist[s]]
        /\ dlist' = [i \in Interfaces |-> IF i = o THEN {} ELSE dlist[i] \ {o}]
        /\ opens' = [opens EXCEPT ![o] = 0] /\ leaked' = [leaked EXCEPT ![o] = 0]
        /\ unopened' = unopened \ {o}
  /\ UNCHANGED <<systemList, app, task, seen, taken>>

\* The producer frees an interface and the devices below it.
InterfaceLost(i) ==
  /\ task = Idle
  /\ handle[i] = "live"
  /\ handle' = [Freed(handle, i) EXCEPT ![i] = "stale"]
  /\ Mishap("lost")
  /\ UNCHANGED <<lists, objects, nOpen, app, opens, task, leftovers>>

Next ==
  \/ GetSystems \/ ClearSystems \/ ClearInterface \/ ClearDone
  \/ \E s \in Systems : GetInterfaces(s)
  \/ OpenListed \/ OpenListedThrows \/ InterfacesReturned
  \/ \E s \in Systems : AllDevices(s)
  \/ EnumerateAll \/ AllOpened \/ CollectDevices \/ CollectThrows \/ Collected
  \/ \E i \in Interfaces :
        \/ GetDevices(i) \/ GetDevicesThrows(i)
        \/ GetDevice(i) \/ GetHiddenDevice(i) \/ InterfaceLost(i)
  \/ \E o \in Objects : Open(o) \/ Close(o) \/ GetParent(o) \/ Drop(o)
  \/ Destroy

Spec == Init /\ [][Next]_vars

-----------------------------------------------------------------------------
(* Properties. *)

\* The open() that getInterfaces() makes for the list it keeps.
OpenedByList(i) ==
  IF \E s \in Systems :
        /\ i \in ilist[s] \ unopened
        /\ task.op = "open" => i \notin task.todo
        /\ task.op = "clear" /\ s \in systemList => i \in task.todo
  THEN 1 ELSE 0

\* The open() of a running discovery over all systems.
OpenedByTask(o) == IF o = task.all THEN 1 ELSE 0

\* Whatever has failed or thrown and whatever destructor has run, n_open is the
\* number of opens of the application, of the interface list, of a discovery
\* over all systems that is running, of the open children, and of such
\* discoveries that have thrown: these leave one open of the system and of the
\* interface, and no other call loses or gains one.  Only after clearSystems()
\* has closed an interface that a listing that threw had not opened, others'
\* opens are short.
OpensAccounted ==
  taken = {} =>
    \A o \in live :
       nOpen[o] = opens[o] + OpenedByList(o) + OpenedByTask(o) + leaked[o]
                  + Cardinality({x \in Children(o) : nOpen[x] > 0})

\* The handle follows the counter.  What is open stays open until its last
\* close(): neither the close() of another pointer nor clearSystems() nor a
\* destructor nor a loop that throws half way takes the handle away, only the
\* producer can, and clearSystems() where it closes an interface that a listing
\* that threw had not opened.  What is closed or destroyed has none, so the
\* producer is never left with a handle that no object owns.
HandleFollowsCounter ==
  \A o \in Objects :
    IF o \notin live \/ nOpen[o] = 0
    THEN handle[o] = "null"
    ELSE \/ handle[o] = "live"
         \/ "lost" \in seen /\ o \notin Systems /\ handle[o] = "stale"
         \/ taken # {}

\* After clearSystems() an application that has dropped its pointers leaves
\* nothing behind: no object, no handle, no initialised library.  After two
\* mishaps something stays, a system out of reach of clearSystems() that holds
\* its own interfaces and is held by them, and nothing else: no device and no
\* interface of another system.
Released ==
  systemList = {} /\ app = {} /\ Ready =>
    /\ \A o \in live : \E s \in Systems : ilist[s] # {} /\ o \in {s} \cup ilist[s]
    /\ seen \cap {"gone", "late"} = {} => live = {} /\ library = None

\* While an object of the last discovery lives, the next discovery hands out
\* that object and no second one for the same device.
ListingReuses ==
  [][\A i \in Interfaces : \A d \in dlist'[i] \ dlist[i], e \in dlist[i] :
        ident[e] # ident'[d]]_vars
=============================================================================
