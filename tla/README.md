# A TLA+ development for rc_genicam_api

rc_genicam_api is a C++ layer over a GenTL producer: it finds cameras, opens
them, reads and writes their parameters, transfers files and receives images,
which its tools show, store and turn into point clouds.  This directory holds
TLA+ modules that model it, configurations with which TLC checks them, and
proofs for TLAPS.  Paths below are relative to the repository; file names
without a path are in `rc_genicam_api/`.

Contents: [inventory](#1-inventory), [modules](#2-modules-and-code),
[runs](#3-runs), [disagreements](#4-where-code-and-documentation-disagree),
[proofs](#5-proofs), [limits](#6-what-is-not-modelled), [plan](#7-plan).

## 1. Inventory

### How the parts interact

```
 system_list ──> System ──ilist──> Interface ··dlist··> Device ··slist··> Stream ── Buffer
                    ^────parent──────┘  ^────parent───────┘  ^───parent─────┘        │
                                                             │                       v
   gc_file ── loadFile, saveFile ── node maps of the device ─┘      Image, ImageList, image
   gc_config, gc_stream ── setString, getString, editor ─────┘      files, point cloud
```

Solid arrows are `shared_ptr`, dotted ones `weak_ptr`.  A child keeps its parent
alive; only a system also keeps its interfaces (`ilist`), because producers
need open interfaces for enumeration.  Each object has a mutex, a counter
`n_open` and a handle of the producer.  The first `open()` of an object opens
its parent as well and the last `close()` closes it; destructors do what was
not done.  All calls go down to the producer, a shared library loaded once
(`GCInitLib`), and for parameters through `CPort` to the GenApi node maps.

| Component | State | Operations | What must be right |
|---|---|---|---|
| System (`system.cc`) | `system_list`, `n_open`, `tl`, `ilist`, node map | `getSystems`, `clearSystems`, `open`, `close`, `getInterfaces` | one System per producer; lists give the objects that exist; `clearSystems()` frees everything |
| Interface (`interface.cc`) | `n_open`, `ifh`, `dlist`, node map | `open`, `close`, `getDevices`, `getDevice` | counters add up with the parent's; devices are not duplicated; a lost interface is recovered |
| Device (`device.cc`) | `n_open`, `dev`, `rp`, `event`, `event_buffer`, `slist`, two node maps | `open`, `close`, `getStreams`, `getDevices` over all systems, `enableModuleEvents`, `getModuleEvent`, `abortWaitingForModuleEvents` | as above; a waiting thread survives close and gets its own events; a discovery leaves no open object |
| Stream (`stream.cc`) | `n_open`, `stream`, `bn`, `event`, node map | `open`, `close`, `startStreaming`, `stopStreaming`, `grab`, `attachBuffers` | what is started is stopped, whatever fails on the way; one owner per buffer |
| Buffer (`buffer.cc`) | the handle lent by `grab()`, chunk adapter | `setHandle`, `setNodemap`, readers | refers to a buffer only as long as it is lent |
| Parameters (`config.cc`) | none, works on node maps | typed get and set, `setString`, `getString` | the text of a value stands for that value; errors are reported |
| Files of a device (`config.cc`, `tools/gc_file.cc`) | offset, length, open file | `loadFile`, `saveFile` | all bytes in order, or an error |
| Node map editor (`nodemap_edit.cc`) | list, focus, scroll position, edited text, list of changes | keys, resizing, `edit` | what is focused is visible; the recorded changes restore the parameters |
| `tools/gc_stream.cc` | retries, counts, trigger thread | the grabbing loop | ends, stops and closes in order, reports failure |
| ImageList (`imagelist.cc`), `tools/gc_pointcloud.cc` | lists of images, counter | `add`, `find`, `removeOld`; the synchronizing loop | stored images belong together; none that can be stored is missed |
| Image, files, point cloud (`image.cc`, `image_store.cc`, `pointcloud.cc`) | rows of a conversion, files on the disk | `convertImage`, `storeImage`, `storeImageAsDisparityPFM`, `storePointCloud` | every line of a file is computed of the right bytes; the mesh fits to its header |
| `cport.cc`, `gentl_wrapper_*.cc`, `exception.cc`, `nodemap_out.cc`, `gc_info`, `gc_config`, examples | next to none | | |
| Producer and GenApi (third party) | handles, buffer queues, events, remote registers | | external |

### What is hard

* **Partial failure.** `startStreaming()`, `stopStreaming()` and every `open()`
  are long sequences of producer calls and node accesses of which each may fail
  or throw; the state after an exception is part of the interface.  Blocks of a
  file may be short or refused, a disk may be full.
* **Lifetime.** Reference counts, weak lists, counters that span four levels
  and destructors that run at any of the places where a pointer is released.
* **Concurrency.** A thread waits for module events, without the mutex, while
  another closes the device.  Objects may be used by several threads, so the
  order of locks through four levels matters, also in destructors.  gc_stream
  triggers the device in a second thread.
* **Order and loss.** Images of four components arrive in any order, in one
  buffer or several, complete or not.  Selectors make the order of changes of
  parameters matter.
* **Limits.** Announced buffers, lists of images, retries, numbers of files,
  the width of an `int`, the height of a terminal that changes.

`PROJECT.json` lists each hazard at its line with the properties that cover
it, or the reason why none does.

## 2. Modules and code

A definition whose name has a suffix (`StopDone_KeepsLock`) is a variant of the
one that follows it with a plausible mistake; it takes no part in the model and
shows that some property notices it.

```
 BufferLoan <─implements─ Stream <─extends─ GrabLoop        FileTransfer <─implements─ FileAccess
 Parameters <─ NodemapEdit <─ EditSession                   ImageData <─ ImageStore ┐
 ImageList  <─ PointcloudSync                               PointCloud ─────────────┴> StoredData
 Lifecycle     ModuleEvents     Locks
```

### Stream, BufferLoan

`Stream.tla` models `rcg::Stream` with its `Buffer`, the state of the parent
device it depends on, and the producer's side of the stream.

| TLA+ | Code |
|---|---|
| `nOpen`, `stream`, `bn`, `event` | the members of that name; "stale" is a handle that the producer has freed or unregistered and the object still keeps |
| `held`, `adapter`, `attachedTo` | `Buffer::buffer`, `Buffer::chunkadapter` and what it is attached to |
| `dev`, `params` | device open or not, `TLParamsLocked` |
| `link` | "faulty" after any failed access to the device; only read by properties |
| `announced`, `pool`, `filled`, `engine` | the producer (external); an engine that is "limited" stops by itself (`AcquisitionEnds`) after the number of buffers that `startStreaming()` was given |
| `waiting`, `ret` | `grab()` is in `EventGetData`; result of the last call |
| `told` | what the application knows from the calls it has made: "stopped", "started", or that the last start or stop threw |
| `app` | "careful" if the application starts on an open device and calls stop or close after a start before it closes the device, as the tools and examples do (`Disciplined`); chosen at the start |

A careful application acts on what the calls tell it, not on members of the
library: it has done its part when it has called `stopStreaming()` or `close()`,
whether or not that call threw, and a start that threw need not be stopped.
Even so it can meet the null node map, but only after an access to the device
has failed; `SafeWhenDisciplined` says exactly that, and that what it was told
is true otherwise.

Every call is one action made of one disjunct for every way through the
function: `OpenFirst`, `CloseThrows`, `StartProducerFails`, `StartAcquires`,
`StopDone`, `StopThrowsEarly`, `StopThrowsLate`, and so on.  `grab()` is split
where it waits (`Grab`, then `GrabDeliver`, `GrabTimeout` or `GrabError`), with
`Fill` of the device in between.  `StopProducer` with `RevokeBuffers` is the
part of `stopStreaming()`, of the cleanup in `startStreaming()` and of the
destructor that gives back what the producer holds; the revoke loop is written
as it runs, `bn` buffers.  A null pointer that is dereferenced is the result
"crash", after which nothing happens.

Assumptions about the producer: opening a data stream that is open gives an
error (GenTL, RESOURCE_IN_USE); revoking a flushed buffer succeeds; the number
of buffers, max(min_buffers, getBufAnnounceMin()), is not 0
(`CountsAssumption`; callers in the repository pass 4 or more).

`BufferLoan.tla` says what a stream promises about its buffers without a word on
how: one owner each, one buffer lent, and a buffer that was lent is filled again
only after it has been given back or everything has been restarted.  `LoanKept`
maps the producer's queues and `held` to owners (`OwnerOf`) and is checked and
proved.  An owner "lost" exists because a `grab()` that fails to queue the
previous buffer leaves it announced and out of use; `LossIsReported` says that
this happens only in a call that throws.

### GrabLoop

`GrabLoop.tla` is `main()` of `gc_stream.cc` from the lookup of the device to
the end, on top of `Stream`: every call of the stream is the step of `Stream`
for that call, and the loop adds its own program counter `at`, the rounds `k`,
`retry`, the counts of buffers, the user's interruption and the thread of
`SoftwareTrigger`.  On the normal way out the trigger thread is joined and the
device closed by a call of `main()`, and the list of streams is destroyed after
that, at the end of its scope (`gc_stream.cc:721`, 979, 980): `~Stream` then
works with a handle that the producer has freed, on a device that is closed.
An exception leaves by way of the destructors (`Unwind`): trigger thread
joined, stream destroyed, and the device closed last.  The tool is not
*assumed* to be a careful application; that no crash is reachable is a result,
and rests on the stream having been stopped and closed without an exception
where the device is closed first.  The threads of `gc_stream` share the node map
of the device, which outlives the trigger thread by `LeavesInOrder`.

### Lifecycle

`Lifecycle.tla` models systems, interfaces and devices of one producer, with
one thread.  Objects are addresses.  `live`, `parent`, `ilist`, `dlist`,
`systemList` and `app` (pointers of the application) tell who holds whom.
`nOpen` and `handle` are the members, `opens` the application's share of
`nOpen`.  `handle = "stale"` is a handle below one that was closed or lost.

An object nobody holds is destroyed by a step of its own (`Destroy`) before the
next call, so that chains of destructors (device, interface, system, library)
are followed link by link.  The loops over `ilist`, in `getInterfaces()`,
`clearSystems()` and the functions `getDevices()` and `getDevice()` over all
systems, take one step per interface (`task`); `getDevice()` may stop at any of them
(`Collected`).  What may go wrong is named in
`Mishaps`:

* "throw": a call inside of one of the loops throws, after `ilist` is set, or
  after a discovery has opened a system;
* "lost": the producer invalidates an interface, which `getDevices()` repairs
  by reopening it (`Reopened`);
* "gone": `getSystems()` does not find the producer's file again;
* "late": a system that `clearSystems()` has dropped is asked for interfaces.

`seen` records them for the properties, and three history variables what a
listing that threw has left: `leaked` counts the opens that nobody will undo,
`unopened` holds the interfaces that it listed and did not come to open, and
`taken` those which `clearSystems()` has closed afterwards although only others
had opened them.  Counters stay true if leaked opens are counted; only for
`taken` is nothing claimed.  `GetDevice` includes the discovery
that the function makes; `GetHiddenDevice` is its last attempt with
`IFOpenDevice`.  The application closes only what it has opened, and may drop
pointers without closing.  Listings that fail without changing anything are
stuttering steps.

### ModuleEvents

`ModuleEvents.tla` is `Device::getModuleEvent()` in several threads against
`open`, `close`, `enableModuleEvents` and `abortWaitingForModuleEvents` in the
main thread.  The function has two critical sections, `Check` and `ReturnEvent`
or `ReturnNothing`; between them it reads `event` without the mutex (`Wait`),
waits (`Receive`, `Timeout`, `Killed`, `Unregistered`, `WaitFails`) and the
producer writes into `event_buffer`, which all threads share.  Registrations
are numbered, so that an event of an earlier registration is told from one of
the current one.  `met` records what happened during a call: another thread, a
close, an abort.

Assumptions about the producer: `EventKill` that meets no waiting thread ends
the next wait; unregistering an event ends the waits on it with an abort, as
GenTL demands.

### Locks

`Locks.tla` is about the mutexes.  A thread has a list of instructions left
(`todo`).  What an object does under its mutex between two calls of another
object is one instruction; a call of a method puts the method's instructions in
front.  So recursion from `Device::open()` to `System::open()` and back, the
listings that open interfaces, and destructors that run when a local
`shared_ptr` is released all interleave lock by lock.  An exception skips
instructions except those of destructors of local variables, `unlock` and
`release` (`Unwind`).  System and Stream have recursive mutexes (`depth`),
Interface and Device plain ones.  For a stream, `nOpen` is 1 while `bn > 0`, as
that decides whether its destructor calls the device.

It starts with a new program or just after a first discovery.  Every thread has
its own pointers and may give another one a copy (`Share`).  `clearSystems()`
is not called while threads run, streams are started on a device the thread
has opened, and `grab()` is left out.  `Vanish` says whether a device that is
in use may be missing in a listing.

### Parameters, NodemapEdit, EditSession

`Parameters.tla` has the typed access of `config.cc` as operators on a feature,
which is a record of kind, access mode and value: what text a value is printed
as (`Text`), which values a text stands for, and which setting is refused.
Integers have a width (`Bits`), so that the hexadecimal text of a negative
number is one that `std::stoll` refuses; four bytes of an address are read.

`NodemapEdit.tla` is the editor: one loop for the list, one each for executing
a command, choosing an option and editing a text, as in `nodemap_edit.cc`, with
`top_row`, `focus_row` and the cursor as variables, any key at any time and a
screen that changes its size.  Each change that the device accepts is recorded.
The device has a component selector, the component's switch that it selects, a
command that resets it, and one more feature of any kind.

`EditSession.tla` composes them with `gc_stream -e`: the tool prepares the
components (and moves the selector), the user edits, the tool prints a command
line, and the tool is called again with it, on a device in the state of the
first call.  The line is printed without quotes and split at blanks (`Blank`)
when it comes back: an argument ends at the first blank of its value
(`FirstWord`), and what follows is taken for arguments of their own
(`OtherWords`), which are commands that no device has.  A device may store
another value than the one it was given (`Instead`).  Other characters that are
special to a shell are left out, as are texts of registers with an odd number
of digits: bytes are typed as a whole.

### FileAccess, FileTransfer

`FileAccess.tla` has `loadFile()` and `saveFile()` with one step per call of the
file adapter (`ReadBlock`, `ReadNothing`, `ReadAgain`, `WriteBlock`, `LoadEnds`,
`SaveEnds`), and `main()` of gc_file or any application as their caller.  The
device may refuse, shorten or lose a block at any time and knows or does not
know the size of a file; sizes above the largest `int` are included, as the
length that is left is an `int`.  `FileTransfer.tla` is the promise: the
destination is a growing prefix of the source, and complete when the call says so.
When a read moves nothing, `loadFile()` asks for as many bytes as the device then
reports, whatever number that is (`ReadNothing`, up to `MaxReport`), in a buffer
of one block.  If the device has that many bytes to give, memory is overwritten
(`Overrun`) and nothing is claimed from there on; a device without a fault never
does that (`WholeWithoutFaults`).  The answer of `closeFile()` is ignored, so the
file on the device may stay open (`CloseFile`).  The local file of gc_file, a
stream that is not checked, has no state here.

### ImageList, PointcloudSync

`ImageList.tla` has the operations of `imagelist.cc` as operators on sequences;
an image is its time stamp.  `PointcloudSync.tla` is the loop of
`tools/gc_pointcloud.cc` that collects a left, disparity, confidence and error
image.  A buffer has any number of the four parts, or is incomplete; every part
is a step that adds to its list and looks for a set (`Part`, `MatchOf`).  The
device sends the images of each component in the order of their time stamps.
`smooth` records whether each has come in time for the lists.  Parts that are no
image or of another component are left out, as is the command line; they do not
touch this state.  After a failed grab the loop breaks off, and what follows it
still runs (`LoopIsOver`): also then the result is "not synchronized", with exit
code 1, if the last buffer was the last one allowed, and "no images" otherwise,
with exit code 0 although nothing is stored.

### ImageData, ImageStore, PointCloud, StoredData

A byte of an image is named by its address, and a pixel of a file is the
sequence of addresses that it is computed from, so that lines, padding, byte
order, the subsampling of YCbCr and the rotating rows of the Bayer conversion
(`ImageData`, `ConvertBayerLine`) are followed exactly, and color arithmetic
does not appear.  `ImageStore.tla` stores a section of an image line by line as
PNM, PNG or PFM file under the name that `ensureNewFileName()` chooses, which
is a new one unless all numbers are taken.  Formats with pixels that share a
colour (`Groups`) are written in whole groups of four (`Written`): if the width
is no multiple of four, a PNM file has more pixels than its header says, and
the line buffer of a PNG file is overrun, which is undefined (`Overruns`).  A
file may not open (`OpenFails`, `Thrown`), and the disk may be full at any line:
a C++ stream is not good from then on and ends the loop, and libpng jumps back
to `setjmp()`, whose answer is not looked at, and header and lines are written
anew (`PngError`, phase "again").  `PointCloud.tla` has the two passes of
`storePointCloud()`: count points and triangles, then write them; a step is one
pixel, or one cell between four pixels.
`StoredData.tla` joins the two in one state space, in which a behaviour is one
of the two tools.

## 3. Runs

| Run | Instance | States | What it shows |
|---|---|---|---|
| `stream` | 3 buffers, counts 1 to 3, `open()` nested twice, careful and careless applications | 148 911 | Ownership of buffers (`LentBuffer`), what a failed start or stop leaves behind (`NothingLeaks`, `CleanWhileLinkIsUp`), that a careful application meets a null node map or a stale event only after the device has failed (`SafeWhenDisciplined`), what exceptions lose (`LossIsReported`), a waiting `grab()` without timeout returns when the device sends (`InfiniteGrabReturns`), and the refinement of `BufferLoan` (`LoanKept`) |
| `lifecycle` | 2 systems, interfaces and devices, 1 identifier, one mishap of any kind, symmetric objects | 826 837 | Counters add up across levels (`OpensAccounted`), handles follow them (`HandleFollowsCounter`), everything is freed at the end (`Released`), objects are not duplicated (`ListingReuses`) |
| `module_events` | 2 waiting threads, 2 kinds of events, 2 registrations, queue of 1 | 107 496 | What runs without the mutex: no node map after close, only the own registration's event, no end of a wait without a reason, and an abort that wakes a thread which waits alone |
| `pointcloud_sync` | lists of 2 (25 and 50 in the code), 4 buffers without a set (50), times 0 to 3, tolerance 0 and 2 | 528 001 | What is stored is synchronous, no four images of one time stamp are missed, lists are long enough when images come in time, what the tool reports is true |
| `locks` | 2 threads, 1 interface, 2 devices, 1 stream, 4 calls | 103 145 | No deadlock, a handle that was checked stays open, no lost count, every call returns, if devices in use stay listed |
| `file_access` | blocks of 3 (512), largest `int` 9, files up to 11, reports up to 5 | 29 944 | Faultless devices get and give whole files, exit code 0 of gc_file means that all bytes are on the device, transfers end, and the refinement of `FileTransfer` |
| `grab_loop` | 2 buffers, 2 rounds, 2 retries, 4 received buffers, all trigger modes | 66 124 | gc_stream leaves in order, on both ways out and in spite of exceptions (`LeavesInOrder`), writes files of lent buffers only, its exit code is true, and it ends |
| `edit_session` | numbers of 3 bits in base 2, registers of 2 bytes with 1 shown, screens of 1 and 3 lines, 2 columns, 2 changes, devices of `MCEditSession` | 2 688 196 | Focus and cursor stay visible, printed changes restore the session on the next call, confirming without editing keeps a value |
| `stored_data` | 2 numbered names (99), 2 calls, images 2 to 8 wide and up to 4 high in every format; 3 x 3 disparities with at most 2 invalid and 2 near pixels | 172 521 | Lines of a file are computed of the right bytes, but for those that section 4 lists, and the mesh agrees with its header |
| `stream_lost_connection` | 2 buffers | violation | section 4 |
| `locks_self` | as `locks`, devices may vanish | violation | section 4 |
| `edit_replay` | as `edit_session` | violation | section 4 |

### Bounds

The bounds of queues, lists, blocks and names are parameters of the code's own
algorithms, made small so that they are reached: lists that overflow, a block
that is the last one, all names taken, retries used up, a length that exceeds an
`int`, a text wider than its line.  The others cut off repetition (`MaxCalls`,
`MaxMishaps`, `MaxOpen`, `MaxChanges`, `MaxReg`, `MaxQueue`, `MaxTime`,
`Rounds`, `MaxReceived`), each as a guard that names it.

* Two levels of `open()` tell the first from a nested one and the last `close()`
  from an earlier one in `Stream`.  In `Lifecycle` an application opens an
  object at most once, and the second opens come from its children, which open
  their parents.
* Two objects per level are enough for an object that goes while another is
  listed.  One mishap is enough for every property but combinations; the
  theorems cover any number of objects, opens and mishaps.
* Two threads and one chain of objects let every mutex be met from above and
  from below.
* `CHECK_DEADLOCK FALSE` stands where behaviours end: `stream` (a null
  pointer ends the program), `pointcloud_sync` and `stored_data` (the tool ends), and
  `locks` (threads have used up their calls; `NoDeadlock` is the property that
  matters there).

### Fairness

* `Stream`: the device sends (`Fill`), and `EventGetData` returns when a buffer
  is there or its timeout is over.  Neither calls of the application nor
  failures are fair.
* `ModuleEvents`: a thread goes on after it was scheduled, and a wait that can
  end, ends; nobody needs to call abort or close.
* `Locks`: every thread runs on.  It needs no strong fairness because a thread
  that holds a mutex ends its call without waiting for one who waits for it.
* `FileAccess`: calls of the file adapter return.
* `GrabLoop`: the main and the trigger thread run on.  The loop waits at most 3
  seconds in `grab()` and 100 ms in `select()`; neither data, nor keys, nor an
  interruption has to come for `ToolEnds`.

## 4. Where code and documentation disagree

Three disagreements are shown by a run that TLC finds violated.

| Run | Property | What happens |
|---|---|---|
| `stream_lost_connection` | `NoCrashAfterClose` | `CHANGELOG.rst:49` "Fixed crashing when stream and device is closed after loosing connection".  The exception handler of `close()` keeps `bn > 0`; the destructor, after the device was closed, stops again with a null node map (`stream.cc:304`) |
| `locks_self` | `NoDeadlock` | `CHANGELOG.rst:380` "thread safe".  `getDevices()` locks pointers to devices in use under the interface's mutex; if the listing misses one whose last other owner drops it now, its destructor calls `close()` of the same interface in the same thread (`interface.cc:153`, `device.cc:73`).  `getStreams()` has the same shape (`device.cc:420`) |
| `edit_replay` | `CommandLineComplete` | `tools/gc_stream.cc:675` "show complete command line, including edited options".  The tool moves `ComponentSelector` before it opens the editor (line 653) and does not say so; a change of `ComponentEnable` is then applied to the component that the device selects by itself |

Others were met while modelling.  The models follow the code in each of them, and
the properties of the passing runs either allow for what the code does or leave
the case out.  For some there is a configuration in which TLC shows the case by
a counterexample:

| Repeat with | Property | What happens |
|---|---|---|
| `MCFileAccessPieces.cfg MCFileAccess` | `LoadedInPieces` | `config.cc:1163` "load file in pieces of 512 bytes": after a read that moved nothing, the next one asks for as many bytes as the device reports, in a buffer of 512 (`config.cc:1195`) |
| `MCEditSessionBlanks.cfg MCEditSession` | `CommandLineAccepted` | `tools/gc_stream.cc:675` again: a string with a blank is printed without quotes (line 684), and the second call fails with the word behind it |
| `MCEditSessionMac.cfg MCEditSession` | `MacReplayed` | `config.h:161` names MAC addresses among the texts that are converted; four of six bytes are read (`config.cc:482`, also `nodemap_edit.cc:493`) |
| `MCStoredDataBayer.cfg MCStoredData` | `EveryLineStored` | The last row of a Bayer section is converted without moving the rows (`image.cc:649`), so its colours come from pixels of others |
| `MCStoredDataPadded.cfg MCStoredData` | `EveryLineStored` | Disparities with padding are stored with the padding skipped after each pixel instead of each line (`image_store.cc:672`) |
| `MCStoredDataNames.cfg MCStoredData` | `NothingOverwritten` | `image_store.h:49` "produces a new file name": after 99 numbered names the one without suffix is written over (`image_store.cc:84`) |
| `MCStoredDataFull.cfg MCStoredData` | `WholeOrException` | `image_store.h:58` "An exception ... is thrown in case of an error": a full disk, or a PNM file that could not be opened, is not noticed (`image_store.cc:153`) |

*Stream.*
`stream.h:93` "Closes the stream": `DSClose` is called in the handler of an
exception only (`stream.cc:129`), and a `close()` that succeeds leaves the data
stream open.
`stream.cc:269` "revoke buffers in case of an error": an exception of
`AcquisitionStart` (`stream.cc:266`) leaves before.
A failed `DSStartAcquisition` leaves `event` set to an unregistered handle on
which `grab()` then waits (`stream.cc:365`).
`stream.h:148` says `grab()` returns 0 on failure, and it throws when queueing
fails.
An application that has called stop and close, but with an exception from the
device, still meets the null node map when it closes the device and then drops
the stream.
`main()` of gc_stream closes the device before it destroys the stream, whose
destructor hands the producer a handle that is not valid any more
(`gc_stream.cc:979`).

*Systems, interfaces, devices.*
`system.h:105` "all resources are cleaned": a system that is not listed any more
is kept by its own interfaces, and `clearSystems()` does not reach it
(`system.cc:261`).
`interface.h:150` "remains valid until close() of this object is called": if
`getInterfaces()` throws half way (`system.cc:428`), `clearInterfaces()` also
closes interfaces that only the application has opened (`system.cc:609`).
An exception during a discovery over all systems leaves the system or interface
open that the discovery has opened (`device.cc:697`), which the properties count
as `leaked`.

*Parameters and editor.*
`checkFeature()` throws for a feature that is missing, while `config.h` says
"The check succeeds if the feature does not exist".
`setString()` is documented to return true if the value was changed and false if
a conversion failed; it always returns false, and throws on a text that is no
number even with `exception=false`.
The editor shows the old text of the edited line after the terminal was resized,
and on a terminal narrower than a name the length of a register that is read
becomes negative.

*Images and files.*
`imagelist.h:114` says the oldest image within the tolerance is returned; the
code (and `CHANGELOG.rst:186`) take the closest one, with a strict comparison.
A Bayer image of height 1 is read beyond its end, and a section that begins on
an odd line, as gc_stream stores them (`gc_stream.cc:826`), changes the Bayer
pattern.
The lines of a YCbCr image whose width is no multiple of 4 are written beyond
their end (`image_store.cc:240`, 470).
After an error of libpng the file is written anew from `setjmp()` on
(`image_store.cc:354`, 396, 444, 527), on a full disk without end.  When a PNG
file cannot be opened, a pointer is thrown (`throw new`), which no handler of a
tool catches.
gc_file does not look at the stream that it writes a loaded file to
(`gc_file.cc:133`), and its exit code is 0 on a full disk.
When `grab()` of gc_pointcloud times out, the loop ends with exit code 0 and
nothing is stored (`tools/gc_pointcloud.cc:350`), although "Command line tools now
exit with != 0 in case of an error" (`CHANGELOG.rst:374`).

## 5. Proofs

`tlapm M.tla` proves all of module M; `tlc -config X.cfg MCModule` repeats a run.
Every theorem is for all values of the constants that satisfy the named
assumptions beside them, hence also for the sizes of the code.

| Theorem | Property | Inductive invariant and argument |
|---|---|---|
| `StreamProofs!TypeCorrect` | `TypeOK` | itself |
| `LentBufferHolds`, `NothingLeaksHolds`, `CleanWithoutFaults`, `DisciplineSuffices` | `LentBuffer`, `NothingLeaks`, `CleanWhileLinkIsUp`, `SafeWhenDisciplined` | `TypeOK /\ StreamInv`: `EventInv` (announced buffers and a running engine only under an event, `bn` counts them), `WaitInv`, `DeviceInv` (locked parameters).  The core is `RevokesAll`: the loop that revokes `bn` buffers, written as a fold of the queue, leaves none |
| `LossIsReportedHolds` | `LossIsReported` | step property under the same invariant (`LossStep`) |
| `ImplementsLoan` | `LoanKept` | refinement mapping `OwnerOf`; one lemma for each kind of abstract step (`SameStep`, `RestartStep`, `StopStep`, `DropStep`) |
| `ToolUsesStream` | (`LoopSpec => Spec`) | every step of gc_stream is a step of `Stream` or leaves its state alone, so the theorems of `Stream` hold in the tool |
| `LeavesInOrderHolds`, `StoresLentBufferHolds`, `ExitTellsReceivedHolds` | the same names, of `GrabLoop` | `StreamInv` and `LoopInv`: what is open at each place of `main()` (`UseInv`), where the trigger thread can live (`ThreadInv`), that the buffer being stored is lent and counted (`StoreInv`), what rounds have received (`CountInv`) and what the exit code says (`CodeInv`) |
| `LifecycleProofs!OpensAccountedHolds`, `HandleFollowsCounterHolds` | `OpensAccounted`, `HandleFollowsCounter` | `Inv == Pointers /\ Counts /\ Loops /\ Accounts`: who points to whom; closed objects have no handle; what a listing half way through still owes; and each counter is the number of its owners (`Owned`: opens of the application, open children, the system's list, the running loop, and what was leaked), until a closing has taken an open from somebody else (`taken`).  Handles are part of it, since an open parent is what keeps a handle valid |
| `ReleasedHolds` | `Released` | the same with `Listed`: what lives hangs on the list of systems |
| `ListingReusesHolds` | `ListingReuses` | step property, the same invariant |
| `ModuleEventsProofs!NodemapNeedsDeviceHolds`, `OwnRegistrationHolds`, `EndsForItsOwnReasonHolds` | the safety properties of `ModuleEvents` | `DeviceInv` (what is there while open), `OwnRegistration`, `Company` (who has been alone in the function), `OwnBuffer` (the shared buffer holds the event of a thread that was alone) |
| `PointcloudSyncProofs!StoredIsSynchronousHolds`, `NothingMissedHolds`, `ResultIsRightHolds` | the same names | `StoredIsSynchronous`, `Incomplete` (no four images of one time are in the lists between two buffers), and that the loop runs exactly as long as nothing is stored.  The lemma `LeastNumber` provides that a closest image exists, from well-foundedness, in place of an induction |
| `WindowSufficesHolds` | `WindowSuffices` | `Window`: while images come smoothly and nothing is stored, either one component has sent nothing yet and each list has all images of its own (`AllKept`), or the first set becomes complete when the parts of the buffer have been added (`FirstArrives`) |
| `LocksProofs!CodeIsTyped` | (`Spec => []Inv`) | `Inv`: for each thread there is a view, what it has locked, opened and is destroying, from which the instructions left of its call lead to the end of the call, for each kind of instruction and also when an exception skips some; threads destroy different objects (`DyingDiffer`); each counter is the number of its owners in all views (`Accounts`) |
| `CheckedHandleIsOpenHolds`, `OpensAddUpHolds` | the same names | the same invariant, for every value of `Vanish` |
| `NoDeadlockHolds` | `NoDeadlock`, if `Vanish = "no"` | the same invariant, of which `Ordered` is the part that needs the hypothesis: a thread locks from an object towards the system (`Above`), so the owner of a mutex waits only for one of a lower `Level`.  In a set of threads that wait for each other, the owner of a mutex of lowest level contradicts that.  The destructor under the mutex of its parent breaks the order where a producer leaves out what is in use (run `locks_self`) |
| `FileAccessProofs!WholeWithoutFaultsHolds`, `ExitTellsSavedHolds` | the same names | `MovedInv` (what was moved is what the offset says), `CalmInv` (a device without faults), `ToolInv`, `ReportInv` |
| `ImplementsTransfer` | `TransferKept` | the same; the mapping keeps source, destination and report |
| `EditSessionProofs!FocusVisibleHolds` | `FocusVisible` | `FocusInv`, with what every key does to the first line and the focus |
| `CursorInTextHolds`, `ConfirmKeepsHolds`, `ReplayRestoresHolds` | the same names | `SessionInv`: types; each of the two loops edits its own features; and the recorded arguments lead, one `Replays` after the other, from the device at the first call to the edited one, as long as arguments can tell it (`TellInv`).  `ReplayRestores` walks along that path |
| `PrintedIsParsed` | (lemma of the above) | a number of any width printed in the base is read back as itself, for both signs, with `HexIsParsed` and `ShownIsParsed` for registers and texts.  Digits are unique because a least counterexample cannot exist |
| `StoredDataProofs!SectionStoredHolds` | `SectionStored`, which leaves out the lines of section 4 | `CallInv`: what a call has converted or written so far is right, and its pointer and its three rows stand where the next line needs them (`BayerInv`, `Ready`).  `BayerLineIsNearest`: the parity of line and column gives the colour of a pixel, mirroring at the border keeps parity, so the nine cells of the conversion are the closest pixels of each colour.  `LineIsPlain`, `DisparitiesArePlain` for the other formats and PFM |
| `MeshIsSoundHolds` | `MeshIsSound` | `CloudInv`: pixels that are past have the numbers from 0 on in the order of the loops (`IndexInv`), which is also the order of the points (`PointsInv`); both loops over the cells have the same sum before the same cell (`CountInv`); a triangle has one of five shapes of a cell that is past (`FacesInv`).  A shape spans both lines and both columns of its cell, so triangles of different cells differ in a corner (`CellsDiffer`) |

Assumptions, all beside the constants they are about: `BuffersAssumption`,
`CountsAssumption`, `MaxOpenAssumption` (Stream); `RoundsAssumption`,
`RetriesAssumption`, `MaxReceivedAssumption` (GrabLoop); `ObjectsAssumption`,
`ParentAssumption`, `OtherAssumption` (Locks: the objects are a tree of four
levels); `ObjectsAssumption`,
`BoundsAssumption`, `MishapsAssumption` (Lifecycle); `EventsAssumption`,
`BoundsAssumption` (ModuleEvents); `SizesAssumption`, `TimesAssumption`
(PointcloudSync); `BlockAssumption`, `IntMaxAssumption`, `MaxSizeAssumption`, `MaxReportAssumption`
(FileAccess); `NamesAssumption`, `ScreensAssumption`, `ColumnsAssumption`,
`MaxChangesAssumption`, `DevicesAssumption` (the editor; a device is one of
`DevicesOf`, with values that its features can have), `WidthAssumption`,
`RegisterAssumption` (its numbers and registers); `NumbersAreCounted`,
`ImagesHaveSizes`, `SizeIsPositive`, `DisparitiesAreNumbers` (stored data).

Only model-checked:

* Liveness, which is out of the prover's reach: `InfiniteGrabReturns`,
  `AbortReturns`, `CallsReturn`, `TransferEnds`, `ToolEnds`.

Every safety property of the passing runs is also a theorem.

## 6. What is not modelled

* **One stream in several threads.** `grab()` holds the stream's mutex while it
  waits, so stop and close of another thread wait for the timeout.
  `getAvailableBufferCount()` reads without the mutex.  `clearSystems()` is for
  the end of a program and takes no locks of its own; it is not run against
  other threads.
* **`setSystemsPath()` and several producers.** A system is found by its file;
  two producers share no state but the list.
* **Readers.** Functions of `Buffer`, `Stream`, `Device` and `Interface` that
  ask the producer, and the functions of `config.cc` for floating point numbers,
  IEEE 1588 and components, which are sequences of the typed access in
  `Parameters`.
* **Color arithmetic, coordinates, `getColor()`.** Floating point, with no state.
  `getColor()` leaves the color uninitialised for formats it does not know.
* **gc_stream's statistics and its other options, gc_config, gc_info, the
  examples, `nodemap_out.cc`, folding and formatting in the editor.** Calls in
  sequence, and text.  gc_config writes parameters with the functions of
  `Parameters`; with read-only access its summary prints one interface under
  several headings, because `GevInterfaceSelector` cannot be set.
* **`CPort`, the wrapper that loads a producer, exceptions.** They keep no state;
  that their calls fail is part of the modules of the objects that call them.
* **A file system that other programs use.** `ensureNewFileName()` looks whether
  a file exists and opens it later.
* **What undefined behaviour leads to.** Where memory is overwritten (`Overrun`
  of a file's block, `Overruns` of a line) or a null pointer is dereferenced, the
  behaviour ends.
* **The producer that blocks.** Revoking a buffer is assumed to succeed; the loop
  of `stopStreaming()` would not end otherwise.
* **GenApi, the producer, and the headers of GenICam and log4cpp in this
  repository.** Third party, external as far as used.  They are most of the
  lines of the repository, so the lines that the modules model are a third of the
  project's own 14 000 lines and a tenth of all.

## 7. Plan

What could come next, the most useful first:

1. `StreamThreads`: `grab()` with its mutex against stop and close of another
   thread and the destructor, over the operators of `Stream`.
2. `gc_config` and the IEEE 1588 functions over `Parameters`, with the selectors
   that they move.
