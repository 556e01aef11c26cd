# TLA+ models of the TI OMAP3 multimedia stack

This directory specifies, model-checks and partly proves the control logic of
`android_hardware_ti_omap3`: the hardware support layer of TI's OMAP3 for
Android. It holds TLA+ modules (`*.tla`), TLC configurations (`*.cfg`) and
`PROJECT.json`, which lists components, runs, mutants, hazards,
theorems and, for each definition, the lines of C or C++ it stands for.

    tlc -config RMOneProcess.cfg MCRMSystem     # model-check one configuration
    tlapm LCMLProofs.tla                        # check the proofs of one module

## 1. Inventory

The repository has a thousand files. Most of them are codec variants made from
one template, vendored libraries, generated headers and test programs. The
parts with a logic of their own are these.

| Part | State | Operations | Talks to |
| --- | --- | --- | --- |
| **policy manager** `omx/system/.../omx_policy_manager/src/PolicyManager.c` | active combination, `pComponentList`, `activeComponentList`, pending list | one command per message: request, wait, free, free resources, exit | resource manager, over two FIFOs |
| **resource manager** `.../resource_manager/src/ResourceManager.c` | `componentList`, open FIFO descriptors, `cmd_data`, `globalrequest_cmd_data`, CPU totals, stub mode, recovery flag | `select()` loop with a handler per command and per policy response; a second thread that waits for DSP faults | proxies (one FIFO in, one out per process), policy manager, DSP |
| **resource manager proxy** `.../resource_manager_proxy/src/ResourceManagerProxy.c` | per process: `numClients`, `threadhandle`, `rm_data`, `responsePending`, one semaphore | request, state set, free, register; a thread that reads replies and calls components back | components, resource manager |
| **OMX components** (template: MP3 decoder, `omx/audio/.../mp3_dec/src/`) | OMX state, ports, buffer headers and their owners, counters, flags, a command pipe and a data pipe | client entry points, the component's thread, the callback on LCML's thread, RM callback, `FatalErrorRecover`, `ComponentDeInit` | client, LCML, proxy, core |
| **OMX core** `.../omx_core/src/OMX_Core.c` | `count`, slots `pModules`/`pComponents`, `componentTable` | `TIOMX_Init`, `_GetHandle`, `_FreeHandle`, `_Deinit` under a mutex | its clients, component libraries |
| **clients of the core** `libstagefrighthw/TIOMXPlugin.cpp`, `camera/JpegEncoder.cpp` | handles | constructor, make/destroy component, destructor; encode an image, restart, run | core |
| **LCML** `.../lcml/src/LCML_DspCodec.c` | two rings of buffer slots, mapped regions, control tables, flush flags, a mutex, the DSP node | queue a buffer, control (start, stop, pause, flush, algorithm, destroy); a thread that reads DSP messages and calls back | components, DSP bridge |
| **camera HAL** `camera/` | adapter state, reference counts per buffer and kind of frame, subscribers, message queues, the driver's queue | preview, recording, callbacks, pictures, zoom, focus; preview, display and notifier threads | applications, window, video encoder, V4L driver |
| **libtiutils** | message queue over a pipe, semaphore | put, get, wait | camera threads |
| **hardware composer** `hwc/` | layers, overlays, software vsync thread | prepare, set, blank | SurfaceFlinger |
| others | dspbridge and ion wrappers, security daemon, lights, perf, activity monitor, libexif | ioctls, sysfs writes, formatting | kernel |

`omx/Android.mk` sets `RESOURCE_MANAGER_ENABLED := 0`: the resource manager and
the policy manager are in the tree but not in the default build. The OMX core,
the plugin, LCML, the codec components and the JPEG encoder are in it. The
camera HAL's `Android.mk` is switched off by `ifeq (1,2)`.

**What is hard here.** The three resource-management programs are separate
processes (the proxy a thread in each client process) that exchange messages
without request numbers; the resource manager's handlers and its fault thread
share the global `cmd_data` and the unlocked array `componentList`. Requests of
several processes overlap, a decision arrives after the record it is matched
with has been overwritten, a DSP fault arrives in the middle of a decision,
descriptors are shared by several entries, and components ask and free in
sequences that are not paired. The OMX core is serialised by a mutex, but its
reference count, its two tables and the stale variables of its clients make
long sequences of legal calls hard to predict. An OMX component has three
threads over one structure with few locks: the client counts a buffer after it
has written it to a pipe, the component's thread hands it to LCML, and LCML's
thread gives it back, tests counters and answers commands. LCML finds a returned
buffer by its address in a ring that both threads change, with mappings that may
be kept for reuse. In the camera a buffer is in the window, at the notifier and
at the video encoder at once, each returns it on its own thread, and the thread
that reads commands is the one that waits for frames. Hazards, each at its line, are in
`PROJECT.json`; the properties below are aimed at them.

**What makes each part correct.**

- policy manager: components that run together are allowed together by one
  combination of the policy table; the two arrays describe the same components;
  nobody is registered twice; whoever holds a grant can be freed.
- resource manager: every request gets exactly one decision, and gets it; grants
  are backed by the policy manager and by the DSP; replies can be delivered;
  CPU totals are what the executing components add up to; a fault reaches all
  components and recovery ends.
- LCML: what the DSP hands back is found, once, and its mappings are undone once;
  towards the component it is a lender: a buffer comes back once, and an answer to
  a flush or stop comes when nothing it is about is still lent.
- OMX component: every buffer is in one place and its counters say so; the client
  gets no buffer the DSP has; client and component agree on the state; every
  command is answered.
- camera: a buffer is refilled only when nobody reads it, and none is lost; a stop
  gives the window everything back; every call returns.
- core: what is loaded can be freed, what was freed is not kept, the limits hold.
  The code has this only where its shift leaves no hole (section 4); no use of it makes
  the array elements that are compared or filled lie outside the array.

## 2. Modules

    PolicyManager  <-- PolicyServer  <-- MCPolicyServer,  PolicyServerProofs
    PolicyArbiter  <-- (refined by) PolicyServer
    PolicyManager  <-- (INSTANCE) RMSystem <-- MCRMSystem,  RMSystemProofs <-- RMRegistryProofs
    ResourceManager <-- RMSystem
    OMXCore <-- OMXClients <-- MCOMXClients,  OMXClientsProofs
    BufferLoan <-- (refined by) LCML        <-- MCLCML,  LCMLProofs
    BufferLoan <-- (used by)    Mp3Decoder  <-- MCMp3Decoder,  Mp3DecoderProofs
    CameraFrames <-- MCCameraFrames,  CameraFramesProofs
    LoopLemmas <-- the proof modules: a search by loop finds the first match

**PolicyManager** is the program of that name. Each case of `main()` is an
action; `HandleRequestPolicy` picks one of three outcomes in the code's order
(fits the combination in force; a combination that contains all running
components; a combination with a priority high enough, with preemptions). The
variable `running` is a history variable: the instances told `GRANT` and not yet
told `PREEMPT` or freed. The code keeps no such set, and the properties are about
it. `OMX_U8` priorities keep their width (-1 becomes 255).

**PolicyServer** closes it with a most general client: any command for any
instance at any time. A `PM_FreePolicy` may name an instance that is not
registered, as the resource manager's does for a component that is destroyed
without a grant. The history variable `misfreed` tells that such a free has changed
`activeComponentList`, until nobody is registered any more.

**PolicyArbiter** is what the policy manager promises to the resource manager: who is
`admitted`, who of them are `holders` of a grant, the `combination` in force and what has
been `told`. A grant finds room (`Admit`), displaces everybody for a more important
combination (`Displace`) or stops one other within the combination (`MakeRoom`); whoever
has to stop is told, once, before the grant. `PolicyServer` is checked and proved to
implement it (`ImplementsArbiter`); `admitted` is mapped to the instances in
`pComponentList` and `mistaken` to `misfreed`: an arbiter that no longer knows whom it
has admitted may admit beside them, and keeps everything else it promises. When a
request is refused, and whom `MakeRoom` stops, it leaves open: both
depend on stored priorities, which may be those of another combination (section 4) or
stand at another position than their instance.

**ResourceManager** has the main thread (`rmPc`: `select`, `remove` between
`HandleFreeResource` and the removal that rereads `cmd_data`, `qos` between the
test of `mmuRecoveryInProgress` and the reply) and the fault thread (`watch.pc`).
Those are the points at which a blocking call or a second look at `cmd_data` lets
the other thread, or the handler itself, change what is read next. A handler is
otherwise one step; the instants within it at which the fault thread could also
write `cmd_data` are not told apart.

**RMSystem** composes resource manager, policy manager and the client processes:
FIFOs as sequences, components with the template's state machine, the proxy
thread by what it sends and does with each reply. A component's request goes
through `connecting` (open() of the FIFO), `sending` and `requesting`. `Usage`
names what a run includes beyond the simplest use (see the comment there).

**OMXCore** has an action per way a call can end: `TIOMX_GetHandle` refuses, fails
before or after the `malloc`, or succeeds; `TIOMX_FreeHandle` finds the handle,
finds only the slot, finds nothing, or `ComponentDeInit` fails. `ShiftHandles` is the loop
that moves up the handles behind the freed one, as it is: it clears the place it has
moved from and then skips it, and in a full row it reaches the word behind the array,
which is `refCount`. What
`TIOMX_BuildComponentTable` computes from `tComponentName` is the recursive
function `TableAfter`. `heap` is the set of allocated handles. An address freed can
be returned again by a later `malloc`.

**OMXClients** adds the plugin's nodes and the JPEG encoder, each call of the
core being one step. `owner` is a history variable: who obtained the component
at an address, until its `ComponentDeInit` succeeds; `torn` is one too, the rows in which
an instance was freed that had two or more created after it.

**BufferLoan** is what LCML promises to a component: `lent` buffers, and the
streams `asked` about. It is the seam between the next two modules: `LCML` is
checked and proved to implement it (`ImplementsLoan`), `Mp3Decoder` to be a system in
which it holds on both sides (`UsesLoan`: the decoder lends nothing twice and
asks one thing at a time, and its view of LCML answers as `BufferLoan` allows).

**LCML** has the component's thread (`caller`), `MessagingThread` (`msg`) and the DSP,
with the mutex, both rings (`storage`, `dmm`, `count`), the kept mappings (`reused`),
the control tables, `flush_pending` and a count of mappings per thing mapped.
`PutMessage` is a step of its own because it blocks, with the mutex held, when the
queue to the DSP is full. A message is one step of `MessagingThread`; the callback
that follows without the mutex is another. The DSP holds the buffers of each stream
in order (`dspHeld`) and hands them back one by one; a flush or stop drops what it
holds, and in DASF mode it hands everything back before it answers a stop
(`DspDrain`). Failing maps of data, parameters, structures and control blocks, failing
invalidations of output buffers and puts, DSP faults, and flushes that are answered with an error
(`STRMERR`) happen anywhere, up to `MaxFaults`. After a failed call the component
destroys the codec; `Unfinished` is what that call was mapping.

**Mp3Decoder** has the client's entry points (`SendCommand`, `ThisBuffer`,
`AllocateBuffer`, `FreeBuffer`, ...), the component's thread (`SelectCommand` and a handler
for each command and data message) and `LCML_Callback` on LCML's thread (`Processed`,
`FlushAck`, `StopAck`, `AllReturned`, `PauseAck`, `DspError`). The count of a buffer is a step
after the write of the pipe (`ThisBufferCount`), as in the code, where no mutex
holds the two together. The client is disciplined: one command at a time, legal
from the state it was told, a flush before a port is disabled; once `Trusted` is
false it sends nothing more. `Trusted` and `hist` are history: a buffer was dropped, a flush
missed the DSP, an answer came that no command read had asked for (`Unasked`), or the
component has said that it is Invalid.

**CameraFrames** has the preview thread (`pv`, with the commands of `CameraHal`), the
display thread, the notifier's thread and the camera service's calls, over the
reference counts of `BaseCameraAdapter`. A frame's return (`ReturnFrame`) and the
ioctl that refills the buffer (`FillThisBuffer`) are two steps under
`mReturnFrameLock`; preview and video references of one frame are counted in two
steps, as the code calls `queueToGralloc` twice. Where the code looks up a key that
is not there, or two threads use `mVideoInfo->buf` at once, `undefined` is set and
nothing further is claimed. `stale` is a history variable: buffers of which a frame
was returned or delivered after its preview or recording; with those the window
keeps (`Kept`) they are the `Miscounted` ones.

## 3. Runs

States are distinct states; times on two workers.

| Run | Instance | Checks | States |
| --- | --- | --- | --- |
| `policy_server` | 6 instances of 5 kinds in 2 processes, 3 registered at a time, 4 combinations, every free | `TypeOK`, `RunningSupported`, `KindsMatched`, `ImplementsArbiter` | 245 k, 45 s |
| `rm_one_process` | 3 components of one process that preempt each other or run side by side | `Reachable`, `PolicyFreeable`, `CpuAccounted`, `GrantBacked` | 2.1 M, 175 s |
| `rm_answers` | 2 rivals of one process, cycles below 0, none or enough, fair | `RequestAnswered`, `QosFits` | 82 k, 35 s |
| `rm_two_processes` | 2 processes with equal handle values, fair | `Reachable`, `AnswerAwaited`, `ConnectsEventually` | 55 k |
| `rm_commands` | 1 component, every command, waiting, unused frees, stub mode, exit, one DSP fault at any moment, fair | `TypeOK`, `RegisteredOnce`, `RecoveryEnds` | 622 k, 155 s |
| `omx_nodes` | 5 nodes of 2 plugins, 4 of them for a kind of 3 instances; `ComponentDeInit` may fail | `LiveFreeable`, `NothingLeaks`, `InstancesLimited` | 26 k |
| `omx_shared` | 2 nodes of one plugin and an encoder for one kind, stale variables | `TypeOK` | 978 k, 60 s |
| `lcml_buffers` | 2 input buffers and an output buffer on rings of 2 slots, mappings kept or not | `TypeOK`, `Tracked`, `ImplementsLoan` | 0.93 M, 100 s |
| `lcml_answers` | 1 buffer each way, 1 slot, one failing call, refused flush or DSP fault, fair | `RequestEnds`, `DestroyEnds`, `MapsMatch` | 283 k, 45 s |
| `mp3_buffers` | a player's client with 7 commands, data and end of stream | `TypeOK`, `DspOwns`, `Accounted`, `CountsMatch`, `UsesLoan` | 1.7 M, 90 s |
| `mp3_answers` | 5 commands of any kind, one fault, fair | `StateAgreed`, `IdleEmpty`, `CommandEnds` | 767 k, 165 s |
| `camera_frames` | 2 buffers, 1 kept by the window; 2 previews, a recording, a switch of callbacks, a refused allocation, fair | `TypeOK`, `FilledAlone`, `Circulates`, `DisplayPaced`, `StoppedReturned`, `CommandAnswered` | 647 k, 135 s |

Each property of these runs has a mutant in `PROJECT.json`: a small change of one
modelled definition, of the kind a slip in that code would be, under which TLC
finds the property violated. The mutated forms stand in the modules just
before the definitions they change, marked `Mutant`.

**Bounds.** `Handles`, `Pids`, `KindOf`: two processes are needed for equal handle
values and for stale pids, three components of one process for a preemption
beside a third party that shares the descriptor. The policy tables have kinds in
several combinations with different priorities, one kind alone, and (for the
policy manager) one kind in none. Three registered instances at a time are enough for a
removal that takes different positions of the two arrays with a third one behind. `MaxFds`, `MaxRequests`, `MaxCount`: descriptors
and counters that leak in the code would make the state space infinite; the
bound is one above what correct use needs, so a leak happens and is then cut
off. `FifoBound` delays a writer; with 1 or 2 messages per FIFO the commands and
responses still overtake each other. The code's FIFO holds 64 KiB. `MaxFaults` and
`MaxTries`: one fault, two polls of the fault thread instead of the code's count.
`Wrap` stands for 2^32 in the CPU totals; the totals of an instance stay below
it, so that a decrement too much is visible. `CycleLevels`: one level that is negative, one
that is too low for every request and one that is enough for all; with the DSP free to
choose at each question. `MAXCOMP` and `MAX_TABLE_SIZE` are 2 to 4 so that tables fill up;
`MAX_CONCURRENT_INSTANCES` is 3 (in the code 4), and a row fills up: three instances
are the fewest of which a shift loses one, and a full row is needed to reach `refCount`.
In `rm_one_process` and `rm_commands` the DSP always has enough cycles (it may lack
memory); `rm_commands` has one component and a FIFO bound of 1, to keep the liveness
check short.

In LCML, `QUEUE_SIZE` 2 with three buffers makes a ring wrap and fill up, and 1 makes a
control table overflow; `MAX_DMM_BUFFERS` (2 or 3, the code has 20) is what the buffers
need; with `MaxMessages` 1 a put blocks as soon as the DSP is slow. In the decoder, one
buffer each way suffices for a buffer to be at the client, in a pipe, pending or
at the DSP when a command comes; `MaxSent` 7 covers load, run, pause, resume,
flush, stop and unload, 5 any sequence of that length of all commands; `MaxLate`
lets one buffer arrive under each unanswered command. In the camera, the second preview is what a
late frame of the first disturbs; a recording is started and stopped in either.
The invariants of `camera_frames` were also checked with three buffers, two previews,
a recording and a fault (1.9 M states) and with three buffers, one preview, a
recording and a switch of callbacks (1.8 M states).

**Assumptions of the passing runs.** The resource-manager runs that pass have one
request under way at a time (no `"overlap"`), and no frees of components that
never asked (`"unusedFrees"`) except in `rm_commands`. They are the conditions
under which the design works. `rm_answers` is about one process: with several,
`main()` reads commands before policy responses, and a second process that never
stops sending state changes starves the decision.
`omx_nodes` assumes that nodes pass a variable that is `NULL` and that no encoder
shares the core; `omx_shared` assumes neither, and so claims less. In `omx_nodes` the rows
of `torn` are excepted where the shift does harm, and `RunningSupported` and `KindsMatched`
end with `misfreed`; section 4 names the properties without the exceptions, which TLC
finds violated.
The LCML runs let a component wait for the answer to a flush or stop before it goes
on, and send no stream control that is unanswered when a flush is sent
(`OverlapCtrl`): the acknowledgement of one is taken for that of the other (section 4).
`CommandEnds` excepts seven named situations in which the code leaves a command
unanswered (`WaitsForAlloBuf`, `FlushForgotten`, `Overslept`, `Stranded`, `OneDisabled`,
`EnableLost`, `Swallowed`; each a definition with its reason); what it shows is that
on this instance there is no other. Likewise the camera's properties are about buffers that are not
`Miscounted`, and `CommandAnswered` excepts the loss of one that is.
The camera's window keeps at least one buffer.

**Deadlock.** Checked in `omx_nodes`. The other runs say `CHECK_DEADLOCK FALSE`: the
servers stop on the exit command (`policy_server`, `rm_commands`), clients are free
to do nothing, and a leaked descriptor, request or reference that has reached its
bound leaves nobody a step. After a DSP fault a component waits for LCML for ever, a
decoder whose command hangs leaves its client without a step, and the camera's
behaviours end where the code is undefined. That nobody waits for ever for a message is stated by
the liveness properties instead.

**Fairness.** Weak fairness for each `select()` loop and thread (resource manager,
fault thread, policy manager, each proxy) and for the steps of a request that is
under way: an enabled thread is scheduled by the kernel. Nothing is assumed
about what applications command. Strong fairness for `GetQosOk`: the DSP does not
refuse the memory or load query of a request for ever; the code asks again
without limit, so without it no answer is due. In LCML and the decoder: the threads,
a blocked put, and the DSP reading its messages and handing back what a stop in DASF
mode waits for (`DspDrain`); nothing about when the DSP is done with a buffer that no
request concerns. In the camera: each thread, and a call that
is under way (the driver fills what it has, the window gives back what it need not
keep); strong fairness for the call's turn at `mReturnFrameLock`, which other
threads take again and again. Applications may always do nothing.

## 4. Further observations

While the modules were written, properties were also tried that the code does not
have, and the code was read for what the models leave out. Both are recorded
here; no run carries them. Three are stated in the modules, each what a comment of the
code says. TLC finds them violated when they are added to the configuration of a run:
`CombinationFits` to `PolicyServer.cfg`, `CyclesThere` to `RMAnswers.cfg` and `RestShifted` to
`OMXNodes.cfg`.

*Policy manager, resource manager, proxy, core*

- A `PM_FreePolicy` of an unregistered instance shifts one of two arrays
  (`RemoveComponentFromList`); later components run together that no combination
  allows, against PolicyManager.c:258 "allow the new request to coexist with
  currently running components" and line 650 "this combination supports all existing
  components" (`CombinationFits`).
- With two requests under way (`"overlap"` in `Usage`) the decision on the first
  answers the second, whose policy was not granted (ResourceManager.c:309).
- A DSP fault between the test of `mmuRecoveryInProgress` and the reply does not stop
  the grant (ResourceManager.c:91 "block new requests").
- `fatalErrorHandled` is set once per process and for ever, not "once per component"
  (ResourceManagerProxy.c:839): a request refused later is never answered.
- The encoder deinitialises the core too often (OMX_Core.c:75, "reference counter for
  OMX_Init()"); the next init resets the table under a live component.
- `HandleFreeResources` (PolicyManager.c:354) compares a priority stored when a
  component was granted with one of the combination in force now. Grant under
  one combination, let a later request change it, ask for `PM_FreeResources`: the
  victim need not be the lowest, as line 351 has it.
- After a DSP fault a component that executes is freed without a report of its stop;
  its share stays in the CPU total of its type (ResourceManager.c:743) and the VDD1
  constraint is set too high from then on.
- `HandleFreeResource` (ResourceManager.c:583) overwrites `cmd_data.hComponent` with
  the handle of each waiting component; `main()` (line 229) then removes that one
  and keeps the one that was freed.
- For `RMProxy_ReusePipe` the proxy does not set `rm_data.nPid`
  (ResourceManagerProxy.c:726). After a reply about a preemption by another
  process, the next component is registered under that process.
- `numClients` counts requests and frees. A component destroyed without having
  asked (line 965) closes the pipe under one that runs; one that asked twice
  (line 743) leaves the descriptor open when it is gone.
- The fault thread walks `componentList` (ResourceManager.c:1356) while `main()`
  removes an entry, and may skip a component that executes.
- Once `stub_mode` is set, a request under way is neither granted nor denied
  (line 481; line 1256 says that stub mode grants always).
- `RM_GetQos` compares with `cmd_data.param2` of the command read last (line 1247).
  With two processes that may be a state change.
- `cyclesAvailable` is an `int` and the cycles asked for are unsigned (line 1247): if the load
  exceeds `dsp_max_freq`, or the file that `get_dsp_max_freq` reads is missing, a negative
  number counts as a huge one and the request is granted (`CyclesThere`), against line 1246
  "if memory is available and DSP cycles are available grant request".
- The shift of `TIOMX_FreeHandle` (OMX_Core.c:420-427) moves one handle up, clears its old
  place and skips it since it is `NULL`: *[a, b, c]* without *a* becomes *[b, NULL, NULL]* with
  `refCount` 2, against line 416 "the rest of the instances will be shifted in the array"
  (`RestShifted`). *c* then runs its `ComponentDeInit` and is not found in the
  table: slot, library and memory stay. In a full row the loop also moves
  the word behind the array, which is `refCount` (`OMX_ComponentRegistry.h`:17), and clears it:
  the row then has `refCount` -1 and takes no further instance until the next init, unless
  the compiler had kept `refCount` in a register.
- `CLEAN_UP` in `TIOMX_GetHandle` (OMX_Core.c:344) frees what the caller's variable
  held, if the call fails before the `malloc`.
- `pOMXHandle` survives `TIOMX_FreeHandle` (JpegEncoder.cpp:825); the restart of the
  next image frees whatever is at that address by then.
- `OMX.TI.Video.Decoder` has five roles; `TIOMX_BuildComponentTable` (OMX_Core.c:793)
  indexes an array of four with the role number and so clears `refCount`, which is 0 then.

*LCML*

- `EMMCodecControlAlgCtrl` with a full table returns with the mutex locked (1410-1458);
  `Wedged`, the exception of `RequestEnds` and `DestroyEnds`, is this one path. The stream control with a full table sends an
  uninitialised message, and the error path of `TypeofRender` (1510-1514) keeps the mutex.
- The acknowledgements of streams 2 and 3 clear the flush flags of 0 and 1 (2557, 2647);
  a flush of stream 0 or 1 also empties the slots of 2 or 3; an acknowledgement of
  another control is taken for a flush's while one is pending.
- A flush that is answered with an error leaves `flush_pending` set (2331), and the component,
  whose callback does nothing with it, waits on.
- A failed queueing leaves its slot occupied (1164) and what it had mapped (1216-1231) mapped;
  a failed control leaves its entry in use (1436). The search for a kept mapping goes
  one entry too far (1095, 1360); a mapping that finds the table full is never undone
  (1174).
- A failed cache invalidation ends the inner loop with messages unread (2046).

*MP3 decoder*

- `OMX_CommandFlush` does not flush the DSP if `num_Sent_Ip_Buff` or `num_Op_Issued` is 0
  (Utils.c:1617 "no buffers have been sent yet, no need to flush SN"). Buffers queued
  on Pause to Executing or by a port that is enabled are not counted there: the
  flush is reported complete with buffers at the DSP.
- `EmptyThisBuffer` counts after the write, without the mutex of the thread that tests
  the count (OMX_Mp3Decoder.c:1524): a wake-up is lost and LCML's thread sleeps; or Idle
  is reported with an uncounted buffer inside; or a flush is put off with nobody to
  send it again.
- Pause to Idle is answered twice, and the callback may overwrite a later state (886); the
  second answer may be taken for that of a later command. A signal `InIdle_goingtoloaded` that
  nobody waited for ends the next wait at once: the codec is destroyed with a buffer.
- Disabling the input port returns buffers that are at the DSP (1253), which is why
  the modelled client flushes first; disabling both ports is answered for one.
- Enabling the input port does not signal `AlloBuf`: a client in `AllocateBuffer` sleeps.
- A stop that failed waits for the codec to stop before it tests the error (818).
- `ComponentDeInit` joins a thread that may be in one of these waits.

*Camera*

- `startPreview` (V4LCameraAdapter.cpp:392) queues every buffer to the driver, those
  the window still holds too, which BaseCameraAdapter.cpp:363 counts as held.
- `mVideoInfo->buf` is used by `GetFrame` and `fillThisBuffer` without a lock; a buffer is
  then lost, or another one delivered.
- A failed allocation is answered as a started preview (CameraHal.cpp:872).
- If the window kept no buffer, the display could return a frame between the two
  counts of `nextPreview`, and the driver refill what the encoder is about to get.
- `CameraHal::mRecordingLock` and `AppCallbackNotifier::mRecordingLock` are two mutexes;
  the first is taken by `nextPreview` alone.
- `handleFrameReturn` changes `mFramesWithCameraAdapterMap` without `mLock` (1235).
- `stopVideoCapture` clears the keys before `mRecording` (1504); a video frame that is
  still in `mFrameQ` is flushed after its key is gone; a frame the notifier has in hand
  is returned in the next preview.
- When a miscounted buffer is lost, `stopPreview` may wait for ever: the preview thread
  is in `VIDIOC_DQBUF`. TLC finds it with two buffers.
- `notifyFrame` leaves its lock taken on two error paths (975, 1035); the notifier's
  `stopRecording` also ends preview callbacks; `disableEventNotification` shifts by the
  frame position.

## 5. Proofs

`PolicyServerProofs` proves, for every policy table, every set of handles and
processes and every bound:

- `TypeCorrect`: `Spec => []TypeOK`. The content is that the two arrays have one
  length: `RemoveComponentFromList` shifts each at the position found by its own
  search, and one search may fail.
- `RegistrationSound`: `Spec => []RegisteredOnce`. No instance is registered
  twice and `running` is part of the registered instances. Inductive with
  `TypeOK`; the lemmas on removal say that the shifted list is injective and has
  lost exactly one instance.
- `PolicyRespected`: `Spec => []RunningSupported`, the property for which the program
  exists. By itself it is not inductive: `HandleRequestPolicy` searches
  `activeComponentList` (kinds) while `running` is about instances. The inductive
  invariant `Undisturbed` adds `Matched`: there is an injection from the positions
  of `pComponentList` to those of `activeComponentList` that respects the kind. (Not
  the identity: one array is searched by instance, the other by kind, so a removal
  may take different positions.) The main lemma, `RemoveMatched`, repairs the
  injection after a removal by rerouting the one position that used the removed
  entry. A free of an unregistered instance keeps all this if it finds no entry of its
  kind or only the last; otherwise it sets `misfreed`, and the theorem promises nothing until
  nobody is registered, when the agreement is proved to be back.
- `ArraysAgree`: `Spec => []KindsMatched`, that conjunct by itself.
- `PolicyIsArbiter`: `Spec => ImplementsArbiter`. `RegisteredOnce` makes
  `pComponentList` an enumeration of the admitted (`ListIsOrder`), so that a displacement
  tells each of them once, and a free final (`RemoveOnce`). `KindsMatched` is what lets
  `CoexistCombinations`, which sees kinds only, find room for every admitted instance;
  while `misfreed`, the arbiter is `mistaken` and need not find it, but who is told what, and
  that a free is final, holds all the same.

`OMXClientsProofs` proves, for every list `tComponentName`, every number of slots and
instances and any set of clients:

- `TableWellFormed`: the table built by `TIOMX_BuildComponentTable` has each name in one
  row and no more rows than it has room for. `TableAfter` is a recursive function; the
  proof first shows that it exists (from its finite beginnings) and then takes a
  smallest number of names for which the claim fails.
- `TypeCorrect`: `Spec => []TypeOK`, with stale variables, encoders and failing
  `ComponentDeInit`s. `TypeOK` includes that the elements of `pHandle` that are compared, and
  the one that is written next, are in the array (`WritesInTable`). A row's `refCount` is
  between -1 and the length of the array: a handle is added only below `maxinstances` as an
  unsigned number, and the stores behind the array can only lower it.
- `LiveAreFreeable`, `CoreKeepsNothing` and `LimitKept`: with plugins alone (`Encoders = {}`,
  `~UnsetVariables`), `Spec => []LiveFreeable`, `[]NothingLeaks` and `[]InstancesLimited`. The
  inductive invariant ties together what the code keeps in four places:
  `count` is the number of plugins that are up; a slot holds a handle exactly if the
  handle is allocated and owned; a live handle is in at most one place of one row, and
  in a row that is not torn in exactly one; a row has no more live handles than its
  `refCount` says, or it is closed; and
  a node that uses a component has the handle it owns. None of these is inductive
  without the others: `TIOMX_FreeHandle` finds slot and row by separate searches. Both
  assumptions are needed: section 4 has the ways in which an encoder or a stale
  variable breaks the agreement. The exceptions for torn rows are what the shift does.

`CameraFramesProofs` proves, for every number of buffers and of kept buffers and every
bound, with no further assumption:

- `TypeCorrect` (`TypeOK`), `FramesPaced` (`DisplayPaced`), `StopTakesBack`
  (`StoppedReturned`), `DriverFillsAlone` (`FilledAlone`) and `NoBufferForgotten` (`Circulates`).
- The inductive invariant `IInv` has the types; `Returned` and `Locked` (what a thread
  in `returnFrame` has, and that one thread holds the lock); `Shared` (window and display
  together have every buffer once); `Commanded`, `PreviewPhase` and `RecordingPhase` (which
  of `CameraHal`, adapter, display and notifier knows how far a start or a stop has come,
  at every point of the call); and `Counted`: for a buffer that is not `Miscounted`, the
  preview count is the number of its holders among window, display thread, notifier's
  queue and notifier, the video count says whether the encoder's side has it, and
  it is with the driver only if both are 0. `FilledAlone` by itself says nothing about the
  counts on which `ReturnFrame` decides, and the counts are right only while the phases
  agree, so all of it is one induction.

`LCMLProofs` proves, for every set of buffers, rings and tables of every size, queues of
every length, and any number of failing calls and DSP faults:

- `TypeCorrect`: `Spec => []TypeOK`, for every use.
- `EveryAddressTracked`: `ProperUse /\ Spec => []Tracked`. `ProperUse` says one stream per
  direction, no more buffers of a direction than `QUEUE_SIZE`, and no stream control
  that is unanswered when a flush is sent; section 4 has what the code does otherwise.
  Most of the proof is about order: `MessagingThread` empties all slots
  of a ring when a flush is acknowledged and `QueueBuffer` takes the next slot whether
  or not it is free. That this overwrites no buffer in use needs: the used slots are a
  contiguous stretch before the next one (`Contiguous`); the order of buffers under
  way, through the put in progress, the queue to the DSP, the DSP and the queue back,
  is the order of their slots (`Aging`); no buffer is queued behind a flush or stop of
  its stream (`Ordered`); there is one such request at a time and its caller waits
  (`Tokens`, `Answers`, `Flags`); each buffer under way has its slot (`Found`), each slot in
  use its buffer, or the request that will empty it (`Covered`).
- `MappingsMatch`: with `KeptFit` (no more buffers than `mapped_dmm_buffers` has room for)
  also `Spec => []MapsMatch`, with `Reuses` (mappings are kept only if the codec asks
  for it, and then those of all buffers in the rings) added to the invariant. `Counts` says
  how often each thing is mapped, `Unfinished` apart.
- `LCMLImplementsLoan`: `ProperUse /\ Spec => ImplementsLoan`. Init maps to `LoanInit`, and each
  kind of step to a step of `BufferLoan` or to a stutter. That an answer
  comes only when nothing asked about is lent is `Covered` and `Lending` (what is lent is
  what the rings hold and the one buffer being given back).

`RMSystemProofs` proves, for every policy table, every set of components and processes,
and every bound (the first two also for every `Usage` and any number of DSP faults):

- `TypeCorrect`: `Spec => []TypeOK`. `cmd_data` is a global that the main thread fills from a
  command, that handlers overwrite in part and that the fault thread overwrites from
  another entry, so that a reply names an instance at all needs an argument: `DataOK`
  says that before the first command has been read nothing is registered and nothing is
  in the pipes to and from the policy manager, and that a response comes only after a
  request is on record. `Asking` says that a process has one request at a time and that
  one with a count above 0 has a process number in `rm_data`, which `RM_ReusePipe` sends.
- `RegisteredUnique`: `Spec => []RegisteredOnce`, by the same induction: `RM_GetListIndex`
  finds an entry if there is one (`ListIndex`), so `RM_AddPipe` appends only what is not
  there; the removal moves the entries behind up (`RemoveOK`); the fault thread and
  `HandleStateSet` keep the instance of every entry (`SameInstances`).
- `AnswersAwaited` and `GrantsBacked`: `Spec => []AnswerAwaited` and `Spec => GrantBacked`, for
  `OneAtATime`: one process, or no two requests under way at once, and no DSP fault.
  Both are needed. The resource manager keeps one request, in `globalrequest_cmd_data`,
  and a decision of the policy manager carries no number, so with overlapping requests
  the second is granted on the first one's decision; the fault thread answers a request
  that the policy manager has still to decide. Every other `Usage` is allowed. The
  invariant is `Staged`: the request under way is in exactly one place, its command in
  `RM_SERVER_IN` (`RmSide`), its question to the policy manager (`PmSide`), that one's
  decision (`SaidSide`), the retry of `RM_GetQos` (`WaitSide`) or the decision in the process's
  FIFO (`PipeSide`), and no message in any of the other places could be taken for one
  (`Stage`); a grant on its way is in `running` (`Backed`). That last part has to be kept
  while frees and preemptions of other components pass by in the same FIFOs.
- `CyclesFit`: `Spec => QosFits` for one process, no fault and no foreign commands, with
  any `CycleLevels`: a negative level counts as `OMX_U32`, as in the code. `RM_GetQos` reads the
  cycles wanted from `cmd_data.param2`, the last command read, and not from the request
  on record; `Alone` says that with one process, which sends nothing while it waits, the
  two are the same.

`RMRegistryProofs` proves, for every policy table, any number of components and every
bound, what relates the two lists of components, the FIFOs and what the components
believe. The first two results are under `SimpleUse`: one process, no DSP fault, no component waits for resources and
none is destroyed that never asked. Foreign commands are allowed.

- `RepliesReachable`: `Spec => []Reachable`, also with a failing `InitializeQos`.
- `PolicyListFreeable`: `Spec => []PolicyFreeable`, if `InitializeQos` does not fail.

Components and resource manager never agree at one moment: what a component did is
in `RM_SERVER_IN` and shows in `componentList` only when it is read. So the invariant
`Registry` reads the FIFO as a log (`OpenIn`, `Clear`, `Live`): *d* is live after *k* commands
if one of them enters it and none behind that one frees it, or if it is in the list
now and none of them frees it. `LogAgrees`: after the whole log exactly the components in
`used` are live. `LastCloses`: nobody is live at a command that closes the FIFO. This holds
because `numClients` covers the components that will still be freed (`CountCovers`, a
cardinality). `EnteredFirst`: a request is behind the command that enters its component.
With `PipesOpen` and `NobodyWaits` these are inductive together, beside `Typed` and `Staged`.
For the policy manager's list `Freeable` adds that it holds nobody twice (one
`PM_FreePolicy` removes one entry) and that each of its instances is in `componentList` and
not about to be removed, or has its `PM_FreePolicy` under way. Whoever the policy manager
enters is the component whose request is with it (`Staged`), whose command has been
read, and which is therefore live and in the list (`TakenListed`).

What the hypotheses exclude, the code does not survive; TLC has a behaviour for each of
these on the instance of `rm_one_process`. A free of a component that never asked
lowers `numClients` and the FIFO is closed under another one (`Reachable`). A DSP fault
ends a request before it was counted, and the free of that component closes the
FIFO under another one (`Reachable`). The fault thread overwrites `cmd_data` between
`HandleFreeResource` and the removal, and so does `HandleFreeResource` itself if a
component waits: another entry is removed. In stub mode the policy manager is not told
of a free (the last three break `PolicyFreeable`; that a waiting component breaks `Reachable`
TLC has not found, the proof of both uses that none waits). With
two processes `Reachable` is only model-checked, with one component each.

- `CpuTotalsRight`: `Spec => []CpuAccounted`, for one process and no DSP fault
  (`OneHealthy`), with every `Usage`: components that wait, overlapping requests, frees of
  what never asked, foreign commands, stub mode.

`HandleStateSet` adds or takes off a share when a report arrives, by the state it finds in
the entry, and the entry is freed by another command, so the proof is about the order
of reports and frees in `RM_SERVER_IN`. The invariant `Account` reads it as a log again: an
entry `May` be in state *v* after *k* commands if one of them says so (`Says`) and none behind
it says otherwise (`Unsays`), or if it is in *v* now and none says otherwise. `Foreseen`: after
the whole log only a component that executes is executing in the list, and only one
that is neither idle, executing nor pausing is waiting there. `Ordered`: at a free, and at a
report of waiting, the component may not be executing, and at a report of executing not
waiting (from where `HandleStateSet` would add nothing). `FreedStopped`: the entry about
to be removed does not execute, also if `HandleFreeResource` has put the handle of a
waiting component into `cmd_data`. `CpuAccounted` is a sum over the positions of the list:
`Total` is a recursive function, shown to be the last of the partial sums by a least
counterexample (`TotalIs`), and then changed at one position, extended and shortened
(`TotalChanged`, `TotalLonger`, `TotalShorter`). That the C code reduces each step modulo
2^32 and the property the whole sum is `ModSum`.

Neither hypothesis can be dropped for this proof. After a DSP fault `FatalErrorRecover`
frees the component from Executing without a report, and its share stays in the total for
good; TLC has a behaviour of 20 states on the instance of `rm_one_process` with
`MaxFaults = 1`. With two processes `RM_ReusePipe` may carry the process number of the other
one, and a free while somebody waits may remove an entry with the handle of one and
the process number of the other; TLC found no wrong total with one component each.

`Mp3DecoderProofs` proves all safety properties of `Mp3Decoder`, for every set of buffers,
every set of commands and kinds of input and all bounds, faults included:
`TypeCorrect` (`TypeOK`), `StatesAgree` (`StateAgreed`), `DspOwnership` (`DspOwns`),
`BuffersAccounted` (`Accounted`), `CountsRight` (`CountsMatch`), `IdleMeansEmpty` (`IdleEmpty`) and
`DecoderUsesLoan` (`UsesLoan`, a refinement). They are consequences of one inductive invariant:

- `Places`: what the component has is in the pipe, kept back, with LCML or lost, in one
  of them only, and `flagged` (`bBufferPending`) follows LCML. `Counts`: the four counters are
  cardinalities of those sets, less one between the write of the pipe and the count.
  `Calling`: which buffer the client's call is about. These would be inductive together
  but for one step: `HandlePortDisable` returns the input buffers marked as at the DSP,
  without asking the DSP. `DspOwns` needs that there is none.
- `Flushed` says why: the client disables the input port only after it has flushed it, so
  nothing of that port is inside, or a flush of it is running, or is in the command pipe
  in front of the disabling (`FlushAt`, `DisableAt`). A flush that is read while a buffer is
  still in the data pipe is put off and does not count. `FlushRequests`: one flush at a
  time, and the answer finds the thread waiting for it.
- `Flushed` in turn needs that no command is answered before it is read, or the client
  would send the next one into the pipe behind it. `OneCommand`: at most one state or
  disabling command is unread, and while `Trusted` the client waits for exactly the
  command that is in the pipe, with the thread, or with LCML. `Agreed` and `Stopping` relate
  the state to what the client was told and to a stop under way.
- For `UsesLoan`, `StopRequests` does for stops what `FlushRequests` does for flushes: so one
  thing is asked at a time, and the answer is to it (`AskedTail`). It assumes that each port
  has a buffer (`EachPortHasBuffers`), as `ComponentInit` sets it up.

Two attempts failed for a good reason, and TLC then found the behaviour at larger bounds
than those of the runs. A stop from Pause reports Idle twice, and the second report can
answer a later command for Idle that is still in the pipe; about eight commands later a
buffer at the DSP is returned. The model now takes such an answer as one that no command
asked for. And a signal left over from an earlier wait lets Loaded be reached while LCML
has a buffer: `Destroy` and `HandleInvalid` drop it with the codec, and now record it as lost
(its `bBufferPending` stays set, which `Accounted` allows for lost buffers only).
The other way round, the proofs showed that `CountsMatch` and `IdleEmpty` hold without
`Trusted`, `Accounted` after Invalid and `StateAgreed` with commands unanswered: the
properties now say so.

Assumptions on constants are the named `ASSUME`s of the modules, which every run of the
module evaluates. TLC checked each conjunct of the inductive invariants as an invariant
before it was proved, on instances in which the rings wrap and fill. The hypotheses
(plugins alone, `ProperUse`, `KeptFit`, `OneAtATime`, `SimpleUse`, `OneHealthy`) are those
of the runs, or weaker.

Every invariant, action property and refinement that a run checks is proved. Only
model-checked: `Reachable` with two processes, and all liveness (`RequestAnswered`,
`ConnectsEventually`, `RecoveryEnds`, `RequestEnds`, `DestroyEnds`, `CommandEnds`, `CommandAnswered`):
fairness and `ENABLED` are outside the prover.

## 6. Not modelled

- *Policy table parser*: text to table by `strtok`; its result is a constant.
- *Proxy internals*: `RM_Error`, `sem`, `responsePending` as shared variables, and
  the creation and end of the thread. `RMSystem` lets a process have one request
  under way, which the code intends and tests without a lock.
- *Arithmetic of `RM_GetQos`*: how the load becomes `cyclesAvailable`, which is any of
  `CycleLevels`; its comparison as an unsigned number is modelled.
- *The resource manager's `open()`* of a reply pipe (ResourceManager.c:840) takes no time: the
  proxy that sent the command waits at the other end.
- *MP3 decoder*: preemption by the resource manager (in `RMSystem`), DASF mode, marks,
  time stamps and parameters, freeing a buffer the DSP has, `ComponentDeInit`'s joins.
- *LCML*: buffers that overtake each other in a stream, which the socket node does not let
  happen; a `TypeofRender` other than 0 and 1, which no component sets (1510-1514 then
  keeps the mutex); the initialisation of the node and its stream attributes, the byte layout
  of the structures, instrumentation.
- *Camera*: a driver that refuses a buffer or to stream (V4LCameraAdapter.cpp:400-448), the error
  paths of `notifyFrame`, pictures, zoom, focus, pausing, parameters, the OMX adapter, EXIF and
  scaling.
- *libtiutils*: a pipe and a semaphore, one system call an operation; used by
  `CameraFrames` as a FIFO queue and a signal.
- *sw_vsync, layer arithmetic and region cutting* of the hardware composer.
- *The other codec components*: about forty directories, each with its own copy of
  the template that `Mp3Decoder` and `RMSystem` model, changed in details (ports,
  parameters, codec-specific structures). They are most of the repository's lines,
  and with the vendored libraries, generated headers and test programs they are why
  the modelled lines are a small share of the tree: a module per copy would repeat
  one module forty times.
- *dspbridge, ion, security, lights*: wrappers of a kernel or a secure world that
  is not in the repository. The DSP is an environment that answers, refuses or
  faults.

## 7. Plan

1. Done: policy manager with proofs; resource manager, fault thread, components
   and proxy as a system; OMX core and its clients; LCML and what it promises; the
   MP3 decoder on top of that promise; the camera's frames.
2. Next, modelling: `RMProxy` (the shared variables, two callers that both see
   `responsePending` clear, a callback that frees on the proxy's own thread), with
   an abstract "one call, one answer" specification that it should implement; the
   camera's pictures and pausing on top of `CameraFrames`; `sw_vsync`; the parser as a
   function on token sequences checked against a declarative reading of the format.
3. Done: proofs for the policy manager and its refinement of `PolicyArbiter`, the core
   and its plugins, LCML with its refinement of `BufferLoan`, the MP3 decoder and its use
   of `BufferLoan`, the camera's frames, and types, registration, the one decision per
   request, the cycles of a grant, the CPU totals and, in simple use, reachability and
   the agreement of the two lists in the resource manager's system.
4. Next, proofs: `Reachable` for two processes, which needs that no two of them ever mix
   their process numbers in `rm_data`; `CpuAccounted` for two processes on top of it.
