---------------------------- MODULE CameraFrames ----------------------------
(***************************************************************************)
(* The preview frames of the camera HAL and the threads they pass through.  *)
(* The preview thread (CameraHal.cpp) takes a filled buffer from the V4L    *)
(* driver and hands it to the subscribers of BaseCameraAdapter.cpp: the     *)
(* display adapter (ANativeWindowDisplayAdapter.cpp), which queues it to    *)
(* the window, and the notifier (AppCallbackNotifier.cpp), which copies it  *)
(* for the application or gives it to the video encoder.  Each returns it   *)
(* from a thread of its own; reference counts, one per buffer and kind of   *)
(* frame, decide when the driver (V4LCameraAdapter.cpp) may fill it again.  *)
(*                                                                          *)
(* The camera service makes one call at a time, does not stop the preview   *)
(* while it records and keeps CAMERA_MSG_VIDEO_FRAME enabled; video buffers *)
(* are passed as meta data.  The window hands out its oldest buffer, keeps  *)
(* undequeued ones (at least one) and has the same buffers in every         *)
(* preview.  Pictures, zoom, focus and pausing are left out.                *)
(* Where the code reads a key that is not in a KeyedVector, or a thread     *)
(* writes mVideoInfo->buf between another's write and its use, anything may *)
(* follow: undefined is set and the model stops there.                      *)
(***************************************************************************)
EXTENDS Integers, FiniteSets, Sequences, FiniteSetsExt, SequencesExt

CONSTANTS
    MAX_CAMERA_BUFFERS,
    Undequeued,     \* what get_min_undequeued_buffer_count may answer
    MaxStarts,      \* previews started in one behaviour
    MaxRecordings,  \* recordings started in one behaviour
    MaxSwitches,    \* times the application switches preview callbacks
    MaxFaults       \* times the window refuses its buffers

Buffers == 1..MAX_CAMERA_BUFFERS
None    == 0

ASSUME CameraAssumption ==
    /\ MAX_CAMERA_BUFFERS \in Nat \ {0}
    /\ Undequeued \subseteq 1..MAX_CAMERA_BUFFERS
    /\ {MaxStarts, MaxRecordings, MaxSwitches, MaxFaults} \subseteq Nat

VARIABLES
    app,        \* the application's call: its step, and whether PREVIEW_FRAME
                \* messages are enabled in mMsgEnabled
    commandQ,   \* previewThreadCommandQ
    pv,         \* the preview thread: pc, the buffer and the message it has
    hal,        \* mPreviewRunning, mRecordingEnabled, mPreviewBufs # NULL
    adapter,    \* mAdapterState, mFrameSubscribers, mVideoSubscribers, mRecording
    refs,       \* mPreviewBuffersAvailable: preview references of a buffer
    videoRefs,  \* mVideoBuffersAvailable, a function on the keys it has
    driver,     \* the buffers queued to the driver, in order
    streaming,  \* isStreaming
    display,    \* mDisplayState, mDisplayEnabled, its message, mDisplayQ and
                \* mFramesWithCameraAdapterMap
    window,     \* the buffers the window has, oldest first
    undequeued, \* how many of them it keeps
    notifier,   \* mFrameQ, mRecording, mPreviewing
    encoder,    \* the buffers the video encoder has
    ret,        \* a thread in returnFrame: before, or about to fill the buffer
    undefined,  \* a step had an undefined outcome
    used,       \* calls and faults so far
    stale       \* history: other buffers than Kept of which a frame was returned
                \* or delivered after its preview or recording had ended

vars == <<app, commandQ, pv, hal, adapter, refs, videoRefs, driver, streaming,
          display, window, undequeued, notifier, encoder, ret, undefined, used, stale>>

previewVars == <<commandQ, pv, hal>>
frameVars   == <<refs, videoRefs, driver, streaming>>
outVars     == <<display, window, undequeued, notifier, encoder>>

\* The buffers the window keeps when the others have been dequeued.
Kept == (MAX_CAMERA_BUFFERS - undequeued + 1)..MAX_CAMERA_BUFFERS

Threads  == {"display", "notifier", "app"}
NoReturn == [pc |-> "idle", b |-> None, kind |-> "none"]
Returning(b, k) == [pc |-> "return", b |-> b, kind |-> k]
Idle(t)  == ret[t] = NoReturn

\* mReturnFrameLock is held from the count to the end of fillThisBuffer.
ReturnLocked == \E t \in Threads : ret[t].pc = "fill"

Init ==
    /\ app = [pc |-> "idle", callbacks |-> FALSE]
    /\ commandQ = "none"
    /\ pv = [pc |-> "loop", b |-> None, msg |-> "none"]
    /\ hal = [running |-> FALSE, recording |-> FALSE, bufs |-> FALSE]
    /\ adapter = [state |-> "INTIALIZED", subs |-> {}, videoSubs |-> {}, recording |-> FALSE]
    /\ refs = [b \in Buffers |-> 0]
    /\ videoRefs = <<>>
    /\ driver = <<>>
    /\ streaming = FALSE
    /\ display = [state |-> "INIT", enabled |-> FALSE, msg |-> "none", q |-> 0, map |-> {}]
    /\ window = [i \in Buffers |-> i]
    /\ undequeued \in Undequeued
    /\ notifier = [frameQ |-> <<>>, recording |-> FALSE, previewing |-> FALSE]
    /\ encoder = {}
    /\ ret = [t \in Threads |-> NoReturn]
    /\ undefined = FALSE
    /\ used = [starts |-> 0, recordings |-> 0, switches |-> 0, faults |-> 0]
    /\ stale = {}

-----------------------------------------------------------------------------
(* Frames come back: returnFrame and fillThisBuffer                         *)

\* getFrameRefCount() of this kind of frame, and of the other kind if mRecording.
Count(b, k) == IF k = "preview" THEN refs[b] ELSE videoRefs[b]
\* Mutant: the count of the other kind is not looked at.
OtherNone(b, k) == 0

Other(b, k) ==
    IF ~adapter.recording THEN 0 ELSE IF k = "preview" THEN videoRefs[b] ELSE refs[b]

\* A count of mVideoBuffersAvailable is read and the buffer is not a key of it.
KeyMissing(b, k) ==
    /\ k = "video" \/ (adapter.recording /\ refs[b] > 0)
    /\ b \notin DOMAIN videoRefs

\* Mutant: a count that is already zero is decremented.
DecrementedBelow(n) == n - 1

Decremented(n) == Max({n - 1, 0})

\* returnFrame() under mReturnFrameLock: the count of this kind goes down; when
\* none is left, fillThisBuffer() writes the buffer's index to mVideoInfo->buf,
\* which GetFrame() may be about to read, if isStreaming.
ReturnFrame(t) ==
    LET b == ret[t].b
        k == ret[t].kind
    IN  /\ ret[t].pc = "return"
        /\ ~ReturnLocked
        /\ IF KeyMissing(b, k)
           THEN undefined' = TRUE /\ UNCHANGED <<refs, videoRefs, ret>>
           ELSE LET fills == Count(b, k) = 1 /\ Other(b, k) = 0 /\ streaming
                IN  /\ refs' = IF k = "preview" THEN [refs EXCEPT ![b] = Decremented(@)]
                               ELSE refs
                    /\ videoRefs' = IF k = "video" THEN [videoRefs EXCEPT ![b] = Decremented(@)]
                                    ELSE videoRefs
                    /\ ret' = [ret EXCEPT ![t] = IF fills THEN [@ EXCEPT !.pc = "fill"]
                                                 ELSE NoReturn]
                    /\ undefined' = (fills /\ pv.pc = "index")
        /\ UNCHANGED <<app, previewVars, adapter, driver, streaming, outVars, used, stale>>

\* The rest of fillThisBuffer(): the ioctl VIDIOC_QBUF; the driver refuses a
\* buffer it has.  When streaming was turned off meanwhile, the vectors the
\* buffer is looked up in are empty.
FillThisBuffer(t) ==
    /\ ret[t].pc = "fill"
    /\ IF streaming
       THEN /\ ret' = [ret EXCEPT ![t] = NoReturn]
            /\ driver' = IF ret[t].b \in Range(driver) THEN driver ELSE Append(driver, ret[t].b)
            /\ UNCHANGED undefined
       ELSE undefined' = TRUE /\ UNCHANGED <<ret, driver>>
    /\ UNCHANGED <<app, previewVars, adapter, refs, videoRefs, streaming, outVars, used, stale>>

-----------------------------------------------------------------------------
(* The preview thread                                                       *)

\* The top of the loop: while the preview runs, poll() for a command for 20 ms
\* and call nextPreview() in any case; otherwise wait for a command.
Poll ==
    /\ pv.pc = "loop"
    /\ hal.running \/ commandQ # "none"
    /\ pv' = [pv EXCEPT !.pc = IF hal.running THEN "frame" ELSE "command", !.msg = commandQ]
    /\ commandQ' = "none"
    /\ UNCHANGED <<app, hal, adapter, frameVars, outVars, ret, undefined, used, stale>>

\* After nextPreview(): the command it has read, or the top of the loop, at
\* once, as nothing else tells the two apart.
AfterFrame ==
    /\ pv' = IF pv.msg = "none" THEN [pc |-> "frame", b |-> None, msg |-> commandQ]
             ELSE [pv EXCEPT !.pc = "command", !.b = None]
    /\ commandQ' = IF pv.msg = "none" THEN "none" ELSE commandQ

\* GetFrame(): VIDIOC_DQBUF waits for a filled buffer, and fails when the
\* driver does not stream.
GetFrame ==
    /\ pv.pc = "frame"
    /\ IF streaming
       THEN /\ driver # <<>>
            /\ driver' = Tail(driver)
            /\ pv' = [pv EXCEPT !.pc = "index", !.b = Head(driver)]
            /\ undefined' = ReturnLocked
            /\ UNCHANGED commandQ
       ELSE AfterFrame /\ UNCHANGED <<driver, undefined>>
    /\ UNCHANGED <<app, hal, adapter, refs, videoRefs, streaming, outVars,
                   ret, used, stale>>

\* Mutant: the display thread is told only if it is not returning a frame.
PostFrameIfIdle(b) ==
    /\ window' = IF b \in Range(window) THEN window ELSE Append(window, b)
    /\ display' = [display EXCEPT !.q = IF Idle("display") THEN @ + 1 ELSE @, !.map = @ \ {b}]

\* PostFrame(): enqueue_buffer fails for a buffer the window has; the display
\* thread is told in either case.
PostFrame(b) ==
    /\ window' = IF b \in Range(window) THEN window ELSE Append(window, b)
    /\ display' = [display EXCEPT !.q = @ + 1, !.map = @ \ {b}]

\* queueToGralloc(PREVIEW_FRAME_SYNC), under mSubscriberLock: a reference for
\* each subscriber, then their callbacks.
QueuePreview ==
    /\ pv.pc = "index"
    /\ pv' = [pv EXCEPT !.pc = "video"]
    /\ refs' = [refs EXCEPT ![pv.b] = Cardinality(adapter.subs)]
    /\ IF "display" \in adapter.subs THEN PostFrame(pv.b) ELSE UNCHANGED <<window, display>>
    /\ notifier' = IF "notifier" \in adapter.subs
                   THEN [notifier EXCEPT !.frameQ = Append(@, <<"preview", pv.b>>)]
                   ELSE notifier
    /\ UNCHANGED <<app, commandQ, hal, adapter, videoRefs, driver, streaming,
                   undequeued, encoder, ret, undefined, used, stale>>

\* queueToGralloc(VIDEO_FRAME_SYNC), if mRecordingEnabled.
QueueVideo ==
    LET b == pv.b
        n == Cardinality(adapter.videoSubs)
    IN  /\ pv.pc = "video"
        /\ IF hal.recording /\ b \notin DOMAIN videoRefs
           THEN undefined' = TRUE /\ UNCHANGED <<pv, commandQ, videoRefs, notifier>>
           ELSE /\ AfterFrame
                /\ videoRefs' = IF hal.recording THEN [videoRefs EXCEPT ![b] = n] ELSE videoRefs
                /\ notifier' = IF hal.recording /\ n > 0
                               THEN [notifier EXCEPT !.frameQ = Append(@, <<"video", b>>)]
                               ELSE notifier
                /\ UNCHANGED undefined
        /\ UNCHANGED <<app, hal, adapter, refs, driver, streaming,
                       display, window, undequeued, encoder, ret, used, stale>>

\* Mutant: nothing is put into previewThreadAckQ.
AnswerForgotten ==
    /\ pv' = [pv EXCEPT !.pc = "loop", !.msg = "none"]
    /\ UNCHANGED app

\* previewThreadAckQ.put(), which the application waits for.
Answer ==
    /\ pv' = [pv EXCEPT !.pc = "loop", !.msg = "none"]
    /\ app' = [app EXCEPT !.pc = "idle"]

\* PREVIEW_START while the preview runs, PREVIEW_STOP while it does not.
Nack ==
    /\ pv.pc = "command"
    /\ (pv.msg = "start" /\ hal.running) \/ (pv.msg = "stop" /\ ~hal.running)
    /\ Answer
    /\ UNCHANGED <<commandQ, hal, adapter, frameVars, outVars, ret, undefined, used, stale>>

\* allocateBuffer() dequeues all buffers and cancels the last ones, which the
\* window keeps; sendCommand(CAMERA_USE_BUFFERS_PREVIEW) counts these as held.
Allocate ==
    /\ window' = [i \in 1..undequeued |-> MAX_CAMERA_BUFFERS - undequeued + i]
    /\ display' = [display EXCEPT !.map = Buffers \ Kept, !.msg = "start"]
    /\ refs' = [b \in Buffers |-> IF b \in Kept THEN 1 ELSE 0]

\* The display thread has signalled the semaphore of the last message to it.
DisplayAcked == display.msg = "none"

\* CameraStart(): buffers are allocated and passed to the adapter, whose count
\* is 1 for those the window keeps; preview callbacks and the notifier are
\* started; DISPLAY_START is sent and waited for.
CameraStart ==
    /\ pv.pc = "command" /\ pv.msg = "start" /\ ~hal.running
    /\ Len(window) = MAX_CAMERA_BUFFERS
    /\ Allocate
    /\ hal' = [hal EXCEPT !.bufs = TRUE]
    /\ driver' = <<>>
    /\ notifier' = [notifier EXCEPT !.previewing = TRUE]
    /\ adapter' = [adapter EXCEPT !.state = "LOADED_PREVIEW",
                                  !.subs = IF app.callbacks /\ ~notifier.previewing
                                           THEN @ \union {"notifier"} ELSE @]
    /\ pv' = [pv EXCEPT !.pc = "starting"]
    /\ UNCHANGED <<app, commandQ, videoRefs, streaming, undequeued, encoder, ret,
                   undefined, used, stale>>

\* The rest of enableDisplay(), then CAMERA_START_PREVIEW: startPreview()
\* queues every buffer to the driver.
Started ==
    /\ pv.pc = "starting" /\ DisplayAcked
    /\ display' = [display EXCEPT !.enabled = TRUE]
    /\ adapter' = [adapter EXCEPT !.state = "PREVIEW", !.subs = @ \union {"display"}]
    /\ driver' = [i \in Buffers |-> i]
    /\ streaming' = TRUE
    /\ hal' = [hal EXCEPT !.running = TRUE]
    /\ Answer
    /\ UNCHANGED <<commandQ, refs, videoRefs, window, undequeued, notifier, encoder,
                   ret, undefined, used, stale>>

\* allocateBuffer() fails.  err is overwritten by what CAMERA_START_PREVIEW
\* returns, and that command, refused in INTIALIZED_STATE, returns the result
\* of rollbackState(): the preview counts as running.
StartFails ==
    /\ pv.pc = "command" /\ pv.msg = "start" /\ ~hal.running
    /\ used.faults < MaxFaults
    /\ used' = [used EXCEPT !.faults = @ + 1]
    /\ hal' = [hal EXCEPT !.running = TRUE]
    /\ Answer
    /\ UNCHANGED <<commandQ, adapter, frameVars, outVars, ret, undefined, stale>>

\* PREVIEW_STOP: CameraStop() turns streaming off; disableDisplay()
\* unsubscribes, sends DISPLAY_STOP and waits.
CameraStop ==
    /\ pv.pc = "command" /\ pv.msg = "stop" /\ hal.running
    /\ IF adapter.state = "INTIALIZED" THEN UNCHANGED <<streaming, driver>>
       ELSE streaming' = FALSE /\ driver' = <<>>
    /\ adapter' = [adapter EXCEPT !.state = "INTIALIZED", !.subs = @ \ {"display"}]
    /\ display' = IF display.enabled THEN [display EXCEPT !.msg = "stop"] ELSE display
    /\ pv' = [pv EXCEPT !.pc = "stopping"]
    /\ UNCHANGED <<app, commandQ, hal, refs, videoRefs, window, undequeued, notifier,
                   encoder, ret, undefined, used, stale>>

\* flushAndReturnFrames(): nothing is filled, as streaming is off.
Queued(k, b) == Cardinality({ i \in DOMAIN notifier.frameQ : notifier.frameQ[i] = <<k, b>> })

Flushed(k, count) == [b \in DOMAIN count |-> Max({count[b] - Queued(k, b), 0})]

\* The rest of forceStopPreview(): buffers go back to the window, the notifier
\* is stopped, its frames are returned, preview callbacks end.
Stopped ==
    /\ pv.pc = "stopping" /\ DisplayAcked
    /\ notifier.frameQ # <<>> => ~ReturnLocked
    /\ IF \E b \in Buffers \ DOMAIN videoRefs : Queued("video", b) > 0
       THEN undefined' = TRUE /\ UNCHANGED <<refs, videoRefs>>
       ELSE /\ refs' = Flushed("preview", refs)
            /\ videoRefs' = Flushed("video", videoRefs)
            /\ UNCHANGED undefined
    /\ window' = window \o SetToSeq(display.map)
    /\ display' = [display EXCEPT !.enabled = FALSE, !.map = {}]
    /\ notifier' = [notifier EXCEPT !.frameQ = <<>>, !.previewing = FALSE]
    /\ adapter' = [adapter EXCEPT !.subs = IF notifier.previewing THEN {} ELSE @]
    /\ hal' = [hal EXCEPT !.running = FALSE, !.bufs = FALSE]
    /\ stale' = stale \union ({ret["notifier"].b} \ (Kept \union {None}))
    /\ Answer
    /\ UNCHANGED <<commandQ, driver, streaming, undequeued, encoder, ret, used>>

-----------------------------------------------------------------------------
(* The display thread and the notifier's thread                             *)

\* processHalMsg() comes first.
ProcessHalMsg ==
    /\ Idle("display")
    /\ display.msg # "none"
    /\ display' = [display EXCEPT !.state = IF display.msg = "start" THEN "STARTED" ELSE "STOPPED",
                                  !.msg = "none"]
    /\ UNCHANGED <<app, previewVars, adapter, frameVars, window, undequeued, notifier, encoder,
                   ret, undefined, used, stale>>

\* Mutant: frames are taken back although the display has been stopped.
TakesBackStopped == Len(window) > undequeued

TakesBack == display.state = "STARTED" /\ Len(window) > undequeued

\* A message of mDisplayQ: if started, handleFrameReturn() dequeues a buffer
\* and returns it to the adapter; the window refuses the ones it keeps.
HandleFrameReturn ==
    /\ Idle("display")
    /\ display.msg = "none" /\ display.q > 0 /\ display.state # "INIT"
    /\ IF TakesBack
       THEN /\ display' = [display EXCEPT !.q = @ - 1, !.map = @ \union {Head(window)}]
            /\ window' = Tail(window)
            /\ ret' = [ret EXCEPT !["display"] = Returning(Head(window), "preview")]
       ELSE /\ display' = [display EXCEPT !.q = @ - 1]
            /\ UNCHANGED <<window, ret>>
    /\ UNCHANGED <<app, previewVars, adapter, frameVars, undequeued, notifier, encoder,
                   undefined, used, stale>>

\* Mutant: preview frames are dropped while recording.
ReturnsUnlessRecording(f) == f[1] = "preview" /\ ~notifier.recording

\* The frames notifyFrame() returns itself: preview frames, copied or not.
ReturnsAtOnce(f) == f[1] = "preview"

\* notifyFrame(): a video frame goes to the encoder, or nowhere if mRecording
\* is false; a preview frame is copied if wanted, and returned.
NotifyFrame ==
    LET f == Head(notifier.frameQ)
    IN  /\ Idle("notifier")
        /\ notifier.frameQ # <<>>
        /\ notifier' = [notifier EXCEPT !.frameQ = Tail(@)]
        /\ encoder' = IF f[1] = "video" /\ notifier.recording
                      THEN encoder \union {f[2]} ELSE encoder
        /\ ret' = IF ReturnsAtOnce(f)
                  THEN [ret EXCEPT !["notifier"] = Returning(f[2], "preview")] ELSE ret
        /\ UNCHANGED <<app, previewVars, adapter, frameVars, display, window, undequeued,
                       undefined, used, stale>>

-----------------------------------------------------------------------------
(* The application, one call at a time                                      *)

Calling == app.pc = "idle" /\ Idle("app")

\* startPreview() and stopPreview() wait for previewThreadAckQ.
StartPreview ==
    /\ Calling
    /\ ~hal.recording
    /\ used.starts < MaxStarts
    /\ used' = [used EXCEPT !.starts = @ + 1]
    /\ app' = [app EXCEPT !.pc = "waiting"]
    /\ commandQ' = "start"
    /\ UNCHANGED <<pv, hal, adapter, frameVars, outVars, ret, undefined, stale>>

StopPreview ==
    /\ Calling
    /\ ~hal.recording
    /\ used.starts > 0
    /\ app' = [app EXCEPT !.pc = "waiting"]
    /\ commandQ' = "stop"
    /\ UNCHANGED <<pv, hal, adapter, frameVars, outVars, ret, undefined, used, stale>>

\* enableMsgType() and disableMsgType() of CAMERA_MSG_PREVIEW_FRAME.
SwitchCallbacks ==
    /\ Calling
    /\ used.switches < MaxSwitches
    /\ used' = [used EXCEPT !.switches = @ + 1]
    /\ app' = [app EXCEPT !.callbacks = ~@]
    /\ adapter' = [adapter EXCEPT !.subs = IF app.callbacks THEN @ \ {"notifier"}
                                           ELSE @ \union {"notifier"}]
    /\ UNCHANGED <<previewVars, frameVars, outVars, ret, undefined, stale>>

\* startRecording(): the notifier, CAMERA_START_VIDEO, mRecordingEnabled.  The
\* addresses of buffers that were never mapped are read if a start failed.
StartRecording ==
    /\ Calling
    /\ hal.running /\ ~hal.recording
    /\ used.recordings < MaxRecordings
    /\ used' = [used EXCEPT !.recordings = @ + 1]
    /\ IF hal.bufs
       THEN /\ notifier' = [notifier EXCEPT !.recording = TRUE]
            /\ adapter' = [adapter EXCEPT !.videoSubs = {"notifier"}]
            /\ app' = [app EXCEPT !.pc = "startVideo"]
            /\ UNCHANGED undefined
       ELSE undefined' = TRUE /\ UNCHANGED <<notifier, adapter, app>>
    /\ UNCHANGED <<previewVars, frameVars, display, window, undequeued, encoder, ret, stale>>

StartVideoCapture ==
    /\ app.pc = "startVideo"
    /\ app' = [app EXCEPT !.pc = "enableRecording"]
    /\ videoRefs' = [b \in Buffers |-> 0]
    /\ adapter' = [adapter EXCEPT !.recording = TRUE, !.state = "VIDEO"]
    /\ UNCHANGED <<previewVars, refs, driver, streaming, outVars, ret, undefined,
                   used, stale>>

EnableRecording ==
    /\ app.pc = "enableRecording"
    /\ app' = [app EXCEPT !.pc = "idle"]
    /\ hal' = [hal EXCEPT !.recording = TRUE]
    /\ UNCHANGED <<commandQ, pv, adapter, frameVars, outVars, ret, undefined, used, stale>>

\* stopRecording(): the notifier unsubscribes from video and from preview
\* frames.  The encoder has stopped reading what it was given.
StopRecording ==
    /\ Calling
    /\ hal.recording
    /\ app' = [app EXCEPT !.pc = "stopVideo"]
    /\ encoder' = {}
    /\ notifier' = [notifier EXCEPT !.recording = FALSE]
    /\ adapter' = [adapter EXCEPT !.videoSubs = {}, !.subs = @ \ {"notifier"}]
    /\ UNCHANGED <<previewVars, frameVars, display, window, undequeued, ret, undefined, used,
                   stale>>

\* stopVideoCapture() returns what is still counted ...
ReturnVideo(b) ==
    /\ app.pc = "stopVideo" /\ Idle("app")
    /\ videoRefs[b] > 0
    /\ ret' = [ret EXCEPT !["app"] = Returning(b, "video")]
    /\ UNCHANGED <<app, previewVars, adapter, frameVars, outVars, undefined, used, stale>>

\* ... forgets the keys, and only then that it records.
ClearVideo ==
    /\ app.pc = "stopVideo" /\ Idle("app")
    /\ \A b \in DOMAIN videoRefs : videoRefs[b] = 0
    /\ app' = [app EXCEPT !.pc = "videoCleared"]
    /\ videoRefs' = <<>>
    /\ stale' = stale \union { b \in Buffers \ Kept : Queued("video", b) > 0 }
    /\ UNCHANGED <<previewVars, adapter, refs, driver, streaming, outVars, ret,
                   undefined, used>>

StopVideoCapture ==
    /\ app.pc = "videoCleared"
    /\ app' = [app EXCEPT !.pc = "disableRecording"]
    /\ adapter' = [adapter EXCEPT !.recording = FALSE, !.state = "PREVIEW"]
    /\ UNCHANGED <<previewVars, frameVars, outVars, ret, undefined, used, stale>>

DisableRecording ==
    /\ app.pc = "disableRecording"
    /\ app' = [app EXCEPT !.pc = "idle"]
    /\ hal' = [hal EXCEPT !.recording = FALSE]
    /\ UNCHANGED <<commandQ, pv, adapter, frameVars, outVars, ret, undefined, used, stale>>

\* releaseRecordingFrame()
ReleaseRecordingFrame(b) ==
    /\ Calling
    /\ hal.recording
    /\ b \in encoder
    /\ encoder' = encoder \ {b}
    /\ ret' = [ret EXCEPT !["app"] = Returning(b, "video")]
    /\ UNCHANGED <<app, previewVars, adapter, frameVars, display, window, undequeued, notifier,
                   undefined, used, stale>>

-----------------------------------------------------------------------------
PreviewThread ==
    \/ Poll \/ GetFrame \/ QueuePreview \/ QueueVideo
    \/ Nack \/ CameraStart \/ Started \/ StartFails \/ CameraStop \/ Stopped

Returns(t) == ReturnFrame(t) \/ FillThisBuffer(t)

DisplayThread  == ProcessHalMsg \/ HandleFrameReturn \/ Returns("display")
NotifierThread == NotifyFrame \/ Returns("notifier")

InCall ==
    \/ StartVideoCapture \/ EnableRecording
    \/ \E b \in DOMAIN videoRefs : ReturnVideo(b)
    \/ ClearVideo \/ StopVideoCapture \/ DisableRecording
    \/ Returns("app")

Application ==
    \/ StartPreview \/ StopPreview \/ SwitchCallbacks \/ StartRecording \/ StopRecording
    \/ \E b \in Buffers : ReleaseRecordingFrame(b)

Next ==
    /\ ~undefined
    /\ PreviewThread \/ DisplayThread \/ NotifierThread \/ InCall \/ Application

\* Threads that can run are scheduled, the driver fills what it has and the
\* window gives back what it need not keep; a thread that waits for
\* mReturnFrameLock gets it.  The application may do nothing.
Fairness ==
    /\ WF_vars(~undefined /\ PreviewThread)
    /\ WF_vars(~undefined /\ DisplayThread)
    /\ WF_vars(~undefined /\ NotifierThread)
    /\ WF_vars(~undefined /\ InCall)
    /\ SF_vars(~undefined /\ ReturnFrame("app"))

Spec == Init /\ [][Next]_vars /\ Fairness

-----------------------------------------------------------------------------
(* Properties                                                               *)

\* The threads' steps, the counts of returnFrame() and setFrameRefCount() and
\* the queues have values the code gives them: a count is never negative or
\* above the number of subscribers, neither the driver nor the window has a
\* buffer twice.
TypeOK ==
    /\ app.pc \in {"idle", "waiting", "startVideo", "enableRecording", "stopVideo",
                   "videoCleared", "disableRecording"}
    /\ commandQ \in {"none", "start", "stop"}
    /\ pv.pc \in {"loop", "frame", "index", "video", "command", "starting", "stopping"}
    /\ adapter.state \in {"INTIALIZED", "LOADED_PREVIEW", "PREVIEW", "VIDEO"}
    /\ refs \in [Buffers -> 0..2]
    /\ videoRefs = <<>> \/ videoRefs \in [Buffers -> 0..1]
    /\ IsInjective(driver) /\ Range(driver) \subseteq Buffers
    /\ IsInjective(window) /\ Range(window) \subseteq Buffers
    /\ display.q \in Nat

\* Someone other than the driver has, or will be given, the buffer's contents.
Reads(b) ==
    \/ b \in Range(window)
    \/ b \in encoder
    \/ Queued("preview", b) > 0
    \/ Queued("video", b) > 0 /\ notifier.recording
    \/ pv.b = b /\ pv.pc = "index"

\* The buffers whose counts cannot be right: startPreview() queues to the driver
\* those the window still keeps, and a frame of an earlier preview or recording
\* counts for a later one.
Miscounted == Kept \union stale

\* returnFrame() queues a buffer to the driver only when the window, the
\* application's copy and the video encoder are done with it: the driver has no
\* buffer that someone reads or is to read, other than a miscounted one.
FilledAlone ==
    \A b \in Range(driver) \ Miscounted : ~Reads(b)

\* The buffer is with the driver, or counted and with someone who returns it.
ComesBack(b) ==
    \/ b \in Range(driver)
    \/ pv.b = b
    \/ \E t \in Threads : ret[t].b = b
    \/ refs[b] > 0 /\ (b \in Range(window) \/ Queued("preview", b) > 0)
    \/ /\ b \in DOMAIN videoRefs
       /\ videoRefs[b] > 0
       /\ b \in encoder \/ Queued("video", b) > 0 \/ app.pc = "stopVideo"

\* While frames stream no buffer is forgotten: between the driver, the preview
\* thread, the window, mFrameQ and the encoder each buffer that is not
\* miscounted is on its way back to the driver.
Circulates == streaming =>
    \A b \in Buffers \ Miscounted : ComesBack(b)

\* PostFrame() and the display thread keep in step: while frames stream,
\* mDisplayQ has a message for every buffer the window would give back, so that
\* no frame stays in the window for want of one.
DisplayPaced == streaming => display.q >= Len(window) - undequeued

\* disableDisplay() and stopPreview() take everything back, whatever the display
\* thread was doing when the stop came: without preview buffers, the window has
\* all of its buffers, the driver none, and the display gets no frames.
StoppedReturned ==
    ~hal.bufs =>
        /\ Len(window) = MAX_CAMERA_BUFFERS
        /\ display.map = {} /\ driver = <<>> /\ ~streaming
        /\ "display" \notin adapter.subs

\* A miscounted buffer is with nobody who would return it.
Lost == \E b \in Miscounted : ~ComesBack(b)

\* Every call returns: startPreview() and stopPreview() get an answer from the
\* preview thread, which may be waiting in VIDIOC_DQBUF for a buffer other
\* threads have, and startRecording() and stopRecording() end.  A call may hang
\* once the model has stopped, or a miscounted buffer has been lost.
CommandAnswered == app.pc # "idle" ~> (app.pc = "idle" \/ undefined \/ (streaming /\ Lost))
=============================================================================
