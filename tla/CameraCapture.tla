--------------------------- MODULE CameraCapture ---------------------------
(***************************************************************************)
(* The camera class of the cam1394 module (src/modules/cam1394/src/        *)
(* camera.cpp): opening one of the cameras on the bus, changing its mode   *)
(* while it captures, and read(), which empties the ring of DMA buffers    *)
(* and returns the newest frame.  The program is one thread; the camera    *)
(* and the DMA engine run beside it.  Every call of libdc1394 may fail.    *)
(***************************************************************************)
EXTENDS Naturals, Sequences, SequencesExt, FiniteSetsExt

CONSTANTS
    Cameras,     \* the cameras there are
    Buses,       \* bound: which of them are connected, in the order of enumeration
    Modes,       \* the video modes each supports, as a sequence
    Names,       \* the names of modes a caller may pass
    Rates,       \* the framerates of each mode: a sequence, empty for Format 7
    FrameRates,  \* the framerates a caller may pass
    Ring,        \* number of DMA buffers
    MinGap,      \* steps that read() makes, at least, in the time of one frame
    Wrap         \* bound: frames are numbered modulo Wrap

None == "none"

ASSUME CameraAssumption ==
    /\ IsFiniteSet(Cameras) /\ Buses \subseteq Seq(Cameras)
    /\ Ring \in Nat /\ Ring > 2
    /\ MinGap \in Nat /\ MinGap > 2
    /\ Wrap \in Nat /\ Wrap > 2 * Ring
    /\ None \notin Cameras \cup Names
    /\ FrameRates \subseteq Nat

VARIABLES
    bus,       \* the cameras connected
    guid,      \* the camera opened last
    cam,       \* whether there is a handle
    config,    \* _video_mode, _fps, and the mode that width and height are of
    bayer,     \* whether bayer_met is a method
    device,    \* the mode and framerate of each camera, and whether it sends
    capturing, \* whether capture is set up
    queued,    \* the buffers that the DMA engine may fill, in order
    filled,    \* those it has filled, in order
    lost,      \* history: those that could not be given back to it
    ring,      \* the frame in each buffer, counted from the one returned last
    made,      \* the frame last put into it
    listed,    \* history: a listing has left the camera captured in another mode
    gap,       \* the steps of read() since then, up to MinGap
    pc,        \* where read() is
    frame,     \* what it has dequeued
    prev,      \* the header it has copied
    framesRead,
    image,     \* history: what the read() that has just ended returned
    dropped    \* and droppedframes then; both are forgotten at the next call

ringVars  == <<queued, filled, lost, ring, made, listed>>
readVars  == <<pc, frame, prev, framesRead>>
result    == <<image, dropped>>
classVars == <<guid, cam, config, bayer>>
setVars   == <<bus, device, classVars, capturing>>
vars == <<setVars, ringVars, gap, readVars, result>>

Buffers == 0 .. Ring - 1
NoFrame == [buffer |-> 0, number |-> Wrap]
IsFormat7(m) == Rates[m] = <<>>
Held == IF pc = "enqueue" THEN {frame.buffer} ELSE {}

TypeOK ==
    /\ ToSet(bus) \subseteq Cameras /\ guid \in Cameras \cup {None}
    /\ cam \in BOOLEAN /\ bayer \in BOOLEAN /\ capturing \in BOOLEAN
    /\ cam => guid # None
    /\ pc \in {"idle", "wait", "enqueue", "poll", "copy"}
    /\ ring \in [Buffers -> 0 .. Wrap - 1]
    /\ capturing =>
          /\ ToSet(queued) \cup ToSet(filled) \cup Held \cup lost = Buffers
          /\ Len(queued) + Len(filled) + Cardinality(Held) + Cardinality(lost) = Ring
    /\ listed \in BOOLEAN /\ image \in {None, "frame", "undefined"}
    /\ dropped \in Nat /\ gap \in 0 .. MinGap

Unconfigured == [mode |-> None, rate |-> 0, size |-> None]

Init ==
    /\ bus \in Buses
    /\ guid = None /\ cam = FALSE /\ config = Unconfigured /\ bayer = FALSE
    /\ device = [c \in Cameras |-> [mode |-> Head(Modes), rate |-> 0, sending |-> FALSE]]
    /\ capturing = FALSE /\ queued = <<>> /\ filled = <<>> /\ lost = {}
    /\ ring = [b \in Buffers |-> 0] /\ made = 0 /\ listed = FALSE
    /\ gap = MinGap /\ pc = "idle" /\ frame = NoFrame /\ prev = NoFrame
    /\ framesRead = 0 /\ dropped = 0 /\ image = None

-----------------------------------------------------------------------------
(* Modes and framerates.  A call succeeds or fails, and what it has set by *)
(* then stays set: an outcome is whether it succeeded, the members of the  *)
(* class, and the mode and framerate of the camera.                        *)
Outcome(c) == [ok |-> TRUE, config |-> config, mode |-> device[c].mode, rate |-> device[c].rate]

Failed(o) == [o EXCEPT !.ok = FALSE]

(* Framerates are multiples of 1.875 and double from one to the next. *)
ConvertFrameRate(fps) ==
    LET notAbove == {2 ^ i : i \in 0 .. 7} \cap 0 .. fps
    IN  IF notAbove = {} THEN 1 ELSE Max(notAbove)

SetFrameRateOutcomes(o, fps) ==
    {Failed(o)} \cup
    {[o EXCEPT !.config.rate = r, !.rate = r] :
        r \in {ConvertFrameRate(fps)} \cap ToSet(Rates[o.config.mode])}

BestFrameRate(m) == Last(Rates[m])

BestVideoMode == Last(SelectSeq(Modes, LAMBDA m : ~IsFormat7(m)))

(* width and height are set before the mode is known to be supported; the  *)
(* framerates of a Format 7 mode cannot be had, so it is never captured.   *)
SetVideoModeOutcomes(o, name) ==
    LET sized == IF IsFormat7(name) THEN o ELSE [o EXCEPT !.config.size = name]
        moded == [sized EXCEPT !.config.mode = name, !.mode = name]
    IN  {Failed(o), Failed(sized)} \cup
        (IF name \notin ToSet(Modes) THEN {}
         ELSE {Failed(moded)} \cup
              (IF IsFormat7(name) THEN {} ELSE SetFrameRateOutcomes(moded, BestFrameRate(name))))

InitParamOutcomes(o, name, fps) ==
    UNION {IF x.ok THEN SetFrameRateOutcomes(x, fps) ELSE {x} : x \in SetVideoModeOutcomes(o, name)}

Take(o, sending) ==
    /\ config' = o.config
    /\ device' = [device EXCEPT ![guid'] = [mode |-> o.mode, rate |-> o.rate, sending |-> sending]]

-----------------------------------------------------------------------------
(* A call of the class, between two reads. *)
Call == pc = "idle" /\ image' = None /\ dropped' = 0

(* dc1394_capture_stop gives the ring back. *)
Stop ==
    /\ capturing' = FALSE
    /\ queued' = <<>> /\ filled' = <<>> /\ lost' = {} /\ ring' = [b \in Buffers |-> 0]
    /\ made' = 0 /\ listed' = FALSE

(* clean_up: transmission is not switched off. *)
CleanUp == cam' = FALSE /\ Stop

(* dc1394_capture_setup and dc1394_video_set_transmission. *)
Start(o) ==
    \/ CleanUp /\ Take(o, FALSE)
    \/ /\ cam' = TRUE /\ capturing' = TRUE /\ Take(o, TRUE)
       /\ queued' = [i \in 1 .. Ring |-> i - 1] /\ filled' = <<>> /\ lost' = {}
       /\ ring' = [b \in Buffers |-> 0] /\ made' = 0
       /\ listed' = (listed /\ o.mode # o.config.mode)

(* The camera that initCam opens: guid keeps the one opened before when    *)
(* the one asked for is not connected.  A handle there was is overwritten  *)
(* and not closed: its camera goes on sending into a ring that the class   *)
(* no longer has.                                                          *)
Found(g) == IF g = None THEN Head(bus) ELSE IF g \in ToSet(bus) THEN g ELSE guid

InitCam(g) ==
    /\ Call
    /\ bus # <<>> /\ Found(g) # None
    /\ guid' = Found(g)

InitCamFails(g) ==
    /\ InitCam(g)
    /\ CleanUp
    /\ UNCHANGED <<bus, device, config, bayer, gap, readVars>>

(* open(guid): the last mode and framerate the camera supports.  When they *)
(* cannot be had the camera is left open.                                  *)
OpenBest(g) ==
    /\ InitCam(g) /\ Found(g) \in ToSet(bus)
    /\ \/ cam' = TRUE /\ Stop /\ UNCHANGED <<device, config, bayer>>
       \/ \E o \in InitParamOutcomes(Outcome(Found(g)), BestVideoMode, BestFrameRate(BestVideoMode)) :
             /\ bayer' = (bayer /\ ~o.ok)
             /\ IF o.ok THEN Start(o) ELSE CleanUp /\ Take(o, device[guid'].sending)
    /\ UNCHANGED <<bus, gap, readVars>>

(* open(guid, mode, fps, method, pattern) *)
OpenWith(g, name, fps, method) ==
    /\ InitCam(g) /\ Found(g) \in ToSet(bus)
    /\ \E o \in InitParamOutcomes(Outcome(Found(g)), name, fps) :
          \/ /\ o.ok /\ bayer' = method
             /\ Start(o)
          \/ /\ ~o.ok \/ method    \* setBayer fails when the pattern is not known
             /\ bayer' = (IF o.ok THEN TRUE ELSE bayer)
             /\ CleanUp /\ Take(o, device[guid'].sending)
    /\ UNCHANGED <<bus, gap, readVars>>

(* Defect: the mode is not known to be set when capture starts again. *)
ReconfigureAnyway(outcomes) ==
    /\ Call /\ cam
    /\ UNCHANGED <<guid, bus, bayer, gap, readVars>>
    /\ capturing /\ \E o \in outcomes : Start(o)

(* setVideoMode and setFrameRate: stop, set, and start again.  A capture   *)
(* that does not run cannot be stopped.                                    *)
Reconfigure(outcomes) ==
    /\ Call /\ cam
    /\ UNCHANGED <<guid, bus, bayer, gap, readVars>>
    /\ \/ CleanUp /\ UNCHANGED <<device, config>>
       \/ CleanUp /\ Take(Outcome(guid), FALSE)
       \/ /\ capturing
          /\ \E o \in outcomes :
                IF o.ok THEN Start(o)
                ELSE cam' = TRUE /\ Stop /\ Take(o, FALSE)

SetVideoMode(name) == Reconfigure(SetVideoModeOutcomes(Outcome(guid), name))
SetFrameRate(fps)  == Reconfigure(SetFrameRateOutcomes(Outcome(guid), fps))

Close ==
    /\ Call /\ cam
    /\ \E sending \in {FALSE, device[guid].sending} :
          device' = [device EXCEPT ![guid].sending = sending]
    /\ CleanUp
    /\ UNCHANGED <<bus, guid, config, bayer, gap, readVars>>

(* The destructor, and a new object. *)
Destroy ==
    /\ Call /\ guid # None
    /\ CleanUp
    /\ guid' = None /\ config' = Unconfigured /\ bayer' = FALSE
    /\ UNCHANGED <<bus, device, gap, readVars>>

(* getConnectedCameras sets every mode of every camera in turn, and does   *)
(* not go back to the first; a camera that fails is passed over.  It has   *)
(* handles of its own, and does not ask whether a camera is captured.      *)
ListCameras ==
    /\ Call
    /\ \E m \in [ToSet(bus) -> ToSet(Modes)] :
          device' = [c \in Cameras |->
                       IF c \in DOMAIN m
                       THEN [mode |-> m[c], rate |-> device[c].rate, sending |-> device[c].sending]
                       ELSE device[c]]
    /\ listed' = (capturing /\ device'[guid].mode # config.mode)
    /\ UNCHANGED <<bus, classVars, capturing, queued, filled, lost, ring, made, gap, readVars>>

-----------------------------------------------------------------------------
(* read(): a frame goes back to the engine before its header is copied,    *)
(* and the header points to the image in the ring.                         *)
ReadStart ==
    /\ Call /\ cam
    /\ pc' = "wait"
    /\ UNCHANGED <<setVars, ringVars, gap, frame, prev, framesRead>>

Tick == gap' = IF gap < MinGap THEN gap + 1 ELSE gap

Dequeue ==
    /\ pc \in {"wait", "poll"} /\ capturing /\ filled # <<>>
    /\ frame' = [buffer |-> Head(filled), number |-> ring[Head(filled)]]
    /\ filled' = Tail(filled)
    /\ pc' = "enqueue"
    /\ Tick
    /\ UNCHANGED <<setVars, queued, lost, ring, made, listed, prev, framesRead, result>>

(* The wait ends in an error, as it does when there is no capture. *)
WaitFails ==
    /\ pc = "wait"
    /\ pc' = "poll"
    /\ UNCHANGED <<setVars, ringVars, gap, frame, prev, framesRead, result>>

(* Whether the engine takes the buffer back is not looked at. *)
GiveBack ==
    \/ queued' = Append(queued, frame.buffer) /\ UNCHANGED lost
    \/ lost' = lost \cup {frame.buffer} /\ UNCHANGED queued

(* Defect: the header of the first frame is kept. *)
EnqueueFirst ==
    /\ pc = "enqueue"
    /\ GiveBack
    /\ prev' = (IF prev = NoFrame THEN frame ELSE prev) /\ frame' = NoFrame
    /\ framesRead' = framesRead + 1
    /\ pc' = "poll"
    /\ Tick
    /\ UNCHANGED <<setVars, filled, ring, made, listed, result>>

Enqueue ==
    /\ pc = "enqueue"
    /\ GiveBack
    /\ prev' = frame /\ frame' = NoFrame
    /\ framesRead' = framesRead + 1
    /\ pc' = "poll"
    /\ Tick
    /\ UNCHANGED <<setVars, filled, ring, made, listed, result>>

(* Defect: the loop waits for the frames it should only poll for. *)
PollWaits ==
    /\ pc = "poll" /\ capturing /\ filled = <<>> /\ prev # NoFrame
    /\ UNCHANGED vars

(* The loop ends when there is no frame left and one was read, *)
Poll ==
    /\ pc = "poll" /\ capturing /\ filled = <<>> /\ prev # NoFrame
    /\ pc' = "copy"
    /\ Tick
    /\ UNCHANGED <<setVars, ringVars, frame, prev, framesRead, result>>

(* and goes on for ever while frames cannot be dequeued. *)
Spin ==
    /\ pc = "poll"
    /\ ~capturing \/ (filled = <<>> /\ prev = NoFrame)
    /\ UNCHANGED vars

(* The frames that wait are counted from the one that is returned; what    *)
(* is in the other buffers nobody reads any more.                          *)
Renumber ==
    LET since(n) == (n + Wrap - prev.number) % Wrap
    IN  /\ ring' = [b \in Buffers |-> IF b \in ToSet(filled) THEN since(ring[b]) ELSE 0]
        /\ made' = since(made)

(* Defect: all the frames read are counted as dropped. *)
CopyCountAll ==
    /\ pc = "copy"
    /\ dropped' = framesRead
    /\ image' \in {"frame"} \cup (IF bayer THEN {None, "undefined"} ELSE {})
    /\ Renumber
    /\ pc' = "idle" /\ frame' = NoFrame /\ prev' = NoFrame /\ framesRead' = 0 /\ gap' = MinGap
    /\ UNCHANGED <<setVars, queued, filled, lost, listed>>

(* The image is copied or debayered while the engine goes on.  When the    *)
(* frame cannot be debayered, read(image) returns without one, and the     *)
(* read() of cv::Mat returns memory that nothing has been written to.      *)
Copy ==
    /\ pc = "copy"
    /\ dropped' = framesRead - 1
    /\ image' \in {"frame"} \cup (IF bayer THEN {None, "undefined"} ELSE {})
    /\ Renumber
    /\ pc' = "idle" /\ frame' = NoFrame /\ prev' = NoFrame /\ framesRead' = 0 /\ gap' = MinGap
    /\ UNCHANGED <<setVars, queued, filled, lost, listed>>

Reading == Dequeue \/ WaitFails \/ Enqueue \/ Poll \/ Copy

-----------------------------------------------------------------------------
(* The camera sends a frame; it is lost when no buffer is free.  Between   *)
(* two frames there is time for MinGap steps of read().                    *)
Arrive ==
    /\ capturing /\ device[guid].sending
    /\ pc = "idle" \/ gap = MinGap \/ (filled = <<>> /\ prev = NoFrame)
    /\ gap' = (IF pc = "idle" THEN gap ELSE 0)
    /\ IF queued = <<>> THEN UNCHANGED <<queued, filled, ring, made>>
       ELSE /\ made' = (made + 1) % Wrap
            /\ ring' = [ring EXCEPT ![Head(queued)] = made']
            /\ filled' = Append(filled, Head(queued)) /\ queued' = Tail(queued)
    /\ UNCHANGED <<setVars, lost, listed, readVars, result>>

(* Cameras are plugged in and out while none is in use. *)
Plug ==
    /\ pc = "idle" /\ ~cam
    /\ bus' \in Buses /\ bus' # bus
    /\ UNCHANGED <<device, classVars, capturing, ringVars, gap, readVars, result>>

Next ==
    \/ \E g \in Cameras \cup {None} :
          \/ InitCamFails(g) \/ OpenBest(g)
          \/ \E n \in Names, r \in FrameRates, b \in BOOLEAN : OpenWith(g, n, r, b)
    \/ \E n \in Names : SetVideoMode(n)
    \/ \E r \in FrameRates : SetFrameRate(r)
    \/ Close \/ Destroy \/ ListCameras
    \/ ReadStart \/ Reading \/ Spin
    \/ Arrive \/ Plug

Spec == Init /\ [][Next]_vars /\ WF_vars(Reading) /\ WF_vars(Arrive)

-----------------------------------------------------------------------------
(* While frames are captured, there is a handle, the camera sends, in the  *)
(* mode and at the framerate the class believes, and the width and height  *)
(* that read() uses are those of that mode: whatever failed on the way.    *)
(* Only a listing of the cameras puts the one that is captured into        *)
(* another mode, for getConnectedCameras tries all of them, and it stays   *)
(* there until the mode is set.  And each buffer is in one place.          *)
CaptureAsConfigured ==
    /\ TypeOK
    /\ capturing =>
        /\ cam /\ device[guid].sending
        /\ device[guid].mode = config.mode \/ listed
        /\ device[guid].rate = config.rate
        /\ config.size = config.mode

(* The image read() copies out of the ring after it has given the buffer   *)
(* back is the frame of the header, and the engine is not writing to it:   *)
(* as long as three buffers take turns, or the buffer was not taken back.  *)
(* An image that nothing was written to is returned only by a camera that  *)
(* debayers.                                                               *)
ImageIntact ==
    /\ pc = "copy" /\ (Ring - Cardinality(lost) > 2 \/ prev.buffer \in lost) =>
          /\ ring[prev.buffer] = prev.number
          /\ queued = <<>> \/ Head(queued) # prev.buffer
    /\ image = "undefined" => bayer

(* droppedframes is the number of frames between the frame returned and    *)
(* the one before it that the engine had a buffer for.                     *)
DroppedFramesExact ==
    [][pc = "copy" /\ pc' = "idle" => prev.number = (dropped' + 1) % Wrap]_vars

(* A read() while frames are captured returns, unless none of the buffers  *)
(* was taken back.                                                         *)
ReadReturns == pc = "wait" /\ capturing ~> pc = "idle" \/ lost = Buffers

-----------------------------------------------------------------------------
(* Bound: of two cameras the second comes and goes; each has an ordinary   *)
(* mode and one of Format 7; callers also name a mode that none supports.  *)
MCBuses == {<<"c1">>, <<"c1", "c2">>}
MCModes == <<"large", "format7_0">>
MCNames == {"large", "format7_0", "huge"}
MCRates == [large |-> <<8, 16>>, format7_0 |-> <<>>, huge |-> <<4>>]
=============================================================================
