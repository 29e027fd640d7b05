------------------------ MODULE CameraCaptureProofs ------------------------
(***************************************************************************)
(* Proofs about CameraCapture for any cameras, modes, framerates, ring of  *)
(* DMA buffers and gap between two frames: that a capture runs as the      *)
(* class believes, that the image read() copies is the frame of its        *)
(* header, and that the frames it has dropped are counted exactly.         *)
(***************************************************************************)
EXTENDS CameraCapture, Integers, FiniteSetTheorems, SequenceTheorems, TLAPS

Count == IF pc = "enqueue" THEN 1 ELSE 0

(* The number of the frame that is k frames after those this read() has    *)
(* taken.                                                                  *)
Frame(k) == (framesRead + Count + k) % Wrap

(* The inductive invariant, part by part: the types, *)
Types ==
    /\ bus \in Seq(Cameras) /\ guid \in Cameras \cup {None}
    /\ device = [c \in Cameras |-> device[c]]
    /\ config = [mode |-> config.mode, rate |-> config.rate, size |-> config.size]
    /\ cam \in BOOLEAN /\ bayer \in BOOLEAN /\ capturing \in BOOLEAN
    /\ cam => guid # None
    /\ pc \in {"idle", "wait", "enqueue", "poll", "copy"}
    /\ queued \in Seq(Buffers) /\ filled \in Seq(Buffers)
    /\ ring \in [Buffers -> 0 .. Wrap - 1]
    /\ made \in 0 .. Wrap - 1 /\ lost \in SUBSET Buffers
    /\ listed \in BOOLEAN /\ image \in {None, "frame", "undefined"}
    /\ dropped \in Nat /\ gap \in 0 .. MinGap /\ framesRead \in Nat

(* what the camera that is captured is set to, *)
HandleInv ==
    /\ capturing =>
          /\ cam /\ device[guid].sending
          /\ device[guid].mode = config.mode \/ listed
          /\ device[guid].rate = config.rate
          /\ config.size = config.mode
    /\ ~capturing => queued = <<>> /\ filled = <<>> /\ pc \notin {"enqueue", "copy"}

(* that a buffer which was not given back is nowhere else, *)
LostInv ==
    capturing =>
        /\ \A i \in 1 .. Len(queued) : queued[i] \notin lost
        /\ \A i \in 1 .. Len(filled) : filled[i] \notin lost
        /\ pc = "enqueue" => frame.buffer \notin lost

(* that each of the others is in one place, *)
RingInv ==
    capturing =>
        /\ \A i, j \in 1 .. Len(queued) : queued[i] = queued[j] => i = j
        /\ \A i, j \in 1 .. Len(filled) : filled[i] = filled[j] => i = j
        /\ \A i \in 1 .. Len(queued), j \in 1 .. Len(filled) : queued[i] # filled[j]
        /\ pc = "enqueue" =>
              /\ \A i \in 1 .. Len(queued) : queued[i] # frame.buffer
              /\ \A i \in 1 .. Len(filled) : filled[i] # frame.buffer
        /\ \A b \in Buffers : \/ \E i \in 1 .. Len(queued) : queued[i] = b
                              \/ \E i \in 1 .. Len(filled) : filled[i] = b
                              \/ pc = "enqueue" /\ b = frame.buffer
                              \/ b \in lost
        /\ Len(queued) + Len(filled) + Count + Cardinality(lost) = Ring

(* what read() has taken, *)
ReadInv ==
    /\ pc \in {"idle", "wait"} => prev = NoFrame
    /\ pc = "copy" => prev # NoFrame
    /\ prev = NoFrame => framesRead = 0
    /\ prev # NoFrame => framesRead > 0 /\ prev.number = framesRead % Wrap
    /\ pc = "enqueue" =>
          /\ frame.buffer \in Buffers /\ frame.number = ring[frame.buffer]
          /\ frame.number = Frame(0)

(* which frames wait in the ring, *)
FramesInv ==
    /\ \A i \in 1 .. Len(filled) : ring[filled[i]] = Frame(i)
    /\ capturing => made = Frame(Len(filled))

(* and, from the last poll on, that the engine is a frame behind the       *)
(* buffer that was given back, as long as enough of them are.              *)
Behind ==
    /\ ring[prev.buffer] = prev.number
    /\ prev.buffer \in lost \/ (queued # <<>> /\ prev.buffer = Last(queued))

Enough == Ring - Cardinality(lost) > 2 \/ prev.buffer \in lost

BehindInv ==
    /\ pc = "poll" /\ prev # NoFrame /\ filled = <<>> => Behind
    /\ pc = "copy" /\ Enough => Behind
    /\ pc = "copy" => filled = <<>> \/ (Len(filled) = 1 /\ gap < MinGap)
    /\ image = "undefined" => bayer

CameraInv == Types /\ HandleInv /\ LostInv /\ RingInv /\ ReadInv /\ FramesInv /\ BehindInv

-----------------------------------------------------------------------------
(* What the constants are.                                                 *)
LEMMA RingFacts ==
  /\ Ring \in Nat /\ Ring > 2 /\ MinGap \in Nat /\ MinGap > 2 /\ Wrap \in Nat \ {0}
  /\ None \notin Cameras /\ IsFiniteSet(Cameras) /\ NoFrame.number = Wrap
  BY CameraAssumption DEF NoFrame

(* Numbers are counted modulo Wrap one by one or all at once.              *)
LEMMA Remainder ==
  ASSUME NEW a \in Nat
  PROVE  a % Wrap \in 0 .. Wrap - 1 /\ \A k \in Nat : ((a % Wrap) + k) % Wrap = (a + k) % Wrap
<1>1. Wrap \in Nat \ {0}
  BY RingFacts
<1>2. \A b \in Nat : /\ b = Wrap * (b \div Wrap) + (b % Wrap)
                     /\ b \div Wrap \in Nat /\ b % Wrap \in 0 .. Wrap - 1
  BY <1>1
<1>3. \A q \in Int, r \in 0 .. Wrap - 1 : (Wrap * q + r) % Wrap = r
  BY <1>1
<1>4. ASSUME NEW k \in Nat PROVE ((a % Wrap) + k) % Wrap = (a + k) % Wrap
  <2> DEFINE p == a \div Wrap
             b == (a % Wrap) + k
             q == b \div Wrap
             r == b % Wrap
  <2>1. a = Wrap * p + (a % Wrap) /\ p \in Nat /\ a % Wrap \in Nat
    BY <1>1, <1>2
  <2>2. b \in Nat /\ a + k = Wrap * p + b
    BY <1>1, <2>1
  <2>3. b = Wrap * q + r /\ q \in Nat /\ r \in 0 .. Wrap - 1
    BY <1>2, <2>2
  <2> HIDE DEF p, b, q, r
  <2>4. Wrap * p + Wrap * q = Wrap * (p + q)
    BY <1>1, <2>1, <2>3
  <2>5. a + k = Wrap * (p + q) + r
    <3>1. Wrap * p \in Int /\ Wrap * q \in Int /\ Wrap * (p + q) \in Int
      BY <1>1, <2>1, <2>3
    <3> QED
      BY <1>1, <2>2, <2>3, <2>4, <3>1
  <2>6. (a + k) % Wrap = r
    <3>1. p + q \in Int
      BY <2>1, <2>3
    <3> QED
      BY <1>3, <2>3, <2>5, <3>1
  <2> QED
    BY <2>6 DEF b, r
<1> QED
  BY <1>2, <1>4

(* The ends of a sequence of buffers.                                      *)
LEMMA TakeFirst ==
  ASSUME NEW S, NEW s \in Seq(S), s # <<>>
  PROVE  /\ Head(s) = s[1] /\ s[1] \in S /\ Len(s) \in Nat /\ Len(s) > 0
         /\ Tail(s) \in Seq(S) /\ Len(Tail(s)) = Len(s) - 1
         /\ \A i \in 1 .. Len(s) - 1 : Tail(s)[i] = s[i + 1]
  BY HeadTailProperties, ElementOfSeq, LenProperties

(* Appending puts an element at the end and moves no other.                *)
LEMMA PutLast ==
  ASSUME NEW S, NEW s \in Seq(S), NEW e \in S
  PROVE  /\ Append(s, e) \in Seq(S) /\ Len(Append(s, e)) = Len(s) + 1
         /\ Append(s, e)[Len(s) + 1] = e /\ Last(Append(s, e)) = e
         /\ \A i \in 1 .. Len(s) : Append(s, e)[i] = s[i]
  BY AppendProperties DEF Last

-----------------------------------------------------------------------------
(* Setting modes and framerates.  An outcome is a record, and one that     *)
(* succeeds leaves the camera in the mode and at the framerate the class   *)
(* believes, the width and height being those of that mode, unless a       *)
(* listing has put it into another one.                                    *)
Result(ok, mode, rate, m, r, s) ==
    [ok |-> ok, config |-> [mode |-> m, rate |-> r, size |-> s], mode |-> mode, rate |-> rate]

Shaped(o) == \E ok, mode, rate, m, r, s : o = Result(ok, mode, rate, m, r, s)

Agrees(o) ==
    /\ o.mode = o.config.mode \/ listed
    /\ o.rate = o.config.rate /\ o.config.size = o.config.mode

(* An outcome made to fail is one that does not succeed.                   *)
LEMMA FailedOutcome ==
  ASSUME NEW o, Shaped(o)
  PROVE  Shaped(Failed(o)) /\ ~Failed(o).ok
<1>1. PICK ok, mode, rate, m, r, s : o = Result(ok, mode, rate, m, r, s)
  BY DEF Shaped
<1>2. Failed(o) = Result(FALSE, mode, rate, m, r, s)
  <2> DEFINE f == [o EXCEPT !.ok = FALSE]
             R == Result(FALSE, mode, rate, m, r, s)
  <2>1. DOMAIN f = {"ok", "config", "mode", "rate"} /\ f = [x \in DOMAIN f |-> f[x]]
    BY <1>1 DEF Result
  <2>2. DOMAIN R = {"ok", "config", "mode", "rate"} /\ R = [x \in DOMAIN R |-> R[x]]
    BY DEF Result
  <2>3. f["config"] = R["config"] /\ f["mode"] = R["mode"] /\ f["rate"] = R["rate"]
    BY <1>1 DEF Result
  <2>4. f["ok"] = R["ok"]
    BY <1>1 DEF Result
  <2>5. Failed(o) = f /\ R = Result(FALSE, mode, rate, m, r, s)
    BY DEF Failed
  <2> HIDE DEF f, R
  <2> QED
    BY <2>1, <2>2, <2>3, <2>4, <2>5
<1>3. Shaped(Failed(o))
  BY <1>2 DEF Shaped
<1> QED
  BY <1>2, <1>3 DEF Result

(* Setting the framerate: the case of a mode that is already set.          *)
LEMMA RateOutcomes ==
  ASSUME NEW o, Shaped(o), o.mode = o.config.mode \/ listed, o.config.size = o.config.mode,
         NEW fps
  PROVE  \A x \in SetFrameRateOutcomes(o, fps) : Shaped(x) /\ (x.ok => Agrees(x))
<1> TAKE x \in SetFrameRateOutcomes(o, fps)
<1>1. CASE x = Failed(o)
  BY <1>1, FailedOutcome
<1>2. CASE x # Failed(o)
  <2>1. PICK v : x = [o EXCEPT !.config.rate = v, !.rate = v]
    BY <1>2 DEF SetFrameRateOutcomes
  <2>2. PICK ok, mode, rate, m, r, s : o = Result(ok, mode, rate, m, r, s)
    BY DEF Shaped
  <2>3. x = Result(ok, mode, v, m, v, s)
    BY <2>1, <2>2 DEF Result
  <2>4. Shaped(x)
    BY <2>3 DEF Shaped
  <2>5. (mode = m \/ listed) /\ s = m
    BY <2>2 DEF Result
  <2> QED
    BY <2>3, <2>4, <2>5 DEF Result, Agrees
<1> QED
  BY <1>1, <1>2

(* Setting the video mode, which sets the framerate on the way.            *)
LEMMA ModeOutcomes ==
  ASSUME NEW o, Shaped(o), NEW name
  PROVE  \A x \in SetVideoModeOutcomes(o, name) : Shaped(x) /\ (x.ok => Agrees(x))
<1> TAKE x \in SetVideoModeOutcomes(o, name)
<1> DEFINE sized == IF IsFormat7(name) THEN o ELSE [o EXCEPT !.config.size = name]
           moded == [sized EXCEPT !.config.mode = name, !.mode = name]
<1>1. PICK ok, mode, rate, m, r, s : o = Result(ok, mode, rate, m, r, s)
  BY DEF Shaped
<1>2. PICK z : sized = Result(ok, mode, rate, m, r, z) /\ (~IsFormat7(name) => z = name)
  BY <1>1 DEF Result
<1>3. moded = Result(ok, name, rate, name, r, z)
  <2> DEFINE f == [sized EXCEPT !.config.mode = name, !.mode = name]
             R == Result(ok, name, rate, name, r, z)
  <2>1. DOMAIN f = {"ok", "config", "mode", "rate"} /\ f = [d \in DOMAIN f |-> f[d]]
    BY <1>2 DEF Result
  <2>2. DOMAIN R = {"ok", "config", "mode", "rate"} /\ R = [d \in DOMAIN R |-> R[d]]
    BY DEF Result
  <2>3. f["config"] = R["config"]
    BY <1>2 DEF Result
  <2>4. f["mode"] = R["mode"] /\ f["rate"] = R["rate"] /\ f["ok"] = R["ok"]
    BY <1>2 DEF Result
  <2>5. moded = f /\ R = Result(ok, name, rate, name, r, z)
    OBVIOUS
  <2> HIDE DEF f, R, moded
  <2> QED
    BY <2>1, <2>2, <2>3, <2>4, <2>5
<1>4. \/ x \in {Failed(o), Failed(sized), Failed(moded)}
      \/ ~IsFormat7(name) /\ x \in SetFrameRateOutcomes(moded, BestFrameRate(name))
  BY DEF SetVideoModeOutcomes
<1> HIDE DEF sized, moded
<1>5. Shaped(sized) /\ Shaped(moded)
  BY <1>2, <1>3 DEF Shaped
<1>6. /\ moded.mode = moded.config.mode
      /\ ~IsFormat7(name) => moded.config.size = moded.config.mode
  BY <1>2, <1>3 DEF Result
<1> QED
  BY <1>4, <1>5, <1>6, FailedOutcome, RateOutcomes

(* Setting mode and framerate when a camera is opened.                     *)
LEMMA ParamOutcomes ==
  ASSUME NEW o, Shaped(o), NEW name, NEW fps
  PROVE  \A x \in InitParamOutcomes(o, name, fps) : Shaped(x) /\ (x.ok => Agrees(x))
<1> TAKE x \in InitParamOutcomes(o, name, fps)
<1>1. PICK y \in SetVideoModeOutcomes(o, name) :
         IF y.ok THEN x \in SetFrameRateOutcomes(y, fps) ELSE x = y
  BY DEF InitParamOutcomes
<1>2. Shaped(y) /\ (y.ok => Agrees(y))
  BY ModeOutcomes
<1> QED
  BY <1>1, <1>2, RateOutcomes DEF Agrees

(* What the class believes, as the outcome that setting starts from.       *)
LEMMA OutcomeShaped ==
  ASSUME CameraInv, NEW c
  PROVE  Shaped(Outcome(c))
<1>1. PICK m, r, s : config = [mode |-> m, rate |-> r, size |-> s]
  BY DEF CameraInv, Types
<1>2. Outcome(c) = Result(TRUE, device[c].mode, device[c].rate, m, r, s)
  BY <1>1 DEF Outcome, Result
<1> QED
  BY <1>2 DEF Shaped

-----------------------------------------------------------------------------
(* Between two reads the ring is given back, or set up, or left alone.     *)
RingParts == LostInv /\ RingInv /\ ReadInv /\ FramesInv /\ BehindInv

RingTypes ==
    /\ queued \in Seq(Buffers) /\ filled \in Seq(Buffers) /\ ring \in [Buffers -> 0 .. Wrap - 1]
    /\ made \in 0 .. Wrap - 1 /\ lost \in SUBSET Buffers /\ listed \in BOOLEAN

(* Stopping the capture gives the whole ring back.                         *)
LEMMA RingStopped ==
  ASSUME CameraInv, Call, Stop, UNCHANGED <<gap, readVars>>
  PROVE  RingParts' /\ RingTypes' /\ ~capturing' /\ queued' = <<>> /\ filled' = <<>>
<1>1. /\ capturing' = FALSE /\ queued' = <<>> /\ filled' = <<>> /\ ring' = [b \in Buffers |-> 0]
      /\ made' = 0 /\ lost' = {} /\ listed' = FALSE /\ pc' = "idle" /\ prev' = NoFrame
      /\ framesRead' = 0 /\ image' # "undefined"
  BY DEF Stop, Call, None, readVars, CameraInv, ReadInv
<1>2. 0 \in 0 .. Wrap - 1 /\ <<>> \in Seq(Buffers) /\ Len(<<>>) = 0
  BY RingFacts
<1>3. RingTypes'
  BY <1>1, <1>2 DEF RingTypes
<1>4. LostInv' /\ RingInv' /\ ReadInv' /\ BehindInv'
  BY <1>1 DEF LostInv, RingInv, ReadInv, BehindInv
<1>5. FramesInv'
  BY <1>1, <1>2 DEF FramesInv
<1> QED
  BY <1>1, <1>3, <1>4, <1>5 DEF RingParts

(* A capture begins with all buffers queued and none filled.               *)
LEMMA RingStarted ==
  ASSUME CameraInv, Call, UNCHANGED <<gap, readVars>>, capturing',
         queued' = [i \in 1 .. Ring |-> i - 1], filled' = <<>>, lost' = {},
         ring' = [b \in Buffers |-> 0], made' = 0, listed' \in BOOLEAN
  PROVE  RingParts' /\ RingTypes'
<1>1. /\ pc' = "idle" /\ prev' = NoFrame /\ framesRead' = 0 /\ image' # "undefined"
  BY DEF Call, None, readVars, CameraInv, ReadInv
<1>2. 0 \in 0 .. Wrap - 1 /\ <<>> \in Seq(Buffers) /\ Len(<<>>) = 0 /\ Ring \in Nat
  BY RingFacts
<1>3. queued' \in Seq(Buffers) /\ Len(queued') = Ring /\ \A i \in 1 .. Ring : queued'[i] = i - 1
  <2>1. queued' \in [1 .. Ring -> Buffers]
    BY <1>2 DEF Buffers
  <2>2. queued' \in Seq(Buffers)
    BY <1>2, <2>1, SeqDef
  <2> QED
    BY <1>2, <2>1, <2>2, LenProperties
<1>4. RingTypes'
  BY <1>2, <1>3 DEF RingTypes
<1>5. RingInv'
  <2>1. \A b \in Buffers : b + 1 \in 1 .. Ring /\ queued'[b + 1] = b
    BY <1>2, <1>3 DEF Buffers
  <2>2. Len(filled') = 0 /\ Count' = 0 /\ Cardinality(lost') = 0
    BY <1>1, FS_EmptySet DEF Count
  <2>3. \A b \in Buffers : \E i \in 1 .. Len(queued') : queued'[i] = b
    BY <1>3, <2>1
  <2>4. \A i, j \in 1 .. Len(queued') : queued'[i] = queued'[j] => i = j
    BY <1>2, <1>3
  <2> QED
    BY <1>1, <1>2, <1>3, <2>2, <2>3, <2>4 DEF RingInv
<1>6. LostInv' /\ ReadInv' /\ BehindInv'
  BY <1>1 DEF LostInv, ReadInv, BehindInv
<1>7. FramesInv'
  <2>1. 0 % Wrap = 0
    BY RingFacts
  <2>2. (0 + 0 + 0) % Wrap = 0
    BY <2>1
  <2> QED
    BY <1>1, <1>2, <2>2 DEF FramesInv, Frame, Count
<1> QED
  BY <1>4, <1>5, <1>6, <1>7 DEF RingParts

(* A step that leaves the capture and the read alone.                      *)
LEMMA RingUnchanged ==
  ASSUME CameraInv, UNCHANGED <<capturing, queued, filled, lost, ring, made, gap, readVars>>,
         listed' \in BOOLEAN, image' = "undefined" => bayer'
  PROVE  RingParts' /\ RingTypes'
<1>1. UNCHANGED <<queued, filled, lost, ring, made, pc, frame, prev, framesRead, capturing, gap>>
  BY DEF readVars
<1>2. RingTypes'
  BY <1>1 DEF RingTypes, CameraInv, Types
<1>3. Count' = Count /\ \A k : Frame(k)' = Frame(k)
  BY <1>1 DEF Count, Frame
<1>4. LostInv' /\ RingInv' /\ ReadInv' /\ BehindInv'
  BY <1>1, <1>3 DEF LostInv, RingInv, ReadInv, BehindInv, Behind, Enough, CameraInv
<1>5. FramesInv'
  BY <1>1, <1>3 DEF FramesInv, CameraInv
<1> QED
  BY <1>2, <1>4, <1>5 DEF RingParts

(* What is left to show of a step that does not read.                      *)
LEMMA CallKeeps ==
  ASSUME CameraInv, RingParts', RingTypes', UNCHANGED <<gap, pc, framesRead>>,
         image' \in {None, "frame", "undefined"}, dropped' \in Nat, bus' \in Seq(Cameras), guid' \in Cameras \cup {None}, bayer' \in BOOLEAN,
         cam' \in BOOLEAN, cam' => guid' # None, capturing' \in BOOLEAN,
         (device = [c \in Cameras |-> device[c]])',
         (config = [mode |-> config.mode, rate |-> config.rate, size |-> config.size])',
         HandleInv'
  PROVE  CameraInv'
<1>1. Types'
  BY DEF CameraInv, Types, RingTypes
<1> QED
  BY <1>1 DEF CameraInv, RingParts

(* Taking an outcome over, and starting to capture with a good one.        *)
LEMMA TakeKeeps ==
  ASSUME CameraInv, NEW o, Shaped(o), NEW sending, Take(o, sending), guid' \in Cameras
  PROVE  /\ (device = [c \in Cameras |-> device[c]])'
         /\ (config = [mode |-> config.mode, rate |-> config.rate, size |-> config.size])'
         /\ config' = o.config
         /\ device'[guid'] = [mode |-> o.mode, rate |-> o.rate, sending |-> sending]
<1>1. device = [c \in Cameras |-> device[c]]
  BY DEF CameraInv, Types
<1>2. device' = [device EXCEPT ![guid'] = [mode |-> o.mode, rate |-> o.rate, sending |-> sending]]
      /\ config' = o.config
  BY DEF Take
<1>3. o.config = [mode |-> o.config.mode, rate |-> o.config.rate, size |-> o.config.size]
  BY DEF Shaped, Result
<1> QED
  BY <1>1, <1>2, <1>3

(* Starting a capture in a mode that the camera agreed to.                 *)
LEMMA StartKeeps ==
  ASSUME CameraInv, NEW o, Shaped(o), o.ok, Agrees(o), Start(o), Call,
         UNCHANGED <<gap, readVars>>, guid' \in Cameras, bus' \in Seq(Cameras),
         bayer' \in BOOLEAN
  PROVE  CameraInv'
<1>1. /\ UNCHANGED <<gap, pc, framesRead>> /\ guid' # None /\ image' = None /\ dropped' = 0
      /\ pc' = "idle"
  BY RingFacts DEF readVars, Call
<1>2. CASE CleanUp /\ Take(o, FALSE)
  <2>1. RingParts' /\ RingTypes' /\ ~capturing' /\ queued' = <<>> /\ filled' = <<>>
    BY <1>2, RingStopped DEF CleanUp
  <2>2. /\ (device = [c \in Cameras |-> device[c]])'
        /\ (config = [mode |-> config.mode, rate |-> config.rate, size |-> config.size])'
    BY <1>2, TakeKeeps
  <2>3. cam' = FALSE /\ capturing' = FALSE
    BY <1>2 DEF CleanUp, Stop
  <2>4. HandleInv'
    BY <1>1, <2>1 DEF HandleInv
  <2> QED
    BY <1>1, <2>1, <2>2, <2>3, <2>4, CallKeeps
<1>3. CASE ~(CleanUp /\ Take(o, FALSE))
  <2>1. /\ cam' = TRUE /\ capturing' = TRUE /\ Take(o, TRUE)
        /\ queued' = [i \in 1 .. Ring |-> i - 1] /\ filled' = <<>> /\ lost' = {}
        /\ ring' = [b \in Buffers |-> 0] /\ made' = 0
        /\ listed' = (listed /\ o.mode # o.config.mode)
    BY <1>3 DEF Start
  <2>2. RingParts' /\ RingTypes'
    BY <2>1, RingStarted
  <2>3. /\ (device = [c \in Cameras |-> device[c]])'
        /\ (config = [mode |-> config.mode, rate |-> config.rate, size |-> config.size])'
        /\ config' = o.config
        /\ device'[guid'] = [mode |-> o.mode, rate |-> o.rate, sending |-> TRUE]
    BY <2>1, TakeKeeps
  <2>4. HandleInv'
    <3>1. device'[guid'].mode = o.mode /\ device'[guid'].rate = o.rate /\ device'[guid'].sending
      BY <2>3
    <3>2. config'.mode = o.config.mode /\ config'.rate = o.config.rate /\ config'.size = o.config.size
      BY <2>3
    <3>3. o.mode = o.config.mode \/ listed'
      BY <2>1 DEF Agrees
    <3> QED
      BY <2>1, <3>1, <3>2, <3>3 DEF HandleInv, Agrees
  <2> QED
    BY <1>1, <2>1, <2>2, <2>3, <2>4, CallKeeps
<1> QED
  BY <1>2, <1>3

(* Closing the handle, whatever is then believed of the camera.            *)
LEMMA CleanUpKeeps ==
  ASSUME CameraInv, CleanUp, Call, UNCHANGED <<gap, readVars>>, bus' \in Seq(Cameras),
         guid' \in Cameras \cup {None}, bayer' \in BOOLEAN,
         (device = [c \in Cameras |-> device[c]])',
         (config = [mode |-> config.mode, rate |-> config.rate, size |-> config.size])'
  PROVE  CameraInv'
<1>1. UNCHANGED <<gap, pc, framesRead>> /\ image' = None /\ dropped' = 0 /\ pc' = "idle"
  BY DEF readVars, Call
<1>2. RingParts' /\ RingTypes' /\ ~capturing' /\ queued' = <<>> /\ filled' = <<>>
  BY RingStopped DEF CleanUp
<1>3. cam' = FALSE /\ capturing' = FALSE
  BY DEF CleanUp, Stop
<1>4. HandleInv'
  BY <1>1, <1>2 DEF HandleInv
<1> QED
  BY <1>1, <1>2, <1>3, <1>4, CallKeeps

-----------------------------------------------------------------------------
(* The calls that configure the camera.                                    *)
LEMMA FoundCamera ==
  ASSUME CameraInv, NEW g \in Cameras \cup {None}, InitCam(g)
  PROVE  /\ guid' = Found(g) /\ Found(g) \in Cameras /\ Call
         /\ bus \in Seq(Cameras)
<1>1. bus \in Seq(Cameras) /\ bus # <<>> /\ guid \in Cameras \cup {None} /\ Found(g) # None
  BY DEF CameraInv, Types, InitCam
<1>2. Head(bus) \in Cameras
  BY <1>1, TakeFirst
<1>3. g \in ToSet(bus) => g \in Cameras
  BY <1>1, ElementOfSeq DEF ToSet
<1> QED
  BY <1>1, <1>2, <1>3 DEF Found, InitCam

(* A camera that cannot be initialised.                                    *)
LEMMA InitCamFailsKeeps ==
  ASSUME CameraInv, NEW g \in Cameras \cup {None}, InitCamFails(g)
  PROVE  CameraInv'
<1>1. /\ guid' \in Cameras /\ bus \in Seq(Cameras) /\ CleanUp /\ Call
      /\ UNCHANGED <<bus, device, config, bayer, gap, readVars>>
  BY FoundCamera DEF InitCamFails
<1>2. /\ (device = [c \in Cameras |-> device[c]])' /\ bayer' \in BOOLEAN
      /\ (config = [mode |-> config.mode, rate |-> config.rate, size |-> config.size])'
  BY <1>1 DEF CameraInv, Types
<1> QED
  BY <1>1, <1>2, CleanUpKeeps

(* Opening a camera in its best mode.                                      *)
LEMMA OpenBestKeeps ==
  ASSUME CameraInv, NEW g \in Cameras \cup {None}, OpenBest(g)
  PROVE  CameraInv'
<1>1. /\ guid' = Found(g) /\ guid' \in Cameras /\ Call
      /\ UNCHANGED <<bus, gap, readVars>> /\ bus' \in Seq(Cameras) /\ bayer \in BOOLEAN
      /\ guid' # None
  BY FoundCamera, RingFacts DEF OpenBest, CameraInv, Types
<1>2. CASE cam' = TRUE /\ Stop /\ UNCHANGED <<device, config, bayer>>
  <2>1. RingParts' /\ RingTypes' /\ ~capturing' /\ queued' = <<>> /\ filled' = <<>>
    BY <1>1, <1>2, RingStopped
  <2>2. /\ pc' = "idle" /\ framesRead' = framesRead /\ image' = None /\ dropped' = 0
        /\ gap' = gap /\ pc = "idle" /\ capturing' = FALSE
    BY <1>1, <1>2 DEF readVars, Call, Stop
  <2>3. HandleInv'
    BY <2>1, <2>2 DEF HandleInv
  <2>4. /\ (device = [c \in Cameras |-> device[c]])' /\ bayer' \in BOOLEAN
        /\ (config = [mode |-> config.mode, rate |-> config.rate, size |-> config.size])'
    BY <1>2 DEF CameraInv, Types
  <2> QED
    BY <1>1, <1>2, <2>1, <2>2, <2>3, <2>4, CallKeeps
<1>3. ASSUME NEW o \in InitParamOutcomes(Outcome(Found(g)), BestVideoMode, BestFrameRate(BestVideoMode)),
             bayer' = (bayer /\ ~o.ok),
             IF o.ok THEN Start(o) ELSE CleanUp /\ Take(o, device[guid'].sending)
      PROVE  CameraInv'
  <2>1. Shaped(o) /\ (o.ok => Agrees(o))
    BY OutcomeShaped, ParamOutcomes
  <2>2. CASE o.ok
    BY <1>1, <1>3, <2>1, <2>2, StartKeeps
  <2>3. CASE ~o.ok
    <3>1. CleanUp /\ Take(o, device[guid'].sending)
      BY <1>3, <2>3
    <3>2. /\ (device = [c \in Cameras |-> device[c]])'
          /\ (config = [mode |-> config.mode, rate |-> config.rate, size |-> config.size])'
      BY <1>1, <2>1, <3>1, TakeKeeps
    <3>3. bayer' \in BOOLEAN
      BY <1>3
    <3> QED
      BY <1>1, <3>1, <3>2, <3>3, CleanUpKeeps
  <2> QED
    BY <2>2, <2>3
<1> QED
  BY <1>2, <1>3 DEF OpenBest

(* Opening a camera in a given mode and framerate.                         *)
LEMMA OpenWithKeeps ==
  ASSUME CameraInv, NEW g \in Cameras \cup {None}, NEW name, NEW fps, NEW method \in BOOLEAN,
         OpenWith(g, name, fps, method)
  PROVE  CameraInv'
<1>1. /\ guid' = Found(g) /\ guid' \in Cameras /\ Call
      /\ UNCHANGED <<bus, gap, readVars>> /\ bus' \in Seq(Cameras) /\ bayer \in BOOLEAN
  BY FoundCamera DEF OpenWith, CameraInv, Types
<1>2. PICK o \in InitParamOutcomes(Outcome(Found(g)), name, fps) :
         \/ o.ok /\ bayer' = method /\ Start(o)
         \/ bayer' = (IF o.ok THEN TRUE ELSE bayer) /\ CleanUp /\ Take(o, device[guid'].sending)
  BY DEF OpenWith
<1>3. Shaped(o) /\ (o.ok => Agrees(o))
  BY OutcomeShaped, ParamOutcomes
<1>4. CASE o.ok /\ bayer' = method /\ Start(o)
  BY <1>1, <1>3, <1>4, StartKeeps
<1>5. CASE bayer' = (IF o.ok THEN TRUE ELSE bayer) /\ CleanUp /\ Take(o, device[guid'].sending)
  <2>1. /\ (device = [c \in Cameras |-> device[c]])'
        /\ (config = [mode |-> config.mode, rate |-> config.rate, size |-> config.size])'
    BY <1>1, <1>3, <1>5, TakeKeeps
  <2>2. bayer' \in BOOLEAN
    BY <1>1, <1>5
  <2> QED
    BY <1>1, <1>5, <2>1, <2>2, CleanUpKeeps
<1> QED
  BY <1>2, <1>4, <1>5

(* Stopping, setting, and starting again if that succeeds.                 *)
LEMMA ReconfigureKeeps ==
  ASSUME CameraInv, NEW outcomes, Reconfigure(outcomes),
         capturing => \A o \in outcomes : Shaped(o) /\ (o.ok => Agrees(o))
  PROVE  CameraInv'
<1>1. /\ Call /\ cam /\ UNCHANGED <<guid, bus, bayer, gap, readVars>>
      /\ guid' \in Cameras /\ bus' \in Seq(Cameras) /\ bayer' \in BOOLEAN
      /\ (device = [c \in Cameras |-> device[c]])
      /\ (config = [mode |-> config.mode, rate |-> config.rate, size |-> config.size])
  BY DEF Reconfigure, CameraInv, Types
<1>2. CASE CleanUp /\ UNCHANGED <<device, config>>
  BY <1>1, <1>2, CleanUpKeeps
<1>3. CASE CleanUp /\ Take(Outcome(guid), FALSE)
  <2>1. Shaped(Outcome(guid))
    BY OutcomeShaped
  <2>2. /\ (device = [c \in Cameras |-> device[c]])'
        /\ (config = [mode |-> config.mode, rate |-> config.rate, size |-> config.size])'
    BY <1>1, <1>3, <2>1, TakeKeeps
  <2> QED
    BY <1>1, <1>3, <2>2, CleanUpKeeps
<1>4. ASSUME capturing, NEW o \in outcomes,
             IF o.ok THEN Start(o) ELSE cam' = TRUE /\ Stop /\ Take(o, FALSE)
      PROVE  CameraInv'
  <2>1. Shaped(o) /\ (o.ok => Agrees(o))
    BY <1>4
  <2>2. CASE o.ok
    BY <1>1, <1>4, <2>1, <2>2, StartKeeps
  <2>3. CASE ~o.ok
    <3>1. cam' = TRUE /\ Stop /\ Take(o, FALSE)
      BY <1>4, <2>3
    <3>2. RingParts' /\ RingTypes' /\ ~capturing' /\ queued' = <<>> /\ filled' = <<>>
      BY <1>1, <3>1, RingStopped
    <3>3. /\ (device = [c \in Cameras |-> device[c]])'
          /\ (config = [mode |-> config.mode, rate |-> config.rate, size |-> config.size])'
      BY <1>1, <2>1, <3>1, TakeKeeps
    <3>4. /\ UNCHANGED <<gap, pc, framesRead>> /\ guid' # None /\ capturing' = FALSE
          /\ image' = None /\ dropped' = 0 /\ pc' = "idle"
      BY <1>1, <3>1, RingFacts DEF readVars, Stop, Call
    <3>5. HandleInv'
      BY <1>1, <3>2, <3>4 DEF HandleInv
    <3> QED
      BY <1>1, <3>1, <3>2, <3>3, <3>4, <3>5, CallKeeps
  <2> QED
    BY <2>2, <2>3
<1> QED
  BY <1>2, <1>3, <1>4 DEF Reconfigure

(* Setting the video mode of a camera that runs.                           *)
LEMMA SetVideoModeKeeps ==
  ASSUME CameraInv, NEW name, SetVideoMode(name)
  PROVE  CameraInv'
<1>1. \A o \in SetVideoModeOutcomes(Outcome(guid), name) : Shaped(o) /\ (o.ok => Agrees(o))
  BY OutcomeShaped, ModeOutcomes
<1> QED
  BY <1>1, ReconfigureKeeps DEF SetVideoMode

(* Setting the framerate of a camera that runs.                            *)
LEMMA SetFrameRateKeeps ==
  ASSUME CameraInv, NEW fps, SetFrameRate(fps)
  PROVE  CameraInv'
<1>1. ASSUME capturing
      PROVE  \A o \in SetFrameRateOutcomes(Outcome(guid), fps) : Shaped(o) /\ (o.ok => Agrees(o))
  <2>1. /\ Outcome(guid).mode = Outcome(guid).config.mode \/ listed
        /\ Outcome(guid).config.size = Outcome(guid).config.mode
    BY <1>1 DEF CameraInv, HandleInv, Outcome
  <2> QED
    BY <2>1, OutcomeShaped, RateOutcomes
<1> QED
  BY <1>1, ReconfigureKeeps DEF SetFrameRate

(* Closing the camera.                                                     *)
LEMMA CloseKeeps ==
  ASSUME CameraInv, Close
  PROVE  CameraInv'
<1>1. /\ Call /\ CleanUp /\ UNCHANGED <<bus, guid, config, bayer, gap, readVars>>
      /\ bus' \in Seq(Cameras) /\ guid' \in Cameras \cup {None} /\ bayer' \in BOOLEAN
      /\ (config = [mode |-> config.mode, rate |-> config.rate, size |-> config.size])'
      /\ (device = [c \in Cameras |-> device[c]])
  BY DEF Close, CameraInv, Types
<1>2. PICK v : device' = [device EXCEPT ![guid].sending = v]
  BY DEF Close
<1>3. (device = [c \in Cameras |-> device[c]])'
  BY <1>1, <1>2
<1> QED
  BY <1>1, <1>3, CleanUpKeeps

(* The destructor.                                                         *)
LEMMA DestroyKeeps ==
  ASSUME CameraInv, Destroy
  PROVE  CameraInv'
<1>1. /\ Call /\ CleanUp /\ UNCHANGED <<bus, device, gap, readVars>>
      /\ bus' \in Seq(Cameras) /\ guid' = None /\ bayer' = FALSE /\ config' = Unconfigured
      /\ (device = [c \in Cameras |-> device[c]])
  BY DEF Destroy, CameraInv, Types
<1>2. (config = [mode |-> config.mode, rate |-> config.rate, size |-> config.size])'
  BY <1>1 DEF Unconfigured
<1> QED
  BY <1>1, <1>2, CleanUpKeeps

(* Listing the cameras on the bus leaves the ring alone.                   *)
LEMMA ListCamerasKeeps ==
  ASSUME CameraInv, ListCameras
  PROVE  CameraInv'
<1>1. /\ Call /\ UNCHANGED <<bus, guid, cam, config, bayer, capturing, queued, filled, lost, ring,
                              made, gap, readVars>>
      /\ listed' = (capturing /\ device'[guid].mode # config.mode)
  BY DEF ListCameras, classVars
<1>2. PICK m \in [ToSet(bus) -> ToSet(Modes)] :
         device' = [c \in Cameras |->
                      IF c \in DOMAIN m
                      THEN [mode |-> m[c], rate |-> device[c].rate, sending |-> device[c].sending]
                      ELSE device[c]]
  BY DEF ListCameras
<1>3. image' = None /\ image' # "undefined" /\ dropped' = 0 /\ listed' \in BOOLEAN
  BY <1>1 DEF Call, None
<1>4. RingParts' /\ RingTypes'
  BY <1>1, <1>3, RingUnchanged
<1>5. UNCHANGED <<pc, framesRead, gap>>
  BY <1>1 DEF readVars
<1>6. HandleInv'
  <2>1. ASSUME capturing
        PROVE  device'[guid].sending = device[guid].sending /\ device'[guid].rate = device[guid].rate
    <3>1. guid \in Cameras
      BY <2>1 DEF CameraInv, Types, HandleInv
    <3> QED
      BY <1>2, <3>1
  <2> QED
    BY <1>1, <1>5, <2>1 DEF CameraInv, HandleInv
<1>7. /\ bus' \in Seq(Cameras) /\ guid' \in Cameras \cup {None} /\ bayer' \in BOOLEAN
      /\ cam' \in BOOLEAN /\ (cam' => guid' # None) /\ capturing' \in BOOLEAN
      /\ (config = [mode |-> config.mode, rate |-> config.rate, size |-> config.size])'
  BY <1>1 DEF CameraInv, Types
<1>8. (device = [c \in Cameras |-> device[c]])'
  BY <1>2
<1> QED
  BY <1>3, <1>4, <1>5, <1>6, <1>7, <1>8, CallKeeps

(* A camera is plugged in or out.                                          *)
LEMMA PlugKeeps ==
  ASSUME CameraInv, Plug
  PROVE  CameraInv'
<1>1. /\ bus' \in Buses
      /\ UNCHANGED <<device, guid, cam, config, bayer, capturing, queued, filled, lost, ring, made,
                     listed, gap, readVars, image, dropped>>
  BY DEF Plug, classVars, ringVars, result
<1>2. bus' \in Seq(Cameras)
  BY <1>1, CameraAssumption
<1>3. RingParts' /\ RingTypes'
  BY <1>1, RingUnchanged DEF CameraInv, Types, BehindInv
<1>4. UNCHANGED <<pc, framesRead, gap>>
  BY <1>1 DEF readVars
<1>5. HandleInv'
  BY <1>1, <1>4 DEF CameraInv, HandleInv
<1>6. /\ guid' \in Cameras \cup {None} /\ bayer' \in BOOLEAN
      /\ cam' \in BOOLEAN /\ (cam' => guid' # None) /\ capturing' \in BOOLEAN
      /\ (config = [mode |-> config.mode, rate |-> config.rate, size |-> config.size])'
      /\ (device = [c \in Cameras |-> device[c]])'
      /\ image' \in {None, "frame", "undefined"} /\ dropped' \in Nat
  BY <1>1 DEF CameraInv, Types
<1> QED
  BY <1>2, <1>3, <1>4, <1>5, <1>6, CallKeeps

-----------------------------------------------------------------------------
(* The steps of read(), and the engine.                                    *)
LEMMA ReadFacts ==
  ASSUME CameraInv
  PROVE  /\ queued \in Seq(Buffers) /\ filled \in Seq(Buffers)
         /\ Len(queued) \in Nat /\ Len(filled) \in Nat
         /\ framesRead \in Nat /\ made \in 0 .. Wrap - 1 /\ Count \in {0, 1}
         /\ lost \in SUBSET Buffers /\ IsFiniteSet(lost) /\ Cardinality(lost) \in Nat
         /\ ring \in [Buffers -> 0 .. Wrap - 1] /\ gap \in 0 .. MinGap
<1>1. IsFiniteSet(Buffers)
  BY RingFacts, FS_Interval DEF Buffers
<1>2. lost \in SUBSET Buffers
  BY DEF CameraInv, Types
<1>3. IsFiniteSet(lost) /\ Cardinality(lost) \in Nat
  BY <1>1, <1>2, FS_Subset, FS_CardinalityType
<1> QED
  BY <1>2, <1>3, RingFacts, LenProperties DEF CameraInv, Types, Count

(* A read begins.                                                          *)
LEMMA ReadStartKeeps ==
  ASSUME CameraInv, ReadStart
  PROVE  CameraInv'
<1>1. /\ pc = "idle" /\ pc' = "wait" /\ image' = None /\ image' # "undefined" /\ dropped' = 0
      /\ UNCHANGED <<bus, device, guid, cam, config, bayer, capturing, queued, filled, lost, ring,
                     made, listed, gap, frame, prev, framesRead>>
  BY DEF ReadStart, Call, None, setVars, classVars, ringVars
<1>2. Count' = Count /\ \A k : Frame(k)' = Frame(k)
  BY <1>1 DEF Count, Frame
<1>3. Types' /\ HandleInv'
  BY <1>1 DEF CameraInv, Types, HandleInv
<1>4. LostInv' /\ RingInv' /\ ReadInv' /\ BehindInv'
  BY <1>1, <1>2 DEF CameraInv, LostInv, RingInv, ReadInv, BehindInv, Behind, Enough
<1>5. FramesInv'
  BY <1>1, <1>2 DEF CameraInv, FramesInv
<1> QED
  BY <1>3, <1>4, <1>5 DEF CameraInv

(* Waiting for a frame fails, and the read ends.                           *)
LEMMA WaitFailsKeeps ==
  ASSUME CameraInv, WaitFails
  PROVE  CameraInv'
<1>1. /\ pc = "wait" /\ pc' = "poll"
      /\ UNCHANGED <<bus, device, guid, cam, config, bayer, capturing, queued, filled, lost, ring,
                     made, listed, gap, frame, prev, framesRead, image, dropped>>
  BY DEF WaitFails, setVars, classVars, ringVars, result
<1>2. Count' = Count /\ \A k : Frame(k)' = Frame(k)
  BY <1>1 DEF Count, Frame
<1>3. Types' /\ HandleInv'
  BY <1>1 DEF CameraInv, Types, HandleInv
<1>4. LostInv' /\ RingInv' /\ ReadInv' /\ BehindInv'
  BY <1>1, <1>2 DEF CameraInv, LostInv, RingInv, ReadInv, BehindInv, Behind, Enough
<1>5. FramesInv'
  BY <1>1, <1>2 DEF CameraInv, FramesInv
<1> QED
  BY <1>3, <1>4, <1>5 DEF CameraInv

(* The time since the last frame stays in its range.                       *)
LEMMA TickTyped ==
  ASSUME CameraInv, Tick
  PROVE  gap' \in 0 .. MinGap
  BY RingFacts, ReadFacts DEF Tick

(* The read takes a filled buffer.                                         *)
LEMMA DequeueKeeps ==
  ASSUME CameraInv, Dequeue
  PROVE  CameraInv'
<1> DEFINE h == filled[1]
<1>1. /\ pc \in {"wait", "poll"} /\ pc' = "enqueue" /\ capturing /\ filled # <<>>
      /\ frame' = [buffer |-> h, number |-> ring[h]] /\ filled' = Tail(filled) /\ Tick
      /\ UNCHANGED <<bus, device, guid, cam, config, bayer, capturing, queued, lost, ring, made,
                     listed, prev, framesRead, image, dropped>>
  BY ReadFacts, TakeFirst DEF Dequeue, setVars, classVars, result
<1>2. /\ h \in Buffers /\ filled' \in Seq(Buffers) /\ Len(filled') = Len(filled) - 1
      /\ Len(filled) \in Nat /\ Len(filled) > 0
      /\ \A i \in 1 .. Len(filled) - 1 : filled'[i] = filled[i + 1]
  BY <1>1, ReadFacts, TakeFirst
<1>3. frame'.buffer = h /\ frame'.number = ring[h] /\ Count = 0 /\ Count' = 1
  BY <1>1 DEF Count
<1> HIDE DEF h
<1>4. Types'
  <2>1. gap' \in 0 .. MinGap
    BY <1>1, TickTyped
  <2> QED
    BY <1>1, <1>2, <2>1 DEF CameraInv, Types
<1>5. HandleInv'
  BY <1>1 DEF CameraInv, HandleInv
<1>6. RingInv'
  <2>0. RingInv
    BY DEF CameraInv
  <2>1. \A i, j \in 1 .. Len(queued') : queued'[i] = queued'[j] => i = j
    BY <1>1, <2>0 DEF RingInv
  <2>2. ASSUME NEW i \in 1 .. Len(filled'), NEW j \in 1 .. Len(filled'), filled'[i] = filled'[j]
        PROVE  i = j
    <3>1. i + 1 \in 1 .. Len(filled) /\ j + 1 \in 1 .. Len(filled)
      BY <1>2
    <3>2. filled[i + 1] = filled[j + 1]
      BY <1>2, <2>2
    <3>3. i + 1 = j + 1
      BY <1>1, <2>0, <3>1, <3>2 DEF RingInv
    <3> QED
      BY <3>3
  <2>3. ASSUME NEW i \in 1 .. Len(queued'), NEW j \in 1 .. Len(filled')
        PROVE  queued'[i] # filled'[j]
    <3>1. j + 1 \in 1 .. Len(filled) /\ filled'[j] = filled[j + 1]
      BY <1>2
    <3> QED
      BY <1>1, <2>0, <3>1 DEF RingInv
  <2>4. \A i \in 1 .. Len(queued') : queued'[i] # h
    <3>1. 1 \in 1 .. Len(filled)
      BY <1>2
    <3> QED
      BY <1>1, <2>0, <3>1 DEF RingInv, h
  <2>5. ASSUME NEW i \in 1 .. Len(filled') PROVE filled'[i] # h
    <3>1. i + 1 \in 1 .. Len(filled) /\ filled'[i] = filled[i + 1] /\ 1 \in 1 .. Len(filled)
          /\ i + 1 # 1
      BY <1>2
    <3> QED
      BY <1>1, <2>0, <3>1 DEF RingInv, h
  <2>6. ASSUME NEW b \in Buffers
        PROVE  \/ \E i \in 1 .. Len(queued') : queued'[i] = b
               \/ \E i \in 1 .. Len(filled') : filled'[i] = b
               \/ b = h \/ b \in lost
    <3>1. CASE \E i \in 1 .. Len(queued) : queued[i] = b
      BY <1>1, <3>1
    <3>2. ASSUME NEW i \in 1 .. Len(filled), filled[i] = b
          PROVE  b = h \/ \E j \in 1 .. Len(filled') : filled'[j] = b
      <4>1. CASE i = 1
        BY <3>2, <4>1 DEF h
      <4>2. CASE i # 1
        <5>1. i - 1 \in 1 .. Len(filled') /\ filled'[i - 1] = filled[(i - 1) + 1]
          BY <1>2, <4>2
        <5>2. (i - 1) + 1 = i
          OBVIOUS
        <5> QED
          BY <3>2, <5>1, <5>2
      <4> QED
        BY <4>1, <4>2
    <3> QED
      BY <1>1, <2>0, <3>1, <3>2 DEF RingInv
  <2>7. Len(queued') + Len(filled') + Count' + Cardinality(lost') = Ring
    <3>1. Len(queued) + Len(filled) + 0 + Cardinality(lost) = Ring
      BY <1>1, <1>3, <2>0 DEF RingInv
    <3> QED
      BY <1>1, <1>2, <1>3, <3>1, ReadFacts
  <2> QED
    BY <1>1, <1>3, <2>1, <2>2, <2>3, <2>4, <2>5, <2>6, <2>7 DEF RingInv
<1>11. LostInv'
  <2>0. LostInv
    BY DEF CameraInv
  <2>1. 1 \in 1 .. Len(filled) /\ \A i \in 1 .. Len(filled') : i + 1 \in 1 .. Len(filled)
    BY <1>2
  <2>2. h \notin lost /\ \A i \in 1 .. Len(filled') : filled'[i] \notin lost
    BY <1>1, <1>2, <2>0, <2>1 DEF LostInv, h
  <2> QED
    BY <1>1, <1>3, <2>0, <2>2 DEF LostInv
<1>7. \A i \in Nat : Frame(i)' = Frame(i + 1)
  <2>1. \A i \in Nat : framesRead + 1 + i = framesRead + 0 + (i + 1)
    BY ReadFacts
  <2> QED
    BY <1>1, <1>3, <2>1 DEF Frame
<1>8. FramesInv'
  <2>1. ASSUME NEW i \in 1 .. Len(filled') PROVE ring'[filled'[i]] = Frame(i)'
    <3>1. i + 1 \in 1 .. Len(filled) /\ filled'[i] = filled[i + 1] /\ i \in Nat
      BY <1>2
    <3> QED
      BY <1>1, <1>7, <3>1 DEF CameraInv, FramesInv
  <2>2. PICK n \in Nat : n = Len(filled') /\ n + 1 = Len(filled)
    BY <1>2
  <2>3. made' = Frame(n)'
    <3>1. made = Frame(n + 1)
      BY <1>1, <2>2 DEF CameraInv, FramesInv
    <3> QED
      BY <1>1, <1>7, <3>1
  <2>4. made' = Frame(Len(filled))'
    BY <2>2, <2>3 DEF Frame
  <2> QED
    BY <2>1, <2>4 DEF FramesInv
<1>9. ReadInv'
  <2>1. ring[h] = Frame(1)
    <3>1. 1 \in 1 .. Len(filled)
      BY <1>2
    <3> QED
      BY <3>1 DEF CameraInv, FramesInv, h
  <2>2. Frame(0)' = Frame(1)
    BY <1>7
  <2> QED
    BY <1>1, <1>2, <1>3, <2>1, <2>2 DEF CameraInv, ReadInv
<1>10. BehindInv'
  BY <1>1 DEF CameraInv, BehindInv
<1> QED
  BY <1>4, <1>5, <1>6, <1>8, <1>9, <1>10, <1>11 DEF CameraInv

(* The read gives its buffer back to the ring, which may fail.             *)
LEMMA EnqueueKeeps ==
  ASSUME CameraInv, Enqueue
  PROVE  CameraInv'
<1> DEFINE b == frame.buffer
<1>1. /\ pc = "enqueue" /\ pc' = "poll" /\ prev' = frame
      /\ framesRead' = framesRead + 1 /\ Tick /\ capturing /\ GiveBack
      /\ UNCHANGED <<bus, device, guid, cam, config, bayer, capturing, filled, ring, made, listed,
                     image, dropped>>
  BY DEF Enqueue, setVars, classVars, result, CameraInv, HandleInv
<1>2. b \in Buffers /\ frame.number = ring[b] /\ frame.number = Frame(0)
  BY <1>1 DEF CameraInv, ReadInv
<1>3. Count = 1 /\ Count' = 0
  BY <1>1 DEF Count
<1>4. /\ \A i \in 1 .. Len(queued) : queued[i] # b
      /\ \A i \in 1 .. Len(filled) : filled[i] # b
      /\ b \notin lost
  BY <1>1 DEF CameraInv, RingInv, LostInv
<1>5. /\ queued' \in Seq(Buffers) /\ lost' \in SUBSET Buffers
      /\ LostInv' /\ RingInv' /\ (b \in lost' \/ (queued' # <<>> /\ b = Last(queued')))
  <2>0. RingInv /\ LostInv
    BY DEF CameraInv
  <2>1. \A i, j \in 1 .. Len(filled') : filled'[i] = filled'[j] => i = j
    BY <1>1, <2>0 DEF RingInv
  <2>2. Len(queued) + Len(filled) + 1 + Cardinality(lost) = Ring
    BY <1>1, <1>3, <2>0 DEF RingInv
  <2>3. CASE queued' = Append(queued, b) /\ lost' = lost
    <3>1. /\ queued' \in Seq(Buffers) /\ Len(queued') = Len(queued) + 1 /\ Len(queued) \in Nat
          /\ queued'[Len(queued) + 1] = b /\ Last(queued') = b
          /\ \A i \in 1 .. Len(queued) : queued'[i] = queued[i]
      BY <1>2, <2>3, ReadFacts, PutLast
    <3>2. \A i \in 1 .. Len(queued') : i \in 1 .. Len(queued) \/ i = Len(queued) + 1
      BY <3>1
    <3>3. \A i, j \in 1 .. Len(queued') : queued'[i] = queued'[j] => i = j
      BY <1>1, <1>4, <2>0, <3>1, <3>2 DEF RingInv
    <3>4. \A i \in 1 .. Len(queued'), j \in 1 .. Len(filled') : queued'[i] # filled'[j]
      BY <1>1, <1>4, <2>0, <3>1, <3>2 DEF RingInv
    <3>5. ASSUME NEW c \in Buffers
          PROVE  \/ \E i \in 1 .. Len(queued') : queued'[i] = c
                 \/ \E i \in 1 .. Len(filled') : filled'[i] = c
                 \/ c \in lost'
      <4>1. CASE c = b
        <5>1. Len(queued) + 1 \in 1 .. Len(queued')
          BY <3>1
        <5> QED
          BY <3>1, <4>1, <5>1
      <4>2. CASE c # b
        <5>1. \A i \in 1 .. Len(queued) : i \in 1 .. Len(queued') /\ queued'[i] = queued[i]
          BY <3>1
        <5> QED
          BY <1>1, <2>0, <2>3, <4>2, <5>1 DEF RingInv
      <4> QED
        BY <4>1, <4>2
    <3>6. Len(queued') + Len(filled') + Count' + Cardinality(lost') = Ring
      BY <1>1, <1>3, <2>2, <2>3, <3>1, ReadFacts
    <3>7. RingInv'
      BY <1>1, <2>1, <3>3, <3>4, <3>5, <3>6 DEF RingInv
    <3>8. LostInv'
      BY <1>1, <1>4, <2>0, <2>3, <3>1, <3>2 DEF LostInv
    <3>9. queued' # <<>>
      BY <3>1
    <3> QED
      BY <2>3, <3>1, <3>7, <3>8, <3>9, ReadFacts
  <2>4. CASE queued' = queued /\ lost' = lost \cup {b}
    <3>1. Cardinality(lost') = Cardinality(lost) + 1
      BY <1>4, <2>4, ReadFacts, FS_AddElement
    <3>2. Len(queued') + Len(filled') + Count' + Cardinality(lost') = Ring
      BY <1>1, <1>3, <2>2, <2>4, <3>1, ReadFacts
    <3>3. \A c \in Buffers : \/ \E i \in 1 .. Len(queued') : queued'[i] = c
                             \/ \E i \in 1 .. Len(filled') : filled'[i] = c
                             \/ c \in lost'
      BY <1>1, <2>0, <2>4 DEF RingInv
    <3>4. /\ \A i, j \in 1 .. Len(queued') : queued'[i] = queued'[j] => i = j
          /\ \A i \in 1 .. Len(queued'), j \in 1 .. Len(filled') : queued'[i] # filled'[j]
      BY <1>1, <2>0, <2>4 DEF RingInv
    <3>5. RingInv'
      BY <1>1, <2>1, <3>2, <3>3, <3>4 DEF RingInv
    <3>6. LostInv'
      BY <1>1, <1>4, <2>0, <2>4 DEF LostInv
    <3> QED
      BY <1>2, <2>4, <3>5, <3>6, ReadFacts
  <2> QED
    BY <1>1, <2>3, <2>4 DEF GiveBack
<1>6. Types'
  <2>1. gap' \in 0 .. MinGap
    BY <1>1, TickTyped
  <2> QED
    BY <1>1, <1>5, <2>1 DEF CameraInv, Types
<1>7. HandleInv'
  BY <1>1 DEF CameraInv, HandleInv
<1>8. \A i \in Nat : Frame(i)' = Frame(i)
  <2>1. \A i \in Nat : (framesRead + 1) + 0 + i = framesRead + 1 + i
    BY ReadFacts
  <2> QED
    BY <1>1, <1>3, <2>1 DEF Frame
<1>9. FramesInv'
  <2>1. Len(filled) \in Nat
    BY ReadFacts
  <2> QED
    BY <1>1, <1>8, <2>1 DEF CameraInv, FramesInv
<1>10. ReadInv'
  <2>1. prev' # NoFrame
    <3>1. ring[b] \in 0 .. Wrap - 1
      BY <1>2, ReadFacts
    <3> QED
      BY <1>1, <1>2, <3>1, RingFacts
  <2>2. prev'.number = framesRead' % Wrap
    <3>1. framesRead + 1 + 0 = framesRead + 1
      BY ReadFacts
    <3> QED
      BY <1>1, <1>2, <1>3, <3>1 DEF Frame
  <2>3. framesRead' > 0
    BY <1>1, ReadFacts
  <2> QED
    BY <1>1, <2>1, <2>2, <2>3 DEF ReadInv
<1>11. BehindInv'
  BY <1>1, <1>2, <1>5 DEF CameraInv, BehindInv, Behind
<1> QED
  BY <1>5, <1>6, <1>7, <1>9, <1>10, <1>11 DEF CameraInv

(* The read looks whether a newer frame has arrived.                       *)
LEMMA PollKeeps ==
  ASSUME CameraInv, Poll
  PROVE  CameraInv'
<1>1. /\ pc = "poll" /\ pc' = "copy" /\ capturing /\ filled = <<>> /\ prev # NoFrame /\ Tick
      /\ UNCHANGED <<bus, device, guid, cam, config, bayer, capturing, queued, filled, lost, ring,
                     made, listed, frame, prev, framesRead, image, dropped>>
  BY DEF Poll, setVars, classVars, ringVars, result
<1>2. Count' = Count /\ \A k : Frame(k)' = Frame(k)
  BY <1>1 DEF Count, Frame
<1>3. Types' /\ HandleInv'
  <2>1. gap' \in 0 .. MinGap
    BY <1>1, TickTyped
  <2> QED
    BY <1>1, <2>1 DEF CameraInv, Types, HandleInv
<1>4. LostInv' /\ RingInv' /\ ReadInv' /\ BehindInv'
  BY <1>1, <1>2 DEF CameraInv, LostInv, RingInv, ReadInv, BehindInv, Behind, Enough
<1>5. FramesInv'
  BY <1>1, <1>2 DEF CameraInv, FramesInv
<1> QED
  BY <1>3, <1>4, <1>5 DEF CameraInv

(* When the image is copied, its buffer is not the next the engine fills.  *)
LEMMA LastIsNotNext ==
  ASSUME CameraInv, pc = "copy", Enough
  PROVE  /\ ring[prev.buffer] = prev.number
         /\ queued = <<>> \/ Head(queued) # prev.buffer
<1>1. capturing /\ Behind /\ (filled = <<>> \/ Len(filled) = 1)
  BY DEF CameraInv, HandleInv, BehindInv
<1>2. ring[prev.buffer] = prev.number
  BY <1>1 DEF Behind
<1>3. ASSUME queued # <<>> PROVE Head(queued) # prev.buffer
  <2>1. /\ Head(queued) = queued[1] /\ Last(queued) = queued[Len(queued)]
        /\ Len(queued) \in Nat /\ Len(queued) > 0
    BY <1>3, ReadFacts, TakeFirst DEF Last
  <2>2. CASE prev.buffer \in lost
    <3>1. 1 \in 1 .. Len(queued)
      BY <2>1
    <3> QED
      BY <1>1, <2>1, <2>2, <3>1 DEF CameraInv, LostInv
  <2>3. CASE prev.buffer \notin lost
    <3>1. Ring - Cardinality(lost) > 2 /\ prev.buffer = Last(queued)
      BY <1>1, <2>3 DEF Enough, Behind
    <3>2. Count = 0 /\ Len(queued) + Len(filled) + Count + Cardinality(lost) = Ring
      BY <1>1 DEF Count, CameraInv, RingInv
    <3>3. Len(filled) \in {0, 1}
      BY <1>1
    <3>4. Len(queued) > 1
      <4>1. PICK q, f, c, n : q = Len(queued) /\ f = Len(filled) /\ c = Count /\ n = Cardinality(lost)
        OBVIOUS
      <4>2. q \in Nat /\ f \in {0, 1} /\ c = 0 /\ Ring \in Nat /\ n \in Nat /\ Ring - n > 2
        BY <3>1, <3>2, <3>3, <4>1, RingFacts, ReadFacts
      <4>3. q + f + c + n = Ring
        BY <3>2, <4>1
      <4>4. q > 1
        BY <4>2, <4>3
      <4> QED
        BY <4>1, <4>4
    <3>5. 1 \in 1 .. Len(queued) /\ Len(queued) \in 1 .. Len(queued) /\ Len(queued) # 1
      <4>1. \A n \in Nat : n > 1 => 1 \in 1 .. n /\ n \in 1 .. n /\ n # 1
        OBVIOUS
      <4> QED
        BY <2>1, <3>4, <4>1, Zenon
    <3>6. queued[1] # queued[Len(queued)]
      BY <1>1, <3>5 DEF CameraInv, RingInv
    <3> QED
      BY <2>1, <3>1, <3>6
  <2> QED
    BY <2>2, <2>3
<1> QED
  BY <1>2, <1>3

(* Frames are counted anew from one among them.                            *)
LEMMA CountedAnew ==
  ASSUME NEW r \in Nat, NEW k \in Nat
  PROVE  (((r + k) % Wrap) + Wrap - (r % Wrap)) % Wrap = k % Wrap
<1>1. Wrap \in Nat \ {0}
  BY RingFacts
<1>2. \A b \in Nat : /\ b = Wrap * (b \div Wrap) + (b % Wrap)
                     /\ b \div Wrap \in Nat /\ b % Wrap \in 0 .. Wrap - 1
  BY <1>1
<1>3. \A q \in Int, x \in 0 .. Wrap - 1 : (Wrap * q + x) % Wrap = x
  BY <1>1
<1> DEFINE p == (r + k) \div Wrap
           m == (r + k) % Wrap
           q == r \div Wrap
           x == r % Wrap
           u == k \div Wrap
           v == k % Wrap
<1>4. /\ r + k = Wrap * p + m /\ p \in Nat /\ m \in Nat
      /\ r = Wrap * q + x /\ q \in Nat /\ x \in Nat
      /\ k = Wrap * u + v /\ u \in Nat /\ v \in 0 .. Wrap - 1
  <2>1. r + k \in Nat
    OBVIOUS
  <2> QED
    BY <1>1, <1>2, <2>1
<1> HIDE DEF p, m, q, x, u, v
<1>5. m + Wrap - x = Wrap * (u + q - p + 1) + v
  <2>1. Wrap * p \in Int /\ Wrap * q \in Int /\ Wrap * u \in Int
    BY <1>1, <1>4
  <2>2. Wrap * (u + q - p + 1) = Wrap * u + Wrap * q - Wrap * p + Wrap
    BY <1>1, <1>4
  <2>3. m = r + k - Wrap * p /\ x = r - Wrap * q /\ v = k - Wrap * u
    BY <1>4, <2>1
  <2> QED
    BY <1>1, <1>4, <2>1, <2>2, <2>3
<1>6. u + q - p + 1 \in Int
  BY <1>4
<1>7. (m + Wrap - x) % Wrap = v
  BY <1>3, <1>4, <1>5, <1>6
<1> QED
  BY <1>7 DEF m, x, v

(* The read copies the image and returns.                                  *)
LEMMA CopyKeeps ==
  ASSUME CameraInv, Copy
  PROVE  CameraInv'
<1> DEFINE since(n) == (n + Wrap - prev.number) % Wrap
<1>1. /\ pc = "copy" /\ pc' = "idle" /\ dropped' = framesRead - 1 /\ capturing
      /\ prev' = NoFrame /\ framesRead' = 0 /\ gap' = MinGap
      /\ image' \in {"frame"} \cup (IF bayer THEN {None, "undefined"} ELSE {})
      /\ UNCHANGED <<bus, device, guid, cam, config, bayer, capturing, queued, filled, lost, listed>>
  BY DEF Copy, setVars, classVars, CameraInv, HandleInv
<1>2. /\ ring' = [b \in Buffers |-> IF b \in ToSet(filled) THEN since(ring[b]) ELSE 0]
      /\ made' = since(made)
  BY DEF Copy, Renumber
<1>3. framesRead > 0 /\ prev.number = framesRead % Wrap /\ framesRead \in Nat
  BY <1>1, ReadFacts DEF CameraInv, ReadInv
<1>4. Count = 0 /\ Count' = 0
  BY <1>1 DEF Count
<1>5. \A k \in Nat : since(Frame(k)) = Frame(k)'
  <2>1. \A k \in Nat : framesRead + 0 + k = framesRead + k /\ 0 + 0 + k = k
    BY <1>3
  <2>2. \A k \in Nat : Frame(k) = (framesRead + k) % Wrap /\ Frame(k)' = k % Wrap
    BY <1>1, <1>4, <2>1 DEF Frame
  <2> QED
    BY <1>3, <2>2, CountedAnew
<1>6. \A n \in 0 .. Wrap - 1 : since(n) \in 0 .. Wrap - 1
  <2>1. prev.number \in 0 .. Wrap - 1
    BY <1>3, Remainder
  <2>2. \A n \in 0 .. Wrap - 1 : n + Wrap - prev.number \in Nat
    BY <2>1, RingFacts
  <2> QED
    BY <2>2, Remainder
<1> HIDE DEF since
<1>7. Types'
  <2>1. ring' \in [Buffers -> 0 .. Wrap - 1] /\ made' \in 0 .. Wrap - 1
    <3>1. 0 \in 0 .. Wrap - 1 /\ ring \in [Buffers -> 0 .. Wrap - 1] /\ made \in 0 .. Wrap - 1
      BY RingFacts, ReadFacts
    <3>2. \A b \in Buffers : (IF b \in ToSet(filled) THEN since(ring[b]) ELSE 0) \in 0 .. Wrap - 1
      BY <1>6, <3>1
    <3> QED
      BY <1>2, <1>6, <3>1, <3>2
  <2>2. dropped' \in Nat /\ framesRead' \in Nat /\ gap' \in 0 .. MinGap
    BY <1>1, <1>3, RingFacts
  <2>3. image' \in {None, "frame", "undefined"}
    BY <1>1
  <2> QED
    BY <1>1, <2>1, <2>2, <2>3 DEF CameraInv, Types
<1>8. HandleInv'
  BY <1>1 DEF CameraInv, HandleInv
<1>9. RingInv' /\ LostInv'
  BY <1>1, <1>4 DEF CameraInv, RingInv, LostInv
<1>10. FramesInv'
  <2>1. Len(filled) \in Nat /\ DOMAIN filled = 1 .. Len(filled)
    BY ReadFacts, LenProperties
  <2>2. ASSUME NEW i \in 1 .. Len(filled) PROVE ring'[filled[i]] = Frame(i)'
    <3>0. filled[i] \in ToSet(filled)
      BY <2>1 DEF ToSet
    <3>1. filled[i] \in Buffers /\ filled[i] \in ToSet(filled) /\ i \in Nat
      BY <3>0, ReadFacts, ElementOfSeq
    <3>2. ring[filled[i]] = Frame(i)
      BY DEF CameraInv, FramesInv
    <3> QED
      BY <1>2, <1>5, <3>1, <3>2
  <2>3. PICK l \in Nat : l = Len(filled)
    BY <2>1
  <2>4. made = Frame(l)
    BY <1>1, <2>3 DEF CameraInv, FramesInv
  <2>5. made' = Frame(l)'
    BY <1>2, <1>5, <2>4
  <2>6. made' = (Frame(Len(filled)))'
    BY <1>1, <2>3, <2>5 DEF Frame
  <2> QED
    BY <1>1, <2>2, <2>6 DEF FramesInv
<1>11. ReadInv'
  BY <1>1 DEF ReadInv
<1>12. BehindInv'
  BY <1>1 DEF BehindInv, None
<1> QED
  BY <1>7, <1>8, <1>9, <1>10, <1>11, <1>12 DEF CameraInv

(* The camera fills a buffer, or drops the frame.                          *)
LEMMA ArriveKeeps ==
  ASSUME CameraInv, Arrive
  PROVE  CameraInv'
<1>1. /\ capturing
      /\ pc = "idle" \/ gap = MinGap \/ (filled = <<>> /\ prev = NoFrame)
      /\ gap' = (IF pc = "idle" THEN gap ELSE 0)
      /\ UNCHANGED <<bus, device, guid, cam, config, bayer, capturing, lost, listed, pc, frame,
                     prev, framesRead, image, dropped>>
  BY DEF Arrive, setVars, classVars, readVars, result
<1>2. Count' = Count /\ \A k : Frame(k)' = Frame(k)
  BY <1>1 DEF Count, Frame
<1>3. gap' \in 0 .. MinGap
  BY <1>1, RingFacts, ReadFacts
<1>4. HandleInv'
  BY <1>1 DEF CameraInv, HandleInv
(* At most one frame arrives from the last poll on. *)
<1>5. pc = "copy" => filled = <<>> /\ gap' = 0 /\ gap' < MinGap
  BY <1>1, RingFacts, ReadFacts DEF CameraInv, BehindInv, ReadInv
<1>6. CASE queued = <<>>
  <2>1. UNCHANGED <<queued, filled, ring, made>>
    BY <1>6 DEF Arrive
  <2>2. Types'
    BY <1>1, <1>3, <2>1 DEF CameraInv, Types
  <2>3. LostInv' /\ RingInv' /\ ReadInv'
    BY <1>1, <1>2, <2>1 DEF CameraInv, LostInv, RingInv, ReadInv
  <2>4. FramesInv'
    BY <1>1, <1>2, <2>1 DEF CameraInv, FramesInv
  <2>5. BehindInv'
    BY <1>1, <1>5, <2>1 DEF CameraInv, BehindInv, Behind, Enough
  <2> QED
    BY <1>4, <2>2, <2>3, <2>4, <2>5 DEF CameraInv
<1>7. CASE queued # <<>>
  <2>0. PICK h, n, m, l : h = queued[1] /\ n = (made + 1) % Wrap /\ m = Len(queued) /\ l = Len(filled)
    OBVIOUS
  <2>1. /\ made' = n /\ ring' = [ring EXCEPT ![h] = n]
        /\ filled' = Append(filled, h) /\ queued' = Tail(queued)
    BY <1>7, <2>0, ReadFacts, TakeFirst DEF Arrive
  <2>2. /\ h \in Buffers /\ queued' \in Seq(Buffers) /\ Len(queued') = m - 1
        /\ m \in Nat /\ m > 0 /\ l \in Nat
        /\ \A i \in 1 .. m - 1 : queued'[i] = queued[i + 1]
    BY <1>7, <2>0, <2>1, ReadFacts, TakeFirst
  <2>3. /\ filled' \in Seq(Buffers) /\ Len(filled') = l + 1
        /\ filled'[l + 1] = h
        /\ \A i \in 1 .. l : filled'[i] = filled[i]
    BY <2>0, <2>1, <2>2, ReadFacts, PutLast
  <2>4. n \in 0 .. Wrap - 1
    <3>1. made + 1 \in Nat
      BY RingFacts, ReadFacts
    <3> QED
      BY <2>0, <3>1, Remainder
  <2>5. Types'
    <3>1. ring' \in [Buffers -> 0 .. Wrap - 1]
      BY <2>1, <2>2, <2>4, ReadFacts
    <3> QED
      BY <1>1, <1>3, <2>1, <2>2, <2>3, <2>4, <3>1 DEF CameraInv, Types
  <2>6. /\ \A i, j \in 1 .. m : queued[i] = queued[j] => i = j
        /\ \A i, j \in 1 .. l : filled[i] = filled[j] => i = j
        /\ \A i \in 1 .. m, j \in 1 .. l : queued[i] # filled[j]
        /\ pc = "enqueue" =>
              /\ \A i \in 1 .. m : queued[i] # frame.buffer
              /\ \A i \in 1 .. l : filled[i] # frame.buffer
        /\ \A b \in Buffers : \/ \E i \in 1 .. m : queued[i] = b
                              \/ \E i \in 1 .. l : filled[i] = b
                              \/ pc = "enqueue" /\ b = frame.buffer
                              \/ b \in lost
        /\ m + l + Count + Cardinality(lost) = Ring
    BY <1>1, <2>0 DEF CameraInv, RingInv
  <2>7. /\ \A i \in 1 .. l : filled[i] # h
        /\ pc = "enqueue" => frame.buffer # h
        /\ \A i \in 2 .. m : queued[i] # h
    <3>1. 1 \in 1 .. m /\ \A i \in 2 .. m : i \in 1 .. m /\ i # 1
      BY <2>2
    <3> QED
      BY <2>0, <2>6, <3>1
  <2>8. \A i \in 1 .. m - 1 : i + 1 \in 2 .. m /\ i + 1 \in 1 .. m
    BY <2>2
  <2>9. \A i \in 1 .. l + 1 : i \in 1 .. l \/ i = l + 1
    BY <2>2
  <2>10. RingInv'
    <3>1. ASSUME NEW i \in 1 .. Len(queued'), NEW j \in 1 .. Len(queued'), queued'[i] = queued'[j]
          PROVE  i = j
      <4>1. queued[i + 1] = queued[j + 1] /\ i + 1 \in 1 .. m /\ j + 1 \in 1 .. m
        BY <2>2, <2>8, <3>1
      <4>2. i + 1 = j + 1
        BY <2>6, <4>1
      <4> QED
        BY <4>2
    <3>2. \A i, j \in 1 .. Len(filled') : filled'[i] = filled'[j] => i = j
      BY <2>3, <2>6, <2>7, <2>9
    <3>3. ASSUME NEW i \in 1 .. Len(queued'), NEW j \in 1 .. Len(filled')
          PROVE  queued'[i] # filled'[j]
      <4>1. queued'[i] = queued[i + 1] /\ i + 1 \in 1 .. m /\ i + 1 \in 2 .. m
        BY <2>2, <2>8
      <4> QED
        BY <2>3, <2>6, <2>7, <2>9, <4>1
    <3>4. ASSUME pc = "enqueue"
          PROVE  /\ \A i \in 1 .. Len(queued') : queued'[i] # frame.buffer
                 /\ \A i \in 1 .. Len(filled') : filled'[i] # frame.buffer
      BY <2>2, <2>3, <2>6, <2>7, <2>8, <2>9, <3>4
    <3>5. ASSUME NEW b \in Buffers
          PROVE  \/ \E i \in 1 .. Len(queued') : queued'[i] = b
                 \/ \E i \in 1 .. Len(filled') : filled'[i] = b
                 \/ pc = "enqueue" /\ b = frame.buffer
                 \/ b \in lost
      <4>1. ASSUME NEW i \in 1 .. m, queued[i] = b
            PROVE  \/ \E j \in 1 .. Len(queued') : queued'[j] = b
                   \/ \E j \in 1 .. Len(filled') : filled'[j] = b
        <5>1. CASE i = 1
          <6>1. l + 1 \in 1 .. Len(filled') /\ filled'[l + 1] = b
            BY <2>0, <2>2, <2>3, <4>1, <5>1
          <6> QED
            BY <6>1
        <5>2. CASE i # 1
          <6>1. i - 1 \in 1 .. m - 1 /\ (i - 1) + 1 = i
            BY <2>2, <5>2
          <6>2. i - 1 \in 1 .. Len(queued') /\ queued'[i - 1] = b
            BY <2>2, <4>1, <6>1
          <6> QED
            BY <6>2
        <5> QED
          BY <5>1, <5>2
      <4>2. ASSUME NEW i \in 1 .. l, filled[i] = b
            PROVE  \E j \in 1 .. Len(filled') : filled'[j] = b
        <5>1. i \in 1 .. Len(filled') /\ filled'[i] = b
          BY <2>2, <2>3, <4>2
        <5> QED
          BY <5>1
      <4> QED
        BY <2>6, <4>1, <4>2
    <3>6. Len(queued') + Len(filled') + Count' + Cardinality(lost') = Ring
      BY <1>1, <1>2, <2>2, <2>3, <2>6, RingFacts, ReadFacts
    <3> QED
      BY <1>1, <3>1, <3>2, <3>3, <3>4, <3>5, <3>6 DEF RingInv
  <2>15. LostInv'
    <3>1. /\ \A i \in 1 .. m : queued[i] \notin lost
          /\ \A i \in 1 .. l : filled[i] \notin lost
          /\ pc = "enqueue" => frame.buffer \notin lost
      BY <1>1, <2>0 DEF CameraInv, LostInv
    <3>2. 1 \in 1 .. m
      BY <2>2
    <3> QED
      BY <1>1, <2>0, <2>2, <2>3, <2>8, <2>9, <3>1, <3>2 DEF LostInv
  <2>11. \A b \in Buffers : b # h => ring'[b] = ring[b]
    BY <2>1, ReadFacts
  <2>12. ReadInv'
    BY <1>1, <1>2, <2>7, <2>11 DEF CameraInv, ReadInv
  <2>13. FramesInv'
    <3>1. n = Frame(l + 1)
      <4> DEFINE a == framesRead + Count + l
      <4>1. a \in Nat
        BY <2>2, ReadFacts
      <4>2. made = a % Wrap
        BY <1>1, <2>0 DEF CameraInv, FramesInv, Frame
      <4>3. a + 1 = framesRead + Count + (l + 1)
        <5>1. PICK y, z : y = framesRead /\ z = Count
          OBVIOUS
        <5>2. y \in Nat /\ z \in Nat /\ l \in Nat
          BY <2>2, <5>1, ReadFacts
        <5>3. (y + z + l) + 1 = y + z + (l + 1)
          BY <5>2
        <5> QED
          BY <5>1, <5>3
      <4>4. ((a % Wrap) + 1) % Wrap = (a + 1) % Wrap
        BY <4>1, Remainder
      <4> HIDE DEF a
      <4> QED
        BY <2>0, <4>2, <4>3, <4>4 DEF Frame
    <3>2. ring'[h] = n
      BY <2>1, <2>2, ReadFacts
    <3>3. ASSUME NEW i \in 1 .. l PROVE ring'[filled'[i]] = Frame(i)
      <4>1. filled[i] \in Buffers /\ filled[i] # h
        BY <2>0, <2>7, ReadFacts, ElementOfSeq
      <4>2. ring[filled[i]] = Frame(i)
        BY <2>0 DEF CameraInv, FramesInv
      <4> QED
        BY <2>3, <2>11, <4>1, <4>2
    <3>4. \A i \in 1 .. l + 1 : ring'[filled'[i]] = Frame(i)
      BY <2>3, <2>9, <3>1, <3>2, <3>3
    <3>5. made' = Frame(l + 1)
      BY <2>1, <3>1
    <3>6. \A i \in 1 .. Len(filled') : ring'[filled'[i]] = Frame(i)'
      BY <1>2, <2>3, <3>4
    <3>7. made' = (Frame(Len(filled)))'
      BY <1>1, <1>2, <2>3, <3>5 DEF Frame
    <3> QED
      BY <3>6, <3>7 DEF FramesInv
  <2>14. BehindInv'
    <3>1. pc # "poll" \/ filled' # <<>>
      BY <2>2, <2>3
    <3>2. ASSUME pc = "copy" PROVE Len(filled') = 1
      BY <1>5, <2>0, <2>3, <3>2
    <3>3. ASSUME pc = "copy", Enough PROVE Behind'
      <4>1. Behind /\ ring[prev.buffer] = prev.number /\ Head(queued) # prev.buffer
        BY <1>7, <3>3, LastIsNotNext DEF CameraInv, BehindInv
      <4>2. Head(queued) = h
        BY <1>7, <2>0, ReadFacts, TakeFirst
      <4>3. prev.buffer \in Buffers
        <5>1. CASE prev.buffer \in lost
          BY <5>1, ReadFacts
        <5>2. CASE prev.buffer \notin lost
          <6>1. m \in 1 .. Len(queued) /\ prev.buffer = queued[m]
            BY <2>0, <2>2, <4>1, <5>2 DEF Behind, Last
          <6> QED
            BY <6>1, ReadFacts, ElementOfSeq
        <5> QED
          BY <5>1, <5>2
      <4>4. ring'[prev.buffer] = prev.number
        BY <2>11, <4>1, <4>2, <4>3
      <4>5. CASE prev.buffer \in lost
        BY <1>1, <4>4, <4>5 DEF Behind
      <4>6. CASE prev.buffer \notin lost
        <5>1. prev.buffer = queued[m] /\ m \in 1 .. m
          BY <2>0, <2>2, <4>1, <4>6 DEF Behind, Last
        <5>2. m # 1
          BY <2>0, <4>1, <4>2, <5>1
        <5>3. m - 1 \in 1 .. m - 1 /\ (m - 1) + 1 = m /\ m - 1 > 0
          BY <2>2, <5>2
        <5>4. queued' # <<>> /\ Last(queued') = queued[m]
          BY <2>2, <5>3 DEF Last
        <5> QED
          BY <1>1, <4>4, <5>1, <5>4 DEF Behind
      <4> QED
        BY <4>5, <4>6
    <3>4. Enough' = Enough
      BY <1>1 DEF Enough
    <3> QED
      BY <1>1, <1>5, <3>1, <3>2, <3>3, <3>4 DEF CameraInv, BehindInv
  <2> QED
    BY <1>4, <2>5, <2>10, <2>12, <2>13, <2>14, <2>15 DEF CameraInv
<1> QED
  BY <1>6, <1>7

-----------------------------------------------------------------------------
(* The invariant holds in every state.                                     *)
LEMMA CameraInit ==
  ASSUME Init
  PROVE  CameraInv
<1>1. bus \in Seq(Cameras)
  BY CameraAssumption DEF Init
<1>2. /\ guid = None /\ cam = FALSE /\ config = Unconfigured /\ bayer = FALSE
      /\ device = [x \in Cameras |-> [mode |-> Head(Modes), rate |-> 0, sending |-> FALSE]]
      /\ capturing = FALSE /\ queued = <<>> /\ filled = <<>>
      /\ lost = {} /\ ring = [b \in Buffers |-> 0] /\ made = 0 /\ listed = FALSE
      /\ gap = MinGap /\ pc = "idle" /\ frame = NoFrame /\ prev = NoFrame
      /\ framesRead = 0 /\ dropped = 0 /\ image = None
  BY DEF Init
<1>3. 0 \in 0 .. Wrap - 1 /\ <<>> \in Seq(Buffers) /\ Len(<<>>) = 0 /\ MinGap \in 0 .. MinGap
  BY RingFacts
<1>4. Types
  <2>2. ring \in [Buffers -> 0 .. Wrap - 1]
    BY <1>2, <1>3
  <2>3. device = [x \in Cameras |-> device[x]]
    BY <1>2
  <2>4. config = [mode |-> config.mode, rate |-> config.rate, size |-> config.size]
    BY <1>2 DEF Unconfigured
  <2> QED
    BY <1>1, <1>2, <1>3, <2>2, <2>3, <2>4 DEF Types
<1>5. HandleInv /\ LostInv /\ RingInv /\ ReadInv /\ BehindInv
  BY <1>2 DEF HandleInv, LostInv, RingInv, ReadInv, BehindInv, None
<1>6. FramesInv
  BY <1>2, <1>3 DEF FramesInv
<1> QED
  BY <1>4, <1>5, <1>6 DEF CameraInv

(* The invariant is about the variables only.                              *)
LEMMA UnchangedKeeps ==
  ASSUME CameraInv, UNCHANGED vars
  PROVE  CameraInv'
<1>1. UNCHANGED <<bus, device, guid, cam, config, bayer, capturing, queued, filled, lost, ring, made,
                  listed, gap, pc, frame, prev, framesRead, image, dropped>>
  BY DEF vars, setVars, classVars, ringVars, readVars, result
<1>2. Count' = Count /\ \A k : Frame(k)' = Frame(k)
  BY <1>1 DEF Count, Frame
<1>3. Types' /\ HandleInv'
  BY <1>1 DEF CameraInv, Types, HandleInv
<1>4. LostInv' /\ RingInv' /\ ReadInv' /\ BehindInv'
  BY <1>1, <1>2 DEF CameraInv, LostInv, RingInv, ReadInv, BehindInv, Behind, Enough
<1>5. FramesInv'
  BY <1>1, <1>2 DEF CameraInv, FramesInv
<1> QED
  BY <1>3, <1>4, <1>5 DEF CameraInv

(* The invariant holds of every reachable state.                           *)
LEMMA CameraInvariant == Spec => []CameraInv
<1>1. Init => CameraInv
  BY CameraInit
<1>2. CameraInv /\ [Next]_vars => CameraInv'
  <2> SUFFICES ASSUME CameraInv, [Next]_vars PROVE CameraInv'
    OBVIOUS
  <2>1. ASSUME NEW g \in Cameras \cup {None},
               \/ InitCamFails(g) \/ OpenBest(g)
               \/ \E n \in Names, r \in FrameRates, b \in BOOLEAN : OpenWith(g, n, r, b)
        PROVE  CameraInv'
    BY <2>1, InitCamFailsKeeps, OpenBestKeeps, OpenWithKeeps
  <2>2. ASSUME NEW n \in Names, SetVideoMode(n) PROVE CameraInv'
    BY <2>2, SetVideoModeKeeps
  <2>3. ASSUME NEW r \in FrameRates, SetFrameRate(r) PROVE CameraInv'
    BY <2>3, SetFrameRateKeeps
  <2>4. CASE Close \/ Destroy \/ ListCameras \/ Plug
    BY <2>4, CloseKeeps, DestroyKeeps, ListCamerasKeeps, PlugKeeps
  <2>5. CASE ReadStart \/ Reading
    BY <2>5, ReadStartKeeps, DequeueKeeps, WaitFailsKeeps, EnqueueKeeps, PollKeeps, CopyKeeps
       DEF Reading
  <2>6. CASE Arrive
    BY <2>6, ArriveKeeps
  <2>7. CASE UNCHANGED vars
    BY <2>7, UnchangedKeeps
  <2> QED
    BY <2>1, <2>2, <2>3, <2>4, <2>5, <2>6, <2>7 DEF Next, Spin
<1> QED
  BY <1>1, <1>2, PTL DEF Spec

(* The buffers are in the queue of the engine, in that of the frames or in *)
(* the hand of read(), each in one place.                                  *)
LEMMA RingTyped ==
  ASSUME CameraInv
  PROVE  TypeOK
<1>1. \A s \in Seq(Cameras) : ToSet(s) \subseteq Cameras
  BY ElementOfSeq DEF ToSet
<1>2. ASSUME capturing
      PROVE  /\ ToSet(queued) \cup ToSet(filled) \cup Held \cup lost = Buffers
             /\ Len(queued) + Len(filled) + Cardinality(Held) + Cardinality(lost) = Ring
  <2>1. DOMAIN queued = 1 .. Len(queued) /\ DOMAIN filled = 1 .. Len(filled)
    BY ReadFacts, LenProperties
  <2>2. ToSet(queued) \cup ToSet(filled) \subseteq Buffers
    BY <2>1, ReadFacts, ElementOfSeq DEF ToSet
  <2>3. Held \subseteq Buffers
    BY DEF Held, CameraInv, ReadInv
  <2>4. \A b \in Buffers : b \in ToSet(queued) \cup ToSet(filled) \cup Held \cup lost
    BY <1>2, <2>1 DEF ToSet, Held, CameraInv, RingInv
  <2>5. Cardinality(Held) = Count /\ lost \subseteq Buffers
    BY ReadFacts, FS_EmptySet, FS_Singleton DEF Held, Count
  <2> QED
    BY <1>2, <2>2, <2>3, <2>4, <2>5 DEF CameraInv, RingInv
<1> QED
  BY <1>1, <1>2 DEF TypeOK, CameraInv, Types

(* While frames are captured, the camera sends them in the mode and at the *)
(* framerate the class believes, whatever call of libdc1394 has failed,    *)
(* until a listing of the cameras puts it into another mode.  Buffers that *)
(* could not be given back are in no queue, every other one is in one.     *)
THEOREM CapturesAsConfigured == Spec => []CaptureAsConfigured
<1>1. CameraInv => CaptureAsConfigured
  BY RingTyped DEF CaptureAsConfigured, CameraInv, HandleInv
<1> QED
  BY <1>1, CameraInvariant, PTL

(* The image that read() copies after it has given the buffer back is the  *)
(* frame of the header, as long as three buffers or more take turns, for   *)
(* no two frames arrive between the last poll and the copy.                *)
THEOREM ImageIsIntact == Spec => []ImageIntact
<1>1. CameraInv => ImageIntact
  BY LastIsNotNext DEF CameraInv, BehindInv, Enough, ImageIntact
<1> QED
  BY <1>1, CameraInvariant, PTL

(* droppedframes is the number of frames between the frame returned and    *)
(* the one returned before it.                                             *)
THEOREM DroppedAreCounted == Spec => DroppedFramesExact
<1>1. CameraInv /\ [Next]_vars =>
         [pc = "copy" /\ pc' = "idle" => prev.number = (dropped' + 1) % Wrap]_vars
  <2> SUFFICES ASSUME CameraInv, Next, pc = "copy", pc' = "idle"
               PROVE  prev.number = (dropped' + 1) % Wrap
    OBVIOUS
  <2>1. dropped' = framesRead - 1
    BY DEF Next, Call, InitCamFails, OpenBest, OpenWith, InitCam, SetVideoMode, SetFrameRate,
           Reconfigure, Close, Destroy, ListCameras, ReadStart, Reading, Dequeue, WaitFails,
           Enqueue, Poll, Copy, Spin, Arrive, Plug, readVars, vars
  <2>2. prev.number = framesRead % Wrap /\ framesRead > 0
    BY DEF CameraInv, ReadInv
  <2>3. dropped' + 1 = framesRead
    BY <2>1, <2>2, ReadFacts
  <2> QED
    BY <2>2, <2>3
<1> QED
  BY <1>1, CameraInvariant, PTL DEF Spec, DroppedFramesExact

=============================================================================
