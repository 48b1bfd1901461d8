---------------------------- MODULE FrameStream -----------------------------
(***************************************************************************)
(* What the users of a HistogramSerializer rely on: the values added in a  *)
(* number of frames, one after the other, leave as one histogram, with the *)
(* total of each frame and its time since the first frame of all, as far   *)
(* as the type of a time shows it; no value is in two histograms, in the   *)
(* wrong bin or in the total of another frame.                             *)
(***************************************************************************)
EXTENDS Integers, Sequences

CONSTANTS Frames,       \* frames of a histogram
          Bins,
          NoHistogram,  \* none sent yet
          NoTime,       \* no frame yet
          bin(_),       \* the bin of a time, which may be none of Bins
          Published(_), \* what is sent of the sum and the count of a bin
          Shown(_),     \* what is sent of a time
          Offsets,      \* times of values in their frame
          Values,
          FrameTimes

VARIABLES first,      \* the time of the first frame
          frames,     \* time and total of each frame since the last histogram
          bins,       \* sum and count of values in each bin
          histogram   \* the last one sent

vars == <<first, frames, bins, histogram>>

Empty == [b \in Bins |-> [sum |-> 0, count |-> 0]]

Init == first = NoTime /\ frames = <<>> /\ bins = Empty /\ histogram = NoHistogram

Add(t, value) ==
  /\ frames # <<>> /\ bin(t) \in Bins
  /\ frames' = [frames EXCEPT ![Len(frames)].total = @ + value]
  /\ bins' = [bins EXCEPT ![bin(t)] = [sum |-> @.sum + value, count |-> @.count + 1]]
  /\ UNCHANGED <<first, histogram>>

\* A histogram with no value in it is not sent.
Send ==
  /\ bins' = Empty
  /\ IF bins = Empty THEN UNCHANGED histogram
     ELSE histogram' = [times |-> [i \in 1 .. Frames |-> frames[i].time],
                        totals |-> [i \in 1 .. Frames |-> frames[i].total],
                        bins |-> [b \in Bins |-> Published(bins[b])]]

NewFrame(t) ==
  LET frame == [time |-> Shown(t - first'), total |-> 0]
  IN  /\ first' = IF first = NoTime THEN t ELSE first
      /\ IF Len(frames) < Frames
         THEN frames' = Append(frames, frame) /\ UNCHANGED <<bins, histogram>>
         ELSE frames' = <<frame>> /\ Send

Next ==
  \/ \E t \in Offsets, value \in Values : Add(t, value)
  \/ \E t \in FrameTimes : NewFrame(t)

Spec == Init /\ [][Next]_vars
=============================================================================
