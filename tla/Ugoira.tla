--------------------------------- MODULE Ugoira ---------------------------------
(***************************************************************************)
(* The player of an animated work (UgoiraPlayer.tsx): the poster and the   *)
(* frames are loaded separately, each load with a sequence number of its   *)
(* own, both are given up when the card leaves the screen, and one canvas  *)
(* shows the poster or the animation.  An abort ends a fetch at once; a    *)
(* decode runs to its end and finds out at its sequence check.             *)
(***************************************************************************)
EXTENDS Naturals

CONSTANTS Loads,  \* bound: names of the frame loads that run at once
          None

VARIABLES
  status,     \* "idle", "loading", "playing", "paused"
  error,      \* the badge "tap to retry"
  frames,     \* the frames are decoded
  poster,     \* staticFrame
  canvas,     \* what was drawn last: "blank", "poster" or "frame"
  loops,      \* the timers of step() under way
  frameLoad,  \* the runs of loadFrames: a stage, and whether seq = loadSeq
  posterLoad, \* the run of loadStatic, None unless staticLoading
  visible,    \* the card is on the screen
  seen        \* ... as the IntersectionObserver last said, None before it did

picture == <<frames, poster, canvas>>
screen == <<visible, seen>>
vars == <<status, error, picture, loops, frameLoad, posterLoad, screen>>

-----------------------------------------------------------------------------
\* loadStatic up to its first await, beside the frame loads: it does nothing
\* when the poster is there or on its way, and else clears the badge, too.
Starting == [stage |-> "fetch", current |-> TRUE]
Stop(load) == IF load = None THEN None ELSE [load EXCEPT !.current = FALSE]
LoadsPoster == ~poster /\ posterLoad = None
\* Mutant: one sequence number for both loads.
LoadStaticShared(loads) ==
  /\ posterLoad' = IF LoadsPoster THEN Starting ELSE posterLoad
  /\ frameLoad' = IF LoadsPoster THEN [l \in Loads |-> Stop(loads[l])] ELSE loads
LoadStatic(loads) ==
  /\ posterLoad' = IF LoadsPoster THEN Starting ELSE posterLoad
  /\ frameLoad' = loads

\* mounted: onMount has called loadStatic, the observer has yet to report
Init ==
  /\ status = "idle" /\ error = FALSE
  /\ frames = FALSE /\ poster = FALSE /\ canvas = "blank" /\ loops = 0
  /\ frameLoad = [l \in Loads |-> None]
  /\ posterLoad = Starting
  /\ visible \in BOOLEAN /\ seen = None

-----------------------------------------------------------------------------
(* The poster.                                                             *)

\* the poster is drawn unless the frames own the canvas
DrawStatic == canvas' = IF poster' /\ ~frames' THEN "poster" ELSE canvas

PosterFetched ==
  /\ posterLoad # None /\ posterLoad.stage = "fetch"
  /\ posterLoad' = [posterLoad EXCEPT !.stage = "decode"]
  /\ UNCHANGED <<status, error, picture, loops, frameLoad, screen>>

PosterDecoded ==
  /\ posterLoad # None /\ posterLoad.stage = "decode"
  /\ posterLoad' = None
  /\ UNCHANGED frames
  /\ IF posterLoad.current
     THEN /\ poster' = TRUE
          /\ IF status = "idle" THEN DrawStatic ELSE canvas' = canvas
     ELSE UNCHANGED <<poster, canvas>>
  /\ UNCHANGED <<status, error, loops, frameLoad, screen>>

\* a failed fetch or decode, or the 60 seconds are over
PosterFails ==
  /\ posterLoad # None
  /\ posterLoad' = None
  /\ error' = (error \/ (posterLoad.current /\ status = "idle"))
  /\ UNCHANGED <<status, picture, loops, frameLoad, screen>>

-----------------------------------------------------------------------------
(* The frames.                                                             *)

\* The idle case of toggle(): loadFrames, which makes every load before it
\* stale, then loadStatic.
Start ==
  /\ visible /\ status = "idle"
  /\ \E l \in Loads :
       /\ frameLoad[l] = None
       /\ LoadStatic([k \in Loads |->
            IF k = l THEN [stage |-> "meta", current |-> TRUE] ELSE Stop(frameLoad[k])])
  /\ status' = "loading" /\ error' = FALSE
  /\ UNCHANGED <<picture, loops, screen>>

Ended(l) == frameLoad' = [frameLoad EXCEPT ![l] = None]

\* An abort meanwhile makes the fetch of the zip fail at once.
MetaFetched(l) ==
  /\ frameLoad[l] # None /\ frameLoad[l].stage = "meta"
  /\ IF frameLoad[l].current THEN frameLoad' = [frameLoad EXCEPT ![l].stage = "zip"]
                             ELSE Ended(l)
  /\ UNCHANGED <<status, error, picture, loops, posterLoad, screen>>

ZipFetched(l) ==
  /\ frameLoad[l] # None /\ frameLoad[l].stage = "zip"
  /\ frameLoad' = [frameLoad EXCEPT ![l].stage = "decode"]
  /\ UNCHANGED <<status, error, picture, loops, posterLoad, screen>>

\* Mutant: the sequence number is not looked at again after the decode.
FramesDecodedUnchecked(l) ==
  /\ frameLoad[l] # None /\ frameLoad[l].stage = "decode"
  /\ Ended(l)
  /\ frames' = TRUE /\ canvas' = "frame" /\ status' = "playing" /\ loops' = loops + 1
  /\ UNCHANGED <<error, poster, posterLoad, screen>>
FramesDecoded(l) ==
  /\ frameLoad[l] # None /\ frameLoad[l].stage = "decode"
  /\ Ended(l)
  /\ IF frameLoad[l].current
     THEN frames' = TRUE /\ canvas' = "frame" /\ status' = "playing" /\ loops' = loops + 1
     ELSE UNCHANGED <<frames, canvas, status, loops>>
  /\ UNCHANGED <<error, poster, posterLoad, screen>>

\* a failed request or decode, or the 120 seconds are over
FramesFail(l) ==
  /\ frameLoad[l] # None
  /\ Ended(l)
  /\ IF frameLoad[l].current THEN status' = "idle" /\ error' = TRUE
                             ELSE UNCHANGED <<status, error>>
  /\ UNCHANGED <<picture, loops, posterLoad, screen>>

-----------------------------------------------------------------------------
(* Playing.                                                                *)

ClearTimer == loops' = IF loops > 0 THEN loops - 1 ELSE 0

Step ==
  /\ loops > 0
  /\ IF status = "playing" /\ frames THEN canvas' = "frame" /\ loops' = loops
                                     ELSE canvas' = canvas /\ loops' = loops - 1
  /\ UNCHANGED <<status, error, frames, poster, frameLoad, posterLoad, screen>>

Pause ==
  /\ visible /\ status = "playing"
  /\ ClearTimer
  /\ status' = "paused"
  /\ UNCHANGED <<error, picture, frameLoad, posterLoad, screen>>

Resume ==
  /\ visible /\ status = "paused"
  /\ status' = "playing"
  /\ IF frames THEN canvas' = "frame" /\ loops' = loops + 1
               ELSE UNCHANGED <<canvas, loops>>
  /\ UNCHANGED <<error, frames, poster, frameLoad, posterLoad, screen>>

-----------------------------------------------------------------------------
(* The screen.                                                             *)

\* The observer reports a change before the next one.
Move ==
  /\ seen = visible
  /\ visible' = ~visible
  /\ UNCHANGED <<status, error, picture, loops, frameLoad, posterLoad, seen>>

\* teardown: an aborted fetch ends, a decode or a meta request goes on stale.
Stale(load, aborted) ==
  IF load # None /\ load.stage = aborted THEN None ELSE Stop(load)
Leave ==
  /\ seen # FALSE /\ ~visible
  /\ seen' = FALSE
  /\ posterLoad' = Stale(posterLoad, "fetch")
  /\ frameLoad' = [l \in Loads |-> Stale(frameLoad[l], "zip")]
  /\ ClearTimer
  /\ frames' = FALSE /\ poster' = poster /\ DrawStatic
  /\ status' = "idle" /\ error' = FALSE
  /\ UNCHANGED visible

Enter ==
  /\ seen # TRUE /\ visible
  /\ seen' = TRUE
  /\ LoadStatic(frameLoad)
  /\ error' = (error /\ ~LoadsPoster)
  /\ UNCHANGED <<status, picture, loops, visible>>

FrameStep(l) == MetaFetched(l) \/ ZipFetched(l) \/ FramesDecoded(l) \/ FramesFail(l)
Next ==
  \/ PosterFetched \/ PosterDecoded \/ PosterFails
  \/ Start \/ Pause \/ Resume \/ Step
  \/ \E l \in Loads : FrameStep(l)
  \/ Move \/ Leave \/ Enter

\* Every fetch has a deadline and a decode ends.
Fairness == \A l \in Loads : WF_vars(FrameStep(l))
Spec == Init /\ [][Next]_vars /\ Fairness

-----------------------------------------------------------------------------
\* The spinner never stays: a load of frames that has begun ends with the
\* animation, the badge or the card off the screen, whatever the poster's own
\* load does meanwhile (the "retry deadlock" of the comment on loadSeq).
SpinnerEnds == status = "loading" ~> status # "loading"

\* While it plays exactly one timer steps the frames and the canvas shows
\* them, and once the card has left the screen nothing is decoded or playing,
\* however late a load comes back.
PlaysOnScreenOnly ==
  /\ status = "playing" => loops = 1 /\ frames /\ canvas = "frame"
  /\ status = "paused" => frames /\ canvas = "frame"
  /\ frames => status \in {"playing", "paused"} /\ (seen = TRUE \/ visible)
=============================================================================
