------------------------------- MODULE Scanner -------------------------------
(***************************************************************************)
(* The QR scanner of a station (packages/ui components/QrScanner): the     *)
(* camera, which is granted and plays only after two awaits, under a       *)
(* component that is gone as soon as a pass was read, typed or left.       *)
(*                                                                         *)
(* A stream is named by the press that asked for it. The device has a      *)
(* camera API; what a press of a component that is gone still starts is    *)
(* its stream alone, since its video has gone with it.                     *)
(***************************************************************************)
EXTENDS Naturals

CONSTANT MaxStarts   \* bound: presses that ask for the camera

ASSUME ScannerBound == MaxStarts \in Nat

VARIABLES
  scanner,   \* the component: what it shows, its video's source, streamRef, frames' loops
  starts,    \* startCamera under way
  started,   \* presses that asked for the camera
  streams,   \* streams whose tracks are on
  rushed     \* history: pressed again, or gone, while a start was under way

scannerVars == <<scanner, starts, started, streams, rushed>>

Start == 0..MaxStarts   \* 0 is no stream
Component == [view : {"none", "idle", "scanning", "error"}, source : Start, stream : Start, loops : Nat]
Press == [id : Start, at : {"asked", "playing"}, live : BOOLEAN]
NotShown == [view |-> "none", source |-> 0, stream |-> 0, loops |-> 0]

ScannerInit ==
  /\ scanner = NotShown /\ starts = {} /\ started = 0 /\ streams = {} /\ rushed = FALSE

(* A component that has said why there is no camera has no video.          *)
Previews(p) == p.view \in {"idle", "scanning"}

Minus(n, k) == IF n <= k THEN 0 ELSE n - k

(* stopCamera, which cancels the frame that was asked for last.            *)
Stopped(p, cancelled) ==
  [view |-> "idle", source |-> 0, stream |-> 0, loops |-> Minus(p.loops, cancelled)]

-----------------------------------------------------------------------------

ShowScanner ==
  /\ scanner.view = "none"
  /\ scanner' = [NotShown EXCEPT !.view = "idle"]
  /\ UNCHANGED <<starts, started, streams, rushed>>

(* A pass was read or typed, or the page is left: "always clean up on      *)
(* unmount".                                                               *)
GoneUncleaned == UNCHANGED streams                 \* mutant
CleanUp == streams' = streams \ {scanner.stream}
HideScanner ==
  /\ scanner.view # "none"
  /\ scanner' = NotShown
  /\ CleanUp
  /\ starts' = {[s EXCEPT !.live = FALSE] : s \in starts}
  /\ rushed' = (rushed \/ starts # {})
  /\ UNCHANGED started

(* handleToggle: the button starts until the camera plays, and then stops. *)
PressStart ==
  /\ scanner.view = "idle" /\ started < MaxStarts
  /\ started' = started + 1
  /\ starts' = starts \cup {[id |-> started', at |-> "asked", live |-> TRUE]}
  /\ rushed' = (rushed \/ starts # {})
  /\ UNCHANGED <<scanner, streams>>

PressStop ==
  /\ scanner.view = "scanning"
  /\ scanner' = Stopped(scanner, 1)
  /\ streams' = streams \ {scanner.stream}
  /\ UNCHANGED <<starts, started, rushed>>

-----------------------------------------------------------------------------
(* startCamera: after getUserMedia, and after play.                        *)

Begun(p) == IF Previews(p) THEN [p EXCEPT !.view = "scanning", !.loops = @ + 1] ELSE p

GrantCamera(s) ==
  /\ s.at = "asked"
  /\ streams' = streams \cup {s.id}
  /\ IF s.live /\ Previews(scanner)
     THEN /\ scanner' = [scanner EXCEPT !.stream = s.id, !.source = s.id]
          /\ starts' = (starts \ {s}) \cup {[s EXCEPT !.at = "playing"]}
     ELSE /\ scanner' = IF s.live THEN Begun([scanner EXCEPT !.stream = s.id]) ELSE scanner
          /\ starts' = starts \ {s}
  /\ UNCHANGED <<started, rushed>>

Plays(s) ==
  /\ s.at = "playing"
  /\ starts' = starts \ {s}
  /\ scanner' = IF s.live THEN Begun(scanner) ELSE scanner
  /\ UNCHANGED <<started, streams, rushed>>

(* Denied, or play rejects: another stream took the video, or this one was *)
(* stopped.                                                                *)
FailStart(s) ==
  /\ starts' = starts \ {s}
  /\ scanner' = IF s.live THEN [scanner EXCEPT !.view = "error", !.source = 0] ELSE scanner
  /\ UNCHANGED <<started, streams, rushed>>

(* tick, of a frame with a code in it: the loop that found it ends, and    *)
(* the one whose frame was asked for last is cancelled.                    *)
ReadCode ==
  /\ Previews(scanner) /\ scanner.loops > 0 /\ scanner.source \in streams
  /\ scanner' = Stopped(scanner, 2)
  /\ streams' = streams \ {scanner.stream}
  /\ UNCHANGED <<starts, started, rushed>>

ScannerNext ==
  \/ ShowScanner \/ HideScanner \/ PressStart \/ PressStop \/ ReadCode
  \/ \E s \in starts : GrantCamera(s) \/ Plays(s) \/ FailStart(s)

ScannerSpec == ScannerInit /\ [][ScannerNext]_scannerVars

-----------------------------------------------------------------------------
(* Properties                                                              *)

ScannerTypeOK ==
  /\ scanner \in Component /\ starts \subseteq Press
  /\ started \in Start /\ streams \subseteq Start /\ rushed \in BOOLEAN

(* "On a match the stream is torn down", and "always clean up on unmount": *)
(* for an officer who lets the camera start, no stream is on but the one   *)
(* the component can stop, whatever is denied, read, stopped and started   *)
(* again, and none where the component is gone.                            *)
CameraIsReleased == ~rushed => streams \subseteq {scanner.stream} \ {0}

(* ... of every officer, which the comment says and the code does not do.  *)
AlwaysCleanUpOnUnmount == scanner.view = "none" => streams = {}
=============================================================================
