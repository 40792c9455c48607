----------------------------- MODULE MCConsole ------------------------------
(* A printable key in lower case, one that repeats, a control key with no  *)
(* rune, a key with no Apple II code, a rune outside ASCII and a release.  *)
(* With a program that reads the keyboard the CRTC alone calls the         *)
(* renderer; without one the owner presents and closes too, and one key    *)
(* comes.                                                                  *)
EXTENDS Console

MCEvents ==
  { [rune |-> 97,  code |-> "Unknown", action |-> "press"],
    [rune |-> 0,   code |-> "Enter",   action |-> "repeat"],
    [rune |-> 233, code |-> "Unknown", action |-> "press"],
    [rune |-> 0,   code |-> "Home",    action |-> "press"],
    [rune |-> 0,   code |-> "Enter",   action |-> "release"] }

MCNext ==
  /\ CNext
  /\ client = "none" => Len(typed') <= 1
  /\ client # "none" => ~closing' /\ calls'["owner"] = Idle /\ calls'["crtc"].op # "close"

MCSpec == CInit /\ [][MCNext]_cvars /\ Polling /\ Scheduling
=============================================================================
