------------------------------ MODULE Console -------------------------------
(***************************************************************************)
(* Window, keyboard and program: keys reach the keyboard from PollEvents,  *)
(* on the window's goroutine, while a Present waits for it and the program *)
(* on the CPU's goroutine reads the soft switch.  The program leaves the    *)
(* keyboard alone, or accesses it in any order, or is the Monitor's KEYIN  *)
(* loop: poll $C000 until bit 7 is up, then clear the strobe by an access   *)
(* to $C010, and poll again.                                               *)
(***************************************************************************)
EXTENDS KeyboardHistory, VulkanRenderer, SequencesExt

VARIABLES
  client,       \* the program: "none", "any" or "polls"
  taken,        \* keys the polling program saw with bit 7 up
  pc            \* its next access: "poll" or "ack"

program == <<client, taken, pc>>
pvars   == <<hvars, program>>

PInit == HInit /\ client \in {"none", "any", "polls"} /\ taken = << >> /\ pc = "poll"

Poll ==
  /\ client = "polls"
  /\ pc = "poll"
  /\ HReadData
  /\ IF data' >= 128
       THEN taken' = Append(taken, data' - 128) /\ pc' = "ack"
       ELSE UNCHANGED <<taken, pc>>
  /\ UNCHANGED client

Ack ==
  /\ client = "polls"
  /\ pc = "ack"
  /\ HReadStrobe \/ HWriteStrobe
  /\ pc' = "poll"
  /\ UNCHANGED <<client, taken>>

AnyAccess ==
  /\ client = "any"
  /\ HReset \/ HReadData \/ HReadStrobe \/ HWriteStrobe
  /\ UNCHANGED program

Keystroke(event) == HKeyEvent(event) /\ UNCHANGED program

Access == Poll \/ Ack \/ AnyAccess

(* Only the program's accesses are fair: the clock keeps ticking the CPU,  *)
(* while nothing obliges the user to type.                                 *)
Polling == WF_pvars(Poll) /\ WF_pvars(Ack)

-----------------------------------------------------------------------------
cvars == <<pvars, rvars>>

CInit == PInit /\ RendererInit

(* handleKeyCallback and handleCharCallback. *)
PollKey(event) ==
  /\ thread.does = "poll"
  /\ Keystroke(event)
  /\ UNCHANGED rvars

CNext ==
  \/ \E event \in HostEvents : PollKey(event)
  \/ Access /\ UNCHANGED rvars
  \/ RendererNext /\ UNCHANGED pvars

(* The goroutines run; sync.Mutex hands the lock to a caller that has      *)
(* waited for long.                                                        *)
Scheduling ==
  /\ WF_rvars(ThreadStep)
  /\ \A c \in Callers :
       SF_rvars(Lock(c)) /\ WF_rvars(ReturnEarly(c) \/ Send(c) \/ Return(c))

CSpec == CInit /\ [][CNext]_cvars /\ Polling /\ Scheduling

-----------------------------------------------------------------------------
(* keyboard.go:42-56,95-108: a program that clears the strobe only after it *)
(* saw bit 7 takes the keys in the order they were typed, none twice, none  *)
(* skipped, even when keys arrive between its read and its clear.           *)
TakesInOrder == IsPrefix(taken, typed)

(* Every key accepted is eventually taken by a program that keeps polling:  *)
(* nothing stays behind in the queue while the latch is free.               *)
EveryKeyTaken ==
  \A n \in 1 .. MaxTyped :
    (client = "polls" /\ Len(typed) >= n) ~> (Len(taken) >= n)
=============================================================================
