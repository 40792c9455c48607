--------------------------- MODULE VulkanRenderer ---------------------------
(***************************************************************************)
(* The Vulkan renderer's calls (video/vulkan_placeholder.go).  A caller    *)
(* takes mu, hands its work to the goroutine that owns the window, waits   *)
(* until it is done, and unlocks.  The renderer was initialised: otherwise *)
(* the CRTC that would call it is not made.                                *)
(***************************************************************************)
EXTENDS Naturals, Sequences

CONSTANTS
  Callers,     \* the goroutines that call Present and Close
  MaxFrames    \* bound on the calls of Present

ASSUME CallersAssumption == "none" \notin Callers
ASSUME MaxFramesAssumption == MaxFrames \in Nat

VARIABLES
  mu,          \* the caller that holds VulkanRenderer.mu, or "none"
  mainCh,      \* the channel: is it open, and the callers whose work it holds
  window,      \* whether the window exists
  thread,      \* the window's goroutine: what it does, and for which caller
  calls,       \* each caller: its operation, how far it is, frame and result
  frames,      \* Frame.Sequence of the last Present
  screen,      \* the frame in the window
  closing      \* the user asked the window to close

rvars == <<mu, mainCh, window, thread, calls, frames, screen, closing>>

-----------------------------------------------------------------------------
Capacity == 4    \* make(chan mainThreadFunc, 4)

Idle == [op |-> "none", at |-> "idle", frame |-> 0, failed |-> FALSE]
At(c, op, at) == calls[c].op = op /\ calls[c].at = at
Move(c, at) == calls' = [calls EXCEPT ![c].at = at]
Waits == [does |-> "wait", caller |-> "none"]

RendererInit ==
  /\ mu = "none"
  /\ mainCh = [open |-> TRUE, work |-> << >>]
  /\ window = TRUE
  /\ thread = Waits
  /\ calls = [c \in Callers |-> Idle]
  /\ frames = 0
  /\ screen = 0
  /\ closing = FALSE

(* A call of Present or Close, up to its Lock. *)
CallPresent(c) ==
  /\ calls[c].at = "idle"
  /\ frames < MaxFrames
  /\ frames' = frames + 1
  /\ calls' = [calls EXCEPT ![c] =
                 [op |-> "present", at |-> "lock", frame |-> frames', failed |-> FALSE]]
  /\ UNCHANGED <<mu, mainCh, window, thread, screen, closing>>

CallClose(c) ==
  /\ calls[c].at = "idle"
  /\ calls' = [calls EXCEPT ![c] = [Idle EXCEPT !.op = "close", !.at = "lock"]]
  /\ UNCHANGED <<mu, mainCh, window, thread, frames, screen, closing>>

Lock(c) ==
  /\ calls[c].at = "lock"
  /\ mu = "none"
  /\ mu' = c
  /\ Move(c, "locked")
  /\ UNCHANGED <<mainCh, window, thread, frames, screen, closing>>

Unlocked(c, failed) ==
  /\ mu' = "none"
  /\ calls' = [calls EXCEPT ![c].at = "idle", ![c].failed = failed]

(* Present without a window fails; a second Close has nothing to do. *)
ReturnEarly(c) ==
  /\ \/ At(c, "present", "locked") /\ ~window
     \/ At(c, "close", "locked") /\ ~mainCh.open
  /\ Unlocked(c, calls[c].op = "present")
  /\ UNCHANGED <<mainCh, window, thread, frames, screen, closing>>

(* doOnMainThread: send, then wait for done. *)
Send(c) ==
  /\ \/ At(c, "present", "locked") /\ window
     \/ At(c, "close", "locked") /\ mainCh.open
  /\ Len(mainCh.work) < Capacity
  /\ mainCh' = [mainCh EXCEPT !.work = Append(@, c)]
  /\ Move(c, "wait")
  /\ UNCHANGED <<mu, window, thread, frames, screen, closing>>

Return(c) ==
  /\ calls[c].at = "done"
  /\ mainCh' = IF calls[c].op = "close" THEN [mainCh EXCEPT !.open = FALSE] ELSE mainCh
  /\ Unlocked(c, calls[c].failed)
  /\ UNCHANGED <<window, thread, frames, screen, closing>>

-----------------------------------------------------------------------------
(* The window's goroutine. *)

(* A slip: done is closed when the work is taken and not when it is done. *)
ReceiveDone ==
  /\ thread.does = "wait"
  /\ mainCh.work # << >>
  /\ LET c == Head(mainCh.work) IN
       /\ thread' = [does |-> IF calls[c].op = "close" THEN "destroy" ELSE "draw", caller |-> c]
       /\ Move(c, "done")
  /\ mainCh' = [mainCh EXCEPT !.work = Tail(@)]
  /\ UNCHANGED <<mu, window, frames, screen, closing>>

Receive ==
  /\ thread.does = "wait"
  /\ mainCh.work # << >>
  /\ LET c == Head(mainCh.work) IN
       thread' = [does |-> IF calls[c].op = "close" THEN "destroy" ELSE "draw", caller |-> c]
  /\ mainCh' = [mainCh EXCEPT !.work = Tail(@)]
  /\ UNCHANGED <<mu, window, calls, frames, screen, closing>>

Draw ==
  /\ thread.does = "draw"
  /\ screen' = calls[thread.caller].frame
  /\ thread' = [thread EXCEPT !.does = "poll"]
  /\ UNCHANGED <<mu, mainCh, window, calls, frames, closing>>

(* During PollEvents the user may close the window; keys arrive there too. *)
AskToClose ==
  /\ thread.does = "poll"
  /\ closing' = TRUE
  /\ UNCHANGED <<mu, mainCh, window, thread, calls, frames, screen>>

(* A slip of the dispatch loop: a window that is closing ends it. *)
PolledAndGone ==
  /\ thread.does = "poll"
  /\ thread' = IF closing THEN [thread EXCEPT !.does = "ended"] ELSE Waits
  /\ calls' = [calls EXCEPT ![thread.caller].at = "done", ![thread.caller].failed = closing]
  /\ UNCHANGED <<mu, mainCh, window, frames, screen, closing>>

Polled ==
  /\ thread.does = "poll"
  /\ thread' = Waits
  /\ calls' = [calls EXCEPT ![thread.caller].at = "done", ![thread.caller].failed = closing]
  /\ UNCHANGED <<mu, mainCh, window, frames, screen, closing>>

(* closeLocked. *)
Destroy ==
  /\ thread.does = "destroy"
  /\ window' = FALSE
  /\ thread' = Waits
  /\ Move(thread.caller, "done")
  /\ UNCHANGED <<mu, mainCh, frames, screen, closing>>

(* The closed channel ends the loop. *)
EndLoop ==
  /\ thread.does = "wait"
  /\ ~mainCh.open /\ mainCh.work = << >>
  /\ thread' = [Waits EXCEPT !.does = "ended"]
  /\ UNCHANGED <<mu, mainCh, window, calls, frames, screen, closing>>

CallerStep(c) ==
  CallPresent(c) \/ CallClose(c) \/ Lock(c) \/ ReturnEarly(c) \/ Send(c) \/ Return(c)

ThreadStep == Receive \/ Draw \/ Polled \/ Destroy \/ EndLoop

RendererNext == (\E c \in Callers : CallerStep(c)) \/ ThreadStep \/ AskToClose

-----------------------------------------------------------------------------
(* vulkan_placeholder.go:103-107,205-253: mu is handed over with the work. *)
(* The window's goroutine touches the window only while the caller that    *)
(* sent the work holds mu and waits, although it takes no lock itself; when *)
(* a call is done, its frame is in the window, or the window is gone.       *)
HandedOver ==
  /\ thread.does \in {"draw", "poll", "destroy"} =>
       window /\ mu = thread.caller /\ calls[mu].at = "wait"
  /\ \A c \in Callers :
       /\ At(c, "present", "done") => screen = calls[c].frame /\ window
       /\ At(c, "close", "done") => ~window

(* Every Present and Close returns: a caller neither waits for a goroutine *)
(* that is gone nor for a lock whose holder waits.                         *)
CallsReturn == \A c \in Callers : calls[c].at = "lock" ~> calls[c].at = "idle"
=============================================================================
