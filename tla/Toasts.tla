------------------------------- MODULE Toasts -------------------------------
(***************************************************************************)
(* The stack of toasts (components/notifications/ToastProvider.tsx and     *)
(* ui/Toast.tsx): each goes by itself after AUTO_DISMISS_MS, not counting  *)
(* the time the mouse or the keyboard's focus is on it, or when its cross  *)
(* is clicked.                                                             *)
(*                                                                         *)
(* A timer fires at its time or later, never earlier.  The map timersRef   *)
(* holds one timer for a toast; a timer that was replaced there without    *)
(* being cleared still fires.                                              *)
(***************************************************************************)
EXTENDS Integers

CONSTANTS
  ToastIds,         \* the toasts shown in one mount of the provider
  AUTO_DISMISS_MS,  \* how long a toast stays, in units of the clock
  MaxClock          \* bound: the clock stops here

ASSUME ToastsAssumption == AUTO_DISMISS_MS \in Nat \ {0} /\ MaxClock \in Nat

VARIABLES
  clock,  \* Date.now()
  stack   \* the toasts: see NewToast

toastVars == <<clock, stack>>

Cleared == -1  \* no timer for the toast in timersRef

\* A toast and what the three maps hold for it.  orphans are its timers that
\* nothing refers to any more.  Two fields are history: free, how long it was
\* shown with nothing on it, and crowded, whether mouse and focus ever were on
\* it together.
NewToast ==
  [stage |-> "new", remaining |-> 0, startedAt |-> 0, timer |-> Cleared,
   orphans |-> {}, mouse |-> FALSE, focus |-> FALSE, free |-> 0,
   crowded |-> FALSE]

Times == 0..MaxClock
Deadlines == 0..(MaxClock + AUTO_DISMISS_MS)

ToastsTypeOK ==
  /\ clock \in Times
  /\ stack \in [ToastIds ->
       [stage : {"new", "shown", "gone", "closed"},
        remaining : 0..AUTO_DISMISS_MS, startedAt : Times,
        timer : Deadlines \cup {Cleared}, orphans : SUBSET Deadlines,
        mouse : BOOLEAN, focus : BOOLEAN, free : 0..AUTO_DISMISS_MS,
        crowded : BOOLEAN]]

ToastsInit == clock = 0 /\ stack = [i \in ToastIds |-> NewToast]

Held(toast) == toast.mouse \/ toast.focus

-----------------------------------------------------------------------------
(* The provider.                                                            *)

\* A timer is armed.  The one it replaces, if there is one, is not cleared.
scheduleDismiss(toast, ms) ==
  [toast EXCEPT !.startedAt = clock, !.timer = clock + ms,
                !.orphans = IF toast.timer = Cleared THEN @ ELSE @ \cup {toast.timer}]

\* The toast is taken from the stack and its timer cleared.
dismiss(toast, stage) == [toast EXCEPT !.stage = stage, !.timer = Cleared]

\* Mutant of pause: the timer runs on.
PauseRunsOn(toast) ==
  LET left == toast.remaining - (clock - toast.startedAt)
  IN [toast EXCEPT !.remaining = IF left > 0 THEN left ELSE 0]

pause(toast) ==
  LET left == toast.remaining - (clock - toast.startedAt)
  IN [toast EXCEPT !.remaining = IF left > 0 THEN left ELSE 0, !.timer = Cleared]

\* The count goes on from what was left of it, if anything was.
resume(toast) ==
  IF toast.remaining <= 0 THEN dismiss(toast, "gone")
  ELSE scheduleDismiss(toast, toast.remaining)

showToast(i) ==
  /\ stack[i].stage = "new"
  /\ stack' = [stack EXCEPT ![i] =
       scheduleDismiss([@ EXCEPT !.stage = "shown", !.remaining = AUTO_DISMISS_MS],
                       AUTO_DISMISS_MS)]
  /\ UNCHANGED clock

\* A timer of the toast is due and fires; an orphan too late finds no toast.
fired(toast, at) ==
  LET left == IF toast.stage = "shown" THEN dismiss(toast, "gone") ELSE toast
  IN [left EXCEPT !.orphans = @ \ {at}]

Fire(i) ==
  \E at \in {stack[i].timer} \cup stack[i].orphans :
    /\ at # Cleared /\ at <= clock
    /\ stack' = [stack EXCEPT ![i] = fired(@, at)]
    /\ UNCHANGED clock

-----------------------------------------------------------------------------
(* The toast's four handlers and its cross.                                 *)

\* onMouseEnter, onMouseLeave, onFocus, onBlur: each calls pause or resume,
\* whatever else is on the toast.
Toast(i) ==
  /\ stack[i].stage = "shown"
  /\ LET toast == stack[i]
         now(mouse, focus) ==
           [toast EXCEPT !.mouse = mouse, !.focus = focus,
                         !.crowded = @ \/ (mouse /\ focus)]
     IN \/ /\ ~toast.mouse
           /\ stack' = [stack EXCEPT ![i] = pause(now(TRUE, toast.focus))]
        \/ /\ ~toast.focus
           /\ stack' = [stack EXCEPT ![i] = pause(now(toast.mouse, TRUE))]
        \/ /\ toast.mouse
           /\ stack' = [stack EXCEPT ![i] = resume(now(FALSE, toast.focus))]
        \/ /\ toast.focus
           /\ stack' = [stack EXCEPT ![i] = resume(now(toast.mouse, FALSE))]
        \/ stack' = [stack EXCEPT ![i] = dismiss(toast, "closed")]
  /\ UNCHANGED clock

\* Time passes; a toast with nothing on it is there to be read.
ToastTick ==
  /\ clock < MaxClock
  /\ clock' = clock + 1
  /\ stack' = [i \in ToastIds |->
       IF stack[i].stage = "shown" /\ ~Held(stack[i]) /\ stack[i].free < AUTO_DISMISS_MS
       THEN [stack[i] EXCEPT !.free = @ + 1] ELSE stack[i]]

\* The shell is left: the timers are cleared (an orphan left will find no toast)
\* and another mount has a stack and identifiers of its own.  The clock starts
\* again with it.
LeaveShell ==
  /\ stack' = [i \in ToastIds |-> NewToast]
  /\ clock' = 0

ToastsNext ==
  \/ ToastTick \/ LeaveShell
  \/ \E i \in ToastIds : showToast(i) \/ Fire(i) \/ Toast(i)

-----------------------------------------------------------------------------
(* Properties.                                                              *)

\* A toast neither stays for ever nor goes too soon: with nothing on it a timer
\* is armed to take it away, with the mouse or the focus on it none is, and one
\* that went by itself was there for AUTO_DISMISS_MS with nothing on it, however
\* often it was held.  (With both on it at some time the last two fail: leaving
\* with one resumes the count though the other is still there.)
ToastsTakeTheirTime ==
  \A i \in ToastIds :
    /\ stack[i].stage = "shown" /\ ~Held(stack[i]) => stack[i].timer # Cleared
    /\ ~stack[i].crowded =>
         /\ stack[i].stage = "shown" /\ Held(stack[i]) =>
              stack[i].timer = Cleared /\ stack[i].orphans = {}
         /\ stack[i].stage = "gone" => stack[i].free = AUTO_DISMISS_MS
=============================================================================
