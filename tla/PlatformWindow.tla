--------------------------- MODULE PlatformWindow ---------------------------
(***************************************************************************)
(* The window and the keyboard of engine/platform (win32_platform.cpp):    *)
(* what its user does becomes messages in the window's queue, and a pump   *)
(* takes out all of them, updates the window's state and gives the host    *)
(* loop a copy of it for the frame.                                        *)
(*                                                                         *)
(* External: the system posts a message to the window that has the focus,  *)
(* keeps their order, posts the quit message after all others and drops    *)
(* the messages of a destroyed window.                                     *)
(*                                                                         *)
(* Abstracted: mouse, wheel, text and size are data nothing here decides   *)
(* on; a key that maps to no key code is one of Keys \ KeyCodes.           *)
(***************************************************************************)
EXTENDS Integers, Sequences

CONSTANTS
    Keys,           (* keys of the keyboard                                *)
    KeyCodes        (* those that vk_to_keycode knows                      *)

VARIABLES
    hwnd,           (* the system's window: none, open, destroyed          *)
    focus, held,    (* the user: whether it is in front, the keys pressed  *)
    iconic,         (* whether the user has minimized it                   *)
    queue,          (* messages posted and not yet retrieved               *)
    quit_posted,    (* PostQuitMessage was called, WM_QUIT not retrieved   *)
    w,              (* PlatformWindow                                      *)
    input           (* PlatformFrameInput: the copy the host loop reads    *)

user   == <<focus, held, iconic>>
window == <<hwnd, user, queue, quit_posted, w, input>>

Closed == [quit |-> FALSE, minimized |-> FALSE, focused |-> TRUE,
           key_down |-> {}, transitions |-> 0]

WindowInit ==
    /\ hwnd = "none" /\ focus = FALSE /\ held = {} /\ iconic = FALSE
    /\ queue = << >> /\ quit_posted = FALSE
    /\ w = Closed
    /\ input = [down |-> {}, transitions |-> 0, minimized |-> FALSE]

(* platform_window_open: the window is shown and brought to the front. *)
Opened ==
    /\ hwnd' = "open" /\ focus' = TRUE
    /\ UNCHANGED <<held, iconic, queue, quit_posted, w, input>>

----------------------------------------------------------------------------
(* The user. *)

Post(message) == queue' = Append(queue, message)

(* A key goes down, or repeats because it is held. *)
Press(key) ==
    /\ hwnd = "open"
    /\ held' = held \union {key}
    /\ IF focus THEN Post([kind |-> "key_down", key |-> key, was_down |-> key \in held])
                ELSE key \notin held /\ UNCHANGED queue
    /\ UNCHANGED <<hwnd, focus, iconic, quit_posted, w, input>>

Lift(key) ==
    /\ hwnd = "open" /\ key \in held
    /\ held' = held \ {key}
    /\ IF focus THEN Post([kind |-> "key_up", key |-> key]) ELSE UNCHANGED queue
    /\ UNCHANGED <<hwnd, focus, iconic, quit_posted, w, input>>

SwitchFocus ==
    /\ hwnd = "open"
    /\ focus' = ~focus
    /\ Post([kind |-> IF focus THEN "kill_focus" ELSE "set_focus"])
    /\ UNCHANGED <<hwnd, held, iconic, quit_posted, w, input>>

Minimize ==
    /\ hwnd = "open"
    /\ iconic' = ~iconic
    /\ Post([kind |-> "size", minimized |-> ~iconic])
    /\ UNCHANGED <<hwnd, focus, held, quit_posted, w, input>>

Close ==
    /\ hwnd = "open"
    /\ Post([kind |-> "close"])
    /\ UNCHANGED <<hwnd, user, quit_posted, w, input>>

WindowInput ==
    \/ \E key \in Keys : Press(key) \/ Lift(key)
    \/ SwitchFocus \/ Minimize \/ Close

----------------------------------------------------------------------------
(* wnd_proc *)

KeyDown(key, was_down) ==
    IF key \in KeyCodes
      THEN [w EXCEPT !.key_down = @ \union {key},
                     !.transitions = @ + IF was_down THEN 0 ELSE 1]
      ELSE w

KeyUp(key) ==
    IF key \in KeyCodes
      THEN [w EXCEPT !.key_down = @ \ {key}, !.transitions = @ + 1]
      ELSE w

(* Fault: the keys stay down while another window gets the releases.       *)
BlurredOnly == [w EXCEPT !.focused = FALSE]

(* WM_KILLFOCUS *)
Blurred == [w EXCEPT !.focused = FALSE, !.key_down = {}]

Handled(m) ==
    CASE m.kind = "key_down"   -> KeyDown(m.key, m.was_down)
      [] m.kind = "key_up"     -> KeyUp(m.key)
      [] m.kind = "kill_focus" -> Blurred
      [] m.kind = "set_focus"  -> [w EXCEPT !.focused = TRUE]
      [] m.kind = "size"       -> [w EXCEPT !.minimized = m.minimized]

(* platform_pump_events: what is counted per frame starts anew. *)
PumpStart ==
    /\ w' = [w EXCEPT !.transitions = 0]
    /\ UNCHANGED <<hwnd, user, queue, quit_posted, input>>

Dispatch ==
    /\ queue # << >> /\ Head(queue).kind # "close"
    /\ w' = Handled(Head(queue))
    /\ queue' = Tail(queue)
    /\ UNCHANGED <<hwnd, user, quit_posted, input>>

(* Fault: the destruction of the window does not end the program.          *)
QuitForgotten == quit_posted

(* WM_DESTROY *)
QuitPosted == TRUE

(* WM_CLOSE destroys the window, which loses the focus if it has it. *)
DispatchClose ==
    /\ queue # << >> /\ Head(queue).kind = "close"
    /\ hwnd' = "destroyed"
    /\ focus' = FALSE
    /\ w' = IF w.focused THEN Blurred ELSE w
    /\ queue' = << >>
    /\ quit_posted' = QuitPosted
    /\ UNCHANGED <<held, iconic, input>>

DispatchQuit ==
    /\ queue = << >> /\ quit_posted
    /\ quit_posted' = FALSE
    /\ w' = [w EXCEPT !.quit = TRUE]
    /\ UNCHANGED <<hwnd, user, queue, input>>

PumpStep == Dispatch \/ DispatchClose \/ DispatchQuit

(* PeekMessage has no message. *)
Drained == queue = << >> /\ ~quit_posted

PumpEnd ==
    /\ Drained
    /\ input' = [down |-> w.key_down, transitions |-> w.transitions,
                 minimized |-> w.minimized]
    /\ UNCHANGED <<hwnd, user, queue, quit_posted, w>>

(* platform_window_close: a window the user has closed is not destroyed    *)
(* again, its handle is no longer a window.                                *)
Shut ==
    /\ hwnd' = "destroyed" /\ focus' = FALSE /\ queue' = << >>
    /\ UNCHANGED <<held, iconic, quit_posted, w, input>>

WindowNext ==
    \/ WindowInput
    \/ hwnd = "none" /\ Opened
    \/ PumpStart \/ PumpStep \/ PumpEnd
    \/ Shut

WindowSpec == WindowInit /\ [][WindowNext]_window

----------------------------------------------------------------------------
(* When all messages are handled, no key counts as down that the user does *)
(* not hold in this window, whatever was pressed, repeated and lifted here *)
(* and elsewhere ("no stuck key on alt-tab").                              *)
HeldKeysAreHeld ==
    queue = << >> /\ hwnd = "open" =>
        w.key_down \subseteq IF focus THEN held \intersect KeyCodes ELSE {}
=============================================================================
