----------------------------- MODULE KillSwitch -----------------------------
(***************************************************************************)
(* security/KillSwitch.cpp: a thread of its own holds a low-level keyboard *)
(* hook and blocks in GetMessage; its callback sets the flag that          *)
(* isTriggered() returns.  install() and uninstall() run in main(); when   *)
(* uninstall() was not called, the destructor of the static s_thread runs  *)
(* after main().                                                           *)
(*                                                                         *)
(* GetMessage returns for a message of the thread's queue only.  A message *)
(* posted to a thread that has no queue yet is lost; a stop request wakes  *)
(* nobody who is blocked in GetMessage.                                    *)
(***************************************************************************)
EXTENDS Naturals

CONSTANTS
    Hotkeys,    \* what kill_hotkey may be: [mods: the modifiers it names,
                 \* key: its last token], in upper case
    Letters,    \* the one-letter keys
    Keys        \* the keys a person, or a tool that sends input, may press

Modifiers == {"CTRL", "ALT", "SHIFT"}

VARIABLES
    triggered,  \* s_triggered
    need,       \* s_needCtrl, s_needAlt, s_needShift
    vk,         \* s_vkCode
    hook,       \* s_hook is not null
    tid,        \* s_threadId is not 0
    stopTok,    \* s_thread has been requested to stop
    queue,      \* the message queue of the hook thread
    hpc,        \* where the hook thread is
    kpc         \* where its owner is in install, uninstall or ~jthread

config == <<need, vk>>
hookThread == <<hook, tid, queue, hpc>>
vars == <<triggered, config, hookThread, stopTok, kpc>>

HookStates == {"none", "start", "queued", "published", "loop", "getMessage",
               "unhook", "exited"}
OwnerStates == {"off", "waitTid", "installed", "posting", "joining",
                "destroying", "removed"}

Init ==
    /\ triggered = FALSE
    /\ need = {"CTRL", "ALT"}
    /\ vk = "X"
    /\ hook = FALSE
    /\ tid = FALSE
    /\ stopTok = FALSE
    /\ queue = "none"
    /\ hpc = "none"
    /\ kpc = "off"

-----------------------------------------------------------------------------
(* The owner.                                                              *)

\* The key of the hotkey: a letter, Escape or F12, and X for anything else.
ParseKey(key) ==
    CASE key \in Letters -> key
      [] key \in {"ESC", "ESCAPE"} -> "ESC"
      [] key = "F12" -> "F12"
      [] OTHER -> "X"

Install(h) ==
    /\ kpc = "off"
    /\ need' = h.mods
    /\ vk' = ParseKey(h.key)
    /\ triggered' = FALSE
    /\ hpc' = "start"
    /\ kpc' = "waitTid"
    /\ UNCHANGED <<hook, tid, queue, stopTok>>

\* install() returns when the thread has published its id.
Installed ==
    /\ kpc = "waitTid"
    /\ tid
    /\ kpc' = "installed"
    /\ UNCHANGED <<triggered, config, hookThread, stopTok>>

\* uninstall(): the id is taken and the thread requested to stop.
Uninstall ==
    /\ kpc = "installed"
    /\ tid
    /\ tid' = FALSE
    /\ stopTok' = TRUE
    /\ kpc' = "posting"
    /\ UNCHANGED <<triggered, config, hook, queue, hpc>>

\* PostThreadMessage fails for a thread that has exited or has no queue.
PostQuit ==
    /\ kpc = "posting"
    /\ queue' = IF queue = "none" \/ hpc = "exited" THEN queue ELSE "quit"
    /\ kpc' = "joining"
    /\ UNCHANGED <<triggered, config, hook, tid, hpc, stopTok>>

\* join(), of uninstall or of the destructor
Join ==
    /\ kpc \in {"joining", "destroying"}
    /\ hpc = "exited"
    /\ kpc' = "removed"
    /\ UNCHANGED <<triggered, config, hookThread, stopTok>>

\* ~jthread of a thread that is still joinable: request_stop, then join.
Destroy ==
    /\ kpc = "installed"
    /\ stopTok' = TRUE
    /\ kpc' = "destroying"
    /\ UNCHANGED <<triggered, config, hookThread>>

-----------------------------------------------------------------------------
(* The hook thread.                                                        *)

HGoto(from, to) ==
    /\ hpc = from
    /\ hpc' = to

\* Mutant of CreateQueue: the id is published before there is a queue.
PublishFirst ==
    /\ HGoto("start", "queued")
    /\ tid' = TRUE
    /\ UNCHANGED <<triggered, config, hook, queue, stopTok, kpc>>

\* PeekMessage
CreateQueue ==
    /\ HGoto("start", "queued")
    /\ queue' = "empty"
    /\ UNCHANGED <<triggered, config, hook, tid, stopTok, kpc>>

Publish ==
    /\ HGoto("queued", "published")
    /\ tid' = TRUE
    /\ UNCHANGED <<triggered, config, hook, queue, stopTok, kpc>>

SetHook ==
    /\ HGoto("published", "loop")
    /\ hook' = TRUE
    /\ UNCHANGED <<triggered, config, tid, queue, stopTok, kpc>>

\* SetWindowsHookEx fails; the thread ends with a warning.
SetHookFails ==
    /\ HGoto("published", "exited")
    /\ UNCHANGED <<triggered, config, hook, tid, queue, stopTok, kpc>>

LoopTest ==
    /\ HGoto("loop", IF stopTok THEN "unhook" ELSE "getMessage")
    /\ UNCHANGED <<triggered, config, hook, tid, queue, stopTok, kpc>>

GetQuit ==
    /\ queue = "quit"
    /\ HGoto("getMessage", "unhook")
    /\ queue' = "empty"
    /\ UNCHANGED <<triggered, config, hook, tid, stopTok, kpc>>

\* A message that is not WM_QUIT, from elsewhere: dispatched to nobody.
GetOther ==
    /\ HGoto("getMessage", "loop")
    /\ UNCHANGED <<triggered, config, hook, tid, queue, stopTok, kpc>>

Unhook ==
    /\ HGoto("unhook", "exited")
    /\ hook' = FALSE
    /\ UNCHANGED <<triggered, config, tid, queue, stopTok, kpc>>

\* lowLevelKeyboardProc: a key goes down while mods are held.  The system
\* runs it in the hook thread while that thread waits for messages.
KeyDown(mods, key) ==
    /\ hook
    /\ hpc = "getMessage"
    /\ need \subseteq mods
    /\ key = vk
    /\ triggered' = TRUE
    /\ UNCHANGED <<config, hookThread, stopTok, kpc>>

-----------------------------------------------------------------------------
HookStep ==
    \/ CreateQueue \/ Publish
    \/ SetHook \/ SetHookFails
    \/ LoopTest \/ GetQuit \/ Unhook

\* What happens to the thread without its doing.
HookEvent ==
    \/ GetOther
    \/ \E mods \in SUBSET Modifiers, key \in Keys : KeyDown(mods, key)

Next ==
    \/ \E h \in Hotkeys : Install(h)
    \/ Installed \/ Uninstall \/ PostQuit \/ Join \/ Destroy
    \/ HookStep \/ HookEvent

Spec == Init /\ [][Next]_vars

-----------------------------------------------------------------------------
TypeOK ==
    /\ triggered \in BOOLEAN
    /\ need \in SUBSET Modifiers
    /\ vk \in Letters \cup {"ESC", "F12", "X"}
    /\ hook \in BOOLEAN
    /\ tid \in BOOLEAN
    /\ stopTok \in BOOLEAN
    /\ queue \in {"none", "empty", "quit"}
    /\ hpc \in HookStates
    /\ kpc \in OwnerStates

\* WM_QUIT is never posted to a thread that has no queue to receive it, and
\* is not lost: while the owner waits in uninstall(), the thread has it in
\* its queue or is past the wait.
QuitDelivered ==
    /\ kpc = "posting" => queue # "none"
    /\ kpc = "joining" => queue = "quit" \/ hpc \in {"unhook", "exited"}
=============================================================================
