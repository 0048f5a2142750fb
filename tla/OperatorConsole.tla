--------------------------- MODULE OperatorConsole --------------------------
(***************************************************************************)
(* The terminal of hidra_ui: main.rs with the part of net_bridge.rs it     *)
(* calls.  The loop draws, waits for a key, handles it and ticks.  A       *)
(* command is a colon and a letter: k is kill, q quit, l lazarus, c clear, *)
(* n network, s status, a chat; the others only print.                     *)
(***************************************************************************)
EXTENDS Naturals, Sequences, SequencesExt

CONSTANTS Letters,    \* bound: the keys pressed, the colon among them
          Period,     \* turns of a blink (8)
          MaxDraft,   \* bound: length of the input line; the code has none
          MaxSent     \* bound: own messages

ConsoleConstants == Period \in Nat \ {0} /\ {MaxDraft, MaxSent} \subseteq Nat

Modes == {"Normal", "Lazarus", "Command"}
Panels == {"Chat", "Status", "Network"}

VARIABLES
  phase,           \* where the loop stands
  mode, panel, input, running, lazarus_blink, tick_count,
  key_loaded,      \* titan.key_loaded; kill_armed is its negation
  messages,        \* the chat: who each line is from
  messages_sent,   \* network.messages_sent
  outgoing_queue,  \* the sealed envelopes
  frame,           \* what the terminal shows
  typed,           \* history: the texts entered and sealed
  kept             \* history: the draft when the screen last went blank

consoleVars == <<phase, mode, panel, input, running, lazarus_blink, tick_count,
                 key_loaded, messages, messages_sent, outgoing_queue, frame, typed, kept>>

Init ==
  /\ phase = "draw" /\ mode = "Normal" /\ panel = "Chat" /\ input = <<>>
  /\ running = TRUE /\ lazarus_blink = FALSE /\ tick_count = 0
  /\ key_loaded = TRUE /\ messages = {} /\ messages_sent = 0
  /\ outgoing_queue = <<>> /\ frame = "none" /\ typed = <<>> /\ kept = <<>>

(* ui, with render_lazarus for the blank screen, render_header and         *)
(* render_input for the mode, and the panels to the right of the chat.     *)
Shown ==
  IF mode = "Lazarus" THEN [blank |-> TRUE, dot |-> ~lazarus_blink]
  ELSE [blank |-> FALSE, prompt |-> IF mode = "Normal" THEN "MSG" ELSE "CMD",
        titan |-> key_loaded,
        right |-> IF panel = "Chat" THEN {"Status", "Network"} ELSE {panel}]

Draw ==
  /\ phase = "draw" /\ running
  /\ frame' = Shown /\ phase' = "poll"
  /\ UNCHANGED <<mode, panel, input, running, lazarus_blink, tick_count,
                 key_loaded, messages, messages_sent, outgoing_queue, typed, kept>>

(* The end of a turn; tick runs after the key, or after 100 ms without.    *)
Tick ==
  /\ phase = "tick"
  /\ tick_count' = (tick_count + 1) % Period
  /\ lazarus_blink' = IF mode = "Lazarus" THEN tick_count' < Period \div 2 ELSE lazarus_blink
  /\ phase' = "draw"
  /\ UNCHANGED <<mode, panel, input, running, key_loaded, messages,
                 messages_sent, outgoing_queue, frame, typed, kept>>

System == messages' = messages \cup {"SYSTEM"}

ToggledMode == IF mode = "Lazarus" THEN "Normal" ELSE "Lazarus"

(* handle_command, on the trimmed command *)
HandleCommand(cmd) ==
  /\ CASE cmd = <<":", "l">> -> mode' = ToggledMode /\ System
       [] cmd = <<":", "c">> -> UNCHANGED mode /\ messages' = {"SYSTEM"}
       [] cmd = <<":", "q">> -> UNCHANGED <<mode, messages>>
       [] OTHER -> UNCHANGED mode /\ System
  /\ panel' = CASE cmd = <<":", "n">> -> "Network"
                [] cmd = <<":", "s">> -> "Status"
                [] cmd = <<":", "a">> -> "Chat"
                [] OTHER -> panel
  /\ key_loaded' = (key_loaded /\ cmd # <<":", "k">>)
  /\ running' = (cmd # <<":", "q">>)
  /\ UNCHANGED <<messages_sent, outgoing_queue, typed>>

(* Mutant: a text that is typed after a kill is shown but not queued. *)
MutQueue(text) == IF key_loaded THEN Append(outgoing_queue, text) ELSE outgoing_queue

Queue(text) == Append(outgoing_queue, text)

(* send_message: shown and counted first, then sealed and queued.  seal    *)
(* fails on an empty or oversized text only; the loss of a seal is the     *)
(* disjunct without the queue.  Nothing takes from the queue.              *)
SendText(text, sealed) ==
  /\ messages_sent < MaxSent
  /\ messages' = messages \cup {"YOU", "SYSTEM"}
  /\ messages_sent' = messages_sent + 1
  /\ outgoing_queue' = IF sealed THEN Queue(text) ELSE outgoing_queue
  /\ typed' = IF sealed THEN Append(typed, text) ELSE typed
  /\ UNCHANGED <<mode, panel, running, key_loaded>>

Enter ==
  /\ input' = <<>>
  /\ IF input = <<>>
     THEN UNCHANGED <<mode, panel, running, key_loaded, messages,
                      messages_sent, outgoing_queue, typed>>
     ELSE IF input[1] = ":" THEN HandleCommand(input)
     ELSE \E sealed \in BOOLEAN : SendText(input, sealed)

Unmoved == UNCHANGED <<key_loaded, messages_sent, outgoing_queue, typed>>

(* The shortcuts of handle_key, in every mode. *)
Shortcut ==
  /\ UNCHANGED input /\ Unmoved
  /\ \/ mode' = ToggledMode /\ System /\ UNCHANGED <<panel, running>>        \* F1
     \/ panel' \in {"Status", "Network"} /\ System /\ UNCHANGED <<mode, running>>  \* F2, F3
     \/ panel' = "Chat" /\ UNCHANGED <<mode, running, messages>>             \* F4
     \/ /\ mode = "Lazarus"                                                  \* Esc
        /\ mode' = ToggledMode /\ System /\ UNCHANGED <<panel, running>>
     \/ /\ mode # "Lazarus"                                                  \* Esc, Ctrl+C
        /\ running' = FALSE /\ UNCHANGED <<mode, panel, messages>>

(* A printable key; a lone colon switches to Command. *)
Type(c) ==
  /\ Len(input) < MaxDraft
  /\ input' = Append(input, c)
  /\ mode' = IF input' = <<":">> THEN "Command" ELSE mode
  /\ Unmoved /\ UNCHANGED <<panel, running, messages>>

Backspace ==
  /\ input' = IF input = <<>> THEN <<>> ELSE Front(input)
  /\ mode' = IF input' = <<>> /\ mode = "Command" THEN "Normal" ELSE mode
  /\ Unmoved /\ UNCHANGED <<panel, running, messages>>

(* Mutant: Enter is handled before the blank screen is looked at. *)
MutListening == TRUE

(* On the blank screen every key but the shortcuts is ignored. *)
Listening == mode # "Lazarus"

Ignored == ~Listening /\ UNCHANGED <<input, mode, panel, running, messages>> /\ Unmoved

HandleKey ==
  /\ phase = "poll" /\ phase' = "tick"
  /\ \/ Shortcut \/ Ignored
     \/ Listening /\ (Enter \/ Backspace \/ \E c \in Letters : Type(c))
  /\ kept' = IF mode' # "Lazarus" THEN <<>> ELSE IF mode = mode' THEN kept ELSE input'
  /\ UNCHANGED <<lazarus_blink, tick_count, frame>>

NoKey ==
  /\ phase = "poll" /\ phase' = "tick"
  /\ UNCHANGED <<mode, panel, input, running, lazarus_blink, tick_count, key_loaded,
                 messages, messages_sent, outgoing_queue, frame, typed, kept>>

Next == Draw \/ HandleKey \/ NoKey \/ Tick
Spec == Init /\ [][Next]_consoleVars

-----------------------------------------------------------------------------
TypeOK ==
  /\ phase \in {"draw", "poll", "tick"} /\ mode \in Modes /\ panel \in Panels
  /\ input \in BoundedSeq(Letters, MaxDraft) /\ running \in BOOLEAN
  /\ tick_count \in 0 .. Period - 1 /\ lazarus_blink \in BOOLEAN /\ key_loaded \in BOOLEAN
  /\ messages \subseteq {"SYSTEM", "YOU"} /\ messages_sent \in 0 .. MaxSent

(* While the operator can press a key the screen shows the mode the key    *)
(* will act in, and nothing of the conversation on the blank screen.  A    *)
(* draft survives the blank screen untouched.  Every text the operator     *)
(* entered and that was sealed is queued once and in order, also after a   *)
(* kill, and no command is ever queued (main.rs 185-279, 582-703).         *)
ConsoleFaithful ==
  /\ phase = "poll" => frame.blank = (mode = "Lazarus")
  /\ outgoing_queue = typed
  /\ \A i \in 1 .. Len(outgoing_queue) : outgoing_queue[i][1] # ":"
  /\ mode = "Lazarus" => input = kept
=============================================================================
