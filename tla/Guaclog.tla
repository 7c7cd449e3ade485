------------------------------ MODULE Guaclog ------------------------------
(***************************************************************************)
(* guaclog, which turns the key events of a recording into text: modifiers *)
(* are tracked while they are held, and a key pressed with one of Ctrl,    *)
(* Alt, Meta, Super or Hyper is written as a shortcut (guaclog/*.c).       *)
(***************************************************************************)
EXTENDS Protocol, FiniteSets, SequencesExt

CONSTANTS
    MaxKeys,        \* GUACLOG_MAX_KEYS
    Keysyms,        \* the keys that are used
    MaxLogged       \* bound: length of the text

VARIABLES
    keys,           \* key_states[0 .. active_keys - 1]
    logged,         \* what was written to the output file
    held,           \* the modifiers that are down, as the user has them
    full            \* a key was not tracked because there were too many

logVars == <<keys, logged, held, full>>

-----------------------------------------------------------------------------
(* keydef.c: what a key is.  The value is what typing it writes, "none"    *)
(* for NULL.                                                               *)

KeyDef(name, value, modifier) == [name |-> name, value |-> value, modifier |-> modifier]

(* known_keys, as far as the model types them: every kind of row.          *)
KnownKeys ==
    (65027 :> KeyDef("AltGr", "", TRUE)) @@ (65289 :> KeyDef("Tab", "none", FALSE)) @@
    (65293 :> KeyDef("Return", "\n", FALSE)) @@ (65505 :> KeyDef("Shift", "", TRUE)) @@
    (65507 :> KeyDef("Ctrl", "none", TRUE)) @@ (65513 :> KeyDef("Alt", "none", TRUE))

(* A keysym of Latin-1, or 0x1000000 and a code point of the first plane.  *)
IsUnicodeKey(keysym) == keysym \in 0 .. 255 \/ keysym \div 65536 = 256
UnicodeKey(keysym) ==
    LET char == <<"U", keysym % 65536>> IN KeyDef(char, char, FALSE)
(* The static definition of an unknown key has no value and no modifier.   *)
UnknownKey(keysym) == KeyDef(<<"0x", keysym>>, "none", FALSE)

KeydefAlloc(keysym) ==
    IF keysym \in DOMAIN KnownKeys THEN KnownKeys[keysym]
    ELSE IF IsUnicodeKey(keysym) THEN UnicodeKey(keysym) ELSE UnknownKey(keysym)

-----------------------------------------------------------------------------
(* state.c: the modifiers in the order they went down.                     *)

KeyState == [keysym : Int, pressed : BOOLEAN]

LogInit ==
    /\ keys = <<>>
    /\ logged = <<>>
    /\ held = {}
    /\ full = FALSE

Tracked(keysym) == {k \in DOMAIN keys : keys[k].keysym = keysym}
NoRoom(keysym) == Tracked(keysym) = {} /\ Len(keys) = MaxKeys

AddKey(keysym, pressed) ==
    IF Tracked(keysym) # {}
    THEN [k \in DOMAIN keys |-> IF k \in Tracked(keysym) THEN [keys[k] EXCEPT !.pressed = pressed]
                                ELSE keys[k]]
    ELSE Append(keys, [keysym |-> keysym, pressed |-> pressed])

(* Mutant: the last key that is down goes with those that are not.         *)
MutTrimKeys(ks) ==
    LET down == {k \in DOMAIN ks : ks[k].pressed}
    IN IF down = {} THEN <<>> ELSE SubSeq(ks, 1, Max(down) - 1)

(* Released keys at the end are forgotten; those before a key that is      *)
(* still down stay, as released.                                           *)
TrimKeys(ks) ==
    LET down == {k \in DOMAIN ks : ks[k].pressed}
    IN IF down = {} THEN <<>> ELSE SubSeq(ks, 1, Max(down))

IsShortcut == \E k \in DOMAIN keys : KeydefAlloc(keys[k].keysym).value = "none"

(* fprintf writes "(null)" for the value of a shortcut's key that has none. *)
Text(def) ==
    IF IsShortcut
    THEN [keys |-> [k \in DOMAIN keys |-> keys[k].keysym],
          key |-> IF def.value = "none" THEN "(null)" ELSE def.value]
    ELSE [keys |-> <<>>, key |-> IF def.value = "none" THEN def.name ELSE def.value]

UpdateModifier(keysym, pressed) ==
    /\ keys' = IF NoRoom(keysym) THEN keys ELSE TrimKeys(AddKey(keysym, pressed))
    /\ full' = (full \/ NoRoom(keysym))
    /\ UNCHANGED logged

UpdateKey(keysym, pressed) ==
    /\ logged' = IF pressed THEN Append(logged, Text(KeydefAlloc(keysym))) ELSE logged
    /\ UNCHANGED <<keys, full>>

(* guaclog_handle_key, with the arguments of guac_protocol_send_key.       *)
HandleKey(i) ==
    LET keysym == i[2]
        pressed == i[3] # 0
    IN IF KeydefAlloc(keysym).modifier THEN UpdateModifier(keysym, pressed)
       ELSE UpdateKey(keysym, pressed)

KeyEvent ==
    \E keysym \in Keysyms, pressed \in BOOLEAN :
        /\ Len(logged) < MaxLogged
        /\ HandleKey(SendKey(keysym, pressed, 1))
        /\ held' = IF ~KeydefAlloc(keysym).modifier THEN held
                   ELSE IF pressed THEN held \cup {keysym} ELSE held \ {keysym}

LogNext == KeyEvent

LogSpec == LogInit /\ [][LogNext]_logVars

-----------------------------------------------------------------------------
(* The keys tracked as pressed are those that are down, each once, and no  *)
(* released key is last: after any sequence of events, unless there were   *)
(* more modifiers than the array holds.                                    *)
HeldTracked ==
    LET down == {k \in DOMAIN keys : keys[k].pressed} IN
    /\ \A j, k \in DOMAIN keys : keys[j].keysym = keys[k].keysym => j = k
    /\ {keys[k].keysym : k \in down} \subseteq held
    /\ ~full => held \subseteq {keys[k].keysym : k \in down}
    /\ keys # <<>> => Last(keys).pressed
=============================================================================
