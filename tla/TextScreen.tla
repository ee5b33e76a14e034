----------------------------- MODULE TextScreen -----------------------------
(***************************************************************************)
(* The terminal as its user sees it: lines of runes and a cursor.  A rune  *)
(* appears at the cursor, which moves right and wraps; nothing else on the *)
(* screen changes.  When the cursor would leave the last line the promise  *)
(* is weak: it stays there, and only the last two lines may change.        *)
(***************************************************************************)
EXTENDS Integers

CONSTANTS Runes, Blank

VARIABLES rows, columns, screen, x, y

vars == <<rows, columns, screen, x, y>>

Lines == 0 .. rows - 1
Places == Lines \X (0 .. columns - 1)

Init ==
    /\ rows > 0 /\ columns > 0
    /\ DOMAIN screen = Places
    /\ x = 0
    /\ y = 0

(* The cursor goes to the next line, over the screen s.                    *)
NextLine(s) ==
    /\ x' = 0
    /\ \/ /\ y + 1 < rows
          /\ y' = y + 1
          /\ screen' = s
       \/ /\ y = rows - 1
          /\ y' = y
          /\ DOMAIN screen' = Places
          /\ \A p \in Places : p[1] < rows - 2 => screen'[p] = s[p]

Show(rune) ==
    LET shown == [screen EXCEPT ![<<y, x>>] = rune]
    IN  \/ /\ x + 1 < columns
           /\ x' = x + 1
           /\ y' = y
           /\ screen' = shown
        \/ /\ x + 1 = columns
           /\ NextLine(shown)

Put(rune) == Show(rune) /\ UNCHANGED <<rows, columns>>

LineFeed == NextLine(screen) /\ UNCHANGED <<rows, columns>>

Clear ==
    /\ screen' = [p \in Places |-> Blank]
    /\ x' = 0
    /\ y' = 0
    /\ UNCHANGED <<rows, columns>>

Next == (\E rune \in Runes : Put(rune)) \/ LineFeed \/ Clear

Spec == Init /\ [][Next]_vars
=============================================================================
