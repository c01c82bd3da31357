------------------------- MODULE FetchableHashTable -------------------------
(***************************************************************************)
(* The table of users of a period (FetchableHashTable of UserBindServer):  *)
(* elements in a deque that only grows, an index over those that are       *)
(* actual, and a fetcher that reads the deque by portions while other      *)
(* threads set and erase.  Each operation holds the lock of the table.     *)
(* The values are left out: to set a key that has a slot changes its value *)
(* only.                                                                   *)
(***************************************************************************)
EXTENDS Naturals, Sequences, FiniteSets

CONSTANTS
    Key,
    NoKey,       \* the key of an element that is not actual, no member of Key
    Portion,    \* fetch_actual_size
    MaxFetch,   \* max_fetch_size; 0: no limit
    MaxIndex    \* the greatest value of IndexType

VARIABLES
    slots,      \* all_elements_ and actual_elements_, without the first one,
                \* which only serves the searches
    fetcher

tableVars == <<slots, fetcher>>

Live == {slots[i] : i \in DOMAIN slots} \ {NoKey}

TableInit ==
    /\ slots = <<>>
    /\ fetcher = [pc |-> "idle", position |-> 1, got |-> {}, due |-> {}]

(* Erased elements are not used again.                                     *)
Set(k) ==
    /\ k \notin Live
    /\ Len(slots) + 2 <= MaxIndex
    /\ slots' = Append(slots, k)
    /\ UNCHANGED fetcher

Erased(k) == [i \in DOMAIN slots |-> IF slots[i] = k THEN NoKey ELSE slots[i]]

Erase(k) ==
    /\ k \in Live
    /\ slots' = Erased(k)
    /\ fetcher' = [fetcher EXCEPT !.due = @ \ {k}]

(* "due" holds, for the property, the keys that are in the table as long   *)
(* as the fetch lasts.                                                     *)
FetchBegins ==
    /\ fetcher.pc # "fetching"
    /\ fetcher' = [fetcher EXCEPT !.pc = "fetching", !.position = 1,
                                  !.got = {}, !.due = Live]
    /\ UNCHANGED slots

(* Fetcher::get reads n slots, and moves on by the actual ones.            *)
Actual(n) ==
    {i \in fetcher.position .. fetcher.position + n - 1 : slots[i] # NoKey}

AtEnd(n) == fetcher.position + n > Len(slots)

Full(n) ==
    \/ Cardinality(Actual(n)) >= Portion
    \/ MaxFetch # 0 /\ n >= MaxFetch

Reads(n) ==
    /\ AtEnd(n) \/ Full(n)
    /\ \A m \in 0 .. n - 1 : ~AtEnd(m) /\ ~Full(m)

(* It moves by the elements it returns, not by the slots it has read: what  *)
(* was erased makes it read a part again, or, with a limit of slots, stand *)
(* still.                                                                  *)
NextPosition(n) == fetcher.position + Cardinality(Actual(n))

Get ==
    /\ fetcher.pc = "fetching"
    /\ \E n \in 0 .. Len(slots) + 1 - fetcher.position :
        /\ Reads(n)
        /\ fetcher' = [fetcher EXCEPT
                !.pc = IF AtEnd(n) THEN "ended" ELSE "fetching",
                !.position = NextPosition(n),
                !.got = @ \cup {slots[i] : i \in Actual(n)}]
    /\ UNCHANGED slots

TableNext ==
    \/ \E k \in Key : Set(k) \/ Erase(k)
    \/ FetchBegins
    \/ Get

TableSpec == TableInit /\ [][TableNext]_tableVars

-----------------------------------------------------------------------------
(* The slots have keys, and the fetcher stands on a slot or at their end.  *)
TableTypeOK ==
    /\ slots \in Seq(Key \cup {NoKey})
    /\ fetcher \in [pc : {"idle", "fetching", "ended"}, position : Nat,
                    got : SUBSET Key, due : SUBSET Key]
    /\ fetcher.position \in 1 .. Len(slots) + 1

(* A fetch by portions that has ended has found every user that was in the *)
(* table all the time, whatever was set and erased between two portions: a *)
(* dump overlooks none.                                                    *)
FetchFindsAll == fetcher.pc = "ended" => fetcher.due \subseteq fetcher.got
=============================================================================
