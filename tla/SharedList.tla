----------------------------- MODULE SharedList -----------------------------
(***************************************************************************)
(* What a shared text promises to those who edit it, with no identifiers,  *)
(* clocks, trees or buffers: all the characters ever typed stand in one    *)
(* list, and what each replica holds is that list restricted to the        *)
(* characters it has heard of, in the order of the list.  A character      *)
(* enters the list somewhere that puts it, for its author, directly behind *)
(* the cursor.  Removing a character hides it and moves nothing.           *)
(***************************************************************************)
EXTENDS Naturals, Sequences

CONSTANTS Replica,
          Element,      \* the characters that may be typed
          Start         \* the place before the first character

VARIABLES
    list,       \* Start and every character typed so far, in their order
    held,       \* what each replica holds, a sequence in the same order
    removed,    \* the elements somebody removed
    hidden      \* for each replica, the removed elements it knows about

listVars == <<list, held, removed, hidden>>

ElementsOf(seq) == {seq[i] : i \in DOMAIN seq}

\* s lists elements of t, in the order they have there.
InOrderOf(s, t) ==
    /\ ElementsOf(s) \subseteq ElementsOf(t)
    /\ \A i, j \in DOMAIN s :
          i < j => \E k, m \in DOMAIN t : k < m /\ t[k] = s[i] /\ t[m] = s[j]

InsertAt(seq, k, x) == SubSeq(seq, 1, k) \o <<x>> \o SubSeq(seq, k + 1, Len(seq))

ListInit ==
    /\ list = <<Start>>
    /\ held = [r \in Replica |-> <<Start>>]
    /\ removed = {}
    /\ hidden = [r \in Replica |-> {}]

\* Replica r types x behind its k-th element.
Put(r, k, x) ==
    /\ x \notin ElementsOf(list)
    /\ held[r][k] \notin hidden[r] \ {Start}
    /\ \E i \in DOMAIN list : list' = InsertAt(list, i, x)
    /\ held' = [held EXCEPT ![r] = InsertAt(@, k, x)]
    /\ InOrderOf(held'[r], list')
    /\ UNCHANGED <<removed, hidden>>

\* Replica r removes an element it holds.
Hide(r, x) ==
    /\ removed' = removed \cup {x}
    /\ hidden' = [hidden EXCEPT ![r] = @ \cup {x}]
    /\ UNCHANGED <<list, held>>

\* Replica r hears of characters and removals of others, never of less than
\* it knows already.
Learn(r) ==
    /\ held' = [held EXCEPT ![r] = held'[r]]
    /\ ElementsOf(held[r]) \subseteq ElementsOf(held'[r])
    /\ InOrderOf(held'[r], list)
    /\ hidden' = [hidden EXCEPT ![r] = hidden'[r]]
    /\ hidden[r] \subseteq hidden'[r]
    /\ hidden'[r] \subseteq removed
    /\ UNCHANGED <<list, removed>>

ListNext ==
    \E r \in Replica :
        \/ \E k \in DOMAIN held[r], x \in Element : Put(r, k, x)
        \/ \E x \in ElementsOf(held[r]) : Hide(r, x)
        \/ Learn(r)

ListSpec == ListInit /\ [][ListNext]_listVars
=============================================================================
