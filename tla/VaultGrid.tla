----------------------------- MODULE VaultGrid ------------------------------
(***************************************************************************)
(* What vault.js shows of the decrypted entries: the three panes of the    *)
(* vault view (the spinner, "Your vault is empty", the grid of cards), the *)
(* search box, and the buttons of the cards.  loadAndRender, a Delete that *)
(* is answered and the search box all end in renderGrid, which replaces    *)
(* the cards, or hides the grid and leaves them in the page.               *)
(*                                                                         *)
(* An entry is its id, and a query the set of ids it matches.  The server  *)
(* may list anything: other devices change the vault too.                  *)
(* Who signs in and out is in AuthForms; Page composes the two.            *)
(* leaked and blank are history: no guard reads them.                      *)
(***************************************************************************)
EXTENDS Naturals

CONSTANTS
  Ids,      \* the entries
  Loads     \* slots for runs of loadAndRender

VARIABLES
  signedIn,   \* the vault view is active, and _vaultKey is set
  entries,    \* _entries
  cards,      \* the cards in the grid, visible or not
  listeners,  \* how many listeners the buttons of a card have
  revealed,   \* the cards that show their password
  panes,      \* the panes that are visible
  query,      \* what the text in the search box matches
  load,       \* the runs of loadAndRender
  deleting,   \* the entries whose Delete is on its way
  leaked,     \* a load of an earlier session has been rendered
  blank       \* a load has failed since renderGrid last ran

vars == <<signedIn, entries, cards, listeners, revealed, panes, query, load,
          deleting, leaked, blank>>

grid == <<cards, listeners, revealed>>

NoLoad == [pc |-> "idle", data |-> {}, old |-> FALSE]

Init ==
  /\ signedIn = FALSE
  /\ entries = {}
  /\ cards = {}
  /\ listeners = [e \in Ids |-> 0]
  /\ revealed = {}
  /\ panes = {"loading"}
  /\ query = Ids
  /\ load = [l \in Loads |-> NoLoad]
  /\ deleting = {}
  /\ leaked = FALSE
  /\ blank = FALSE

\* Mutant: the cards are replaced also by none, and the grid is not hidden.
RenderGridAlways(toShow, visible) ==
  /\ blank' = FALSE
  /\ panes' = IF toShow = {} THEN visible \cup {"empty"}
              ELSE (visible \ {"empty"}) \cup {"grid"}
  /\ cards' = toShow
  /\ listeners' = [e \in Ids |-> IF e \in toShow THEN 1 ELSE 0]
  /\ revealed' = {}

\* Mutant: the cards are added to those that are there.
RenderGridAppends(toShow, visible) ==
  /\ blank' = FALSE
  /\ panes' = IF toShow = {} THEN (visible \ {"grid"}) \cup {"empty"}
              ELSE (visible \ {"empty"}) \cup {"grid"}
  /\ cards' = cards \cup toShow
  /\ listeners' = [e \in Ids |-> IF e \in cards \cup toShow
                                 THEN listeners[e] + 1 ELSE 0]
  /\ revealed' = revealed

\* renderGrid, while the given panes are visible, and attachCardListeners.
RenderGrid(toShow, visible) ==
  /\ blank' = FALSE
  /\ IF toShow = {}
     THEN /\ panes' = (visible \ {"grid"}) \cup {"empty"}
          /\ UNCHANGED grid
     ELSE /\ panes' = (visible \ {"empty"}) \cup {"grid"}
          /\ cards' = toShow
          /\ listeners' = [e \in Ids |-> IF e \in toShow THEN 1 ELSE 0]
          /\ revealed' = {}

(***************************************************************************)
(* loadAndRender                                                           *)
(***************************************************************************)

\* The spinner is all that is visible.
BeginLoad(l) ==
  /\ load[l].pc = "idle"
  /\ load' = [load EXCEPT ![l] = [NoLoad EXCEPT !.pc = "listing"]]
  /\ panes' = {"loading"}

\* performLogin opens the vault view; the search box keeps its text.
SignIn(l) ==
  /\ ~signedIn
  /\ signedIn' = TRUE
  /\ BeginLoad(l)
  /\ UNCHANGED <<entries, grid, query, deleting, leaked, blank>>

\* saveEntry has saved.
LoadAfterSave(l) ==
  /\ signedIn
  /\ BeginLoad(l)
  /\ UNCHANGED <<signedIn, entries, grid, query, deleting, leaked, blank>>

\* The server's list; without a key nothing can be decrypted.
Listed(l) ==
  /\ load[l].pc = "listing"
  /\ \E data \in SUBSET Ids :
       /\ data = {} \/ signedIn
       /\ load' = [load EXCEPT ![l] =
                   [@ EXCEPT !.pc = "decrypting", !.data = data]]
  /\ UNCHANGED <<signedIn, entries, grid, panes, query, deleting, leaked,
                 blank>>

\* Everything is decrypted, whatever session it is by now.
Loaded(l) ==
  /\ load[l].pc = "decrypting"
  /\ entries' = load[l].data
  /\ RenderGrid(load[l].data, panes \ {"loading"})
  /\ leaked' = (leaked \/ load[l].old)
  /\ load' = [load EXCEPT ![l] = NoLoad]
  /\ UNCHANGED <<signedIn, query, deleting>>

\* Mutant: the spinner is hidden only for a load that goes well.
LoadFailedSpins(l) ==
  /\ load[l].pc \in {"listing", "decrypting"}
  /\ blank' = TRUE
  /\ load' = [load EXCEPT ![l] = NoLoad]
  /\ UNCHANGED <<signedIn, entries, grid, panes, query, deleting, leaked>>

\* The request or the decryption fails: the spinner goes, and nothing that
\* was visible before the load comes back.
LoadFailed(l) ==
  /\ load[l].pc \in {"listing", "decrypting"}
  /\ panes' = panes \ {"loading"}
  /\ blank' = TRUE
  /\ load' = [load EXCEPT ![l] = NoLoad]
  /\ UNCHANGED <<signedIn, entries, grid, query, deleting, leaked>>

(***************************************************************************)
(* The cards and the search box                                            *)
(***************************************************************************)

\* filter, on every input in the search box.
Search(q) ==
  /\ signedIn
  /\ query' = q
  /\ RenderGrid(entries \cap q, panes)
  /\ UNCHANGED <<signedIn, entries, load, deleting, leaked>>

\* Each listener of the eye button shows or hides the password.
ToggleShow(e) ==
  /\ signedIn /\ "grid" \in panes /\ e \in cards
  /\ revealed' = IF listeners[e] % 2 = 0 THEN revealed
                 ELSE IF e \in revealed THEN revealed \ {e}
                 ELSE revealed \cup {e}
  /\ UNCHANGED <<signedIn, entries, cards, listeners, panes, query, load,
                 deleting, leaked, blank>>

ClickDelete(e) ==
  /\ signedIn /\ "grid" \in panes /\ e \in cards
  /\ deleting' = deleting \cup {e}
  /\ UNCHANGED <<signedIn, entries, grid, panes, query, load, leaked, blank>>

\* Mutant: the entry is dropped from the list, but its card stays.
DeletedNoRender(e) ==
  /\ e \in deleting
  /\ deleting' = deleting \ {e}
  /\ entries' = entries \ {e}
  /\ UNCHANGED <<signedIn, grid, panes, query, load, leaked, blank>>

\* The delete is answered, and all entries are rendered, whatever is in the
\* search box.
Deleted(e) ==
  /\ e \in deleting
  /\ deleting' = deleting \ {e}
  /\ entries' = entries \ {e}
  /\ RenderGrid(entries', panes)
  /\ UNCHANGED <<signedIn, query, load, leaked>>

DeleteFailed(e) ==
  /\ e \in deleting
  /\ deleting' = deleting \ {e}
  /\ UNCHANGED <<signedIn, entries, grid, panes, query, load, leaked, blank>>

(***************************************************************************)
(* Sign-out                                                                *)
(***************************************************************************)

\* Mutant: the entries are forgotten, the cards are not.
SignOutKeepsCards ==
  /\ signedIn
  /\ signedIn' = FALSE
  /\ entries' = {}
  /\ load' = [l \in Loads |-> [load[l] EXCEPT !.old = load[l].pc # "idle"]]
  /\ leaked' = FALSE
  /\ UNCHANGED <<grid, panes, query, deleting, blank>>

\* clearVaultKey: the entries and the cards are gone.  No load is stopped.
SignOut ==
  /\ signedIn
  /\ signedIn' = FALSE
  /\ entries' = {}
  /\ cards' = {}
  /\ listeners' = [e \in Ids |-> 0]
  /\ revealed' = {}
  /\ load' = [l \in Loads |-> [load[l] EXCEPT !.old = load[l].pc # "idle"]]
  /\ leaked' = FALSE
  /\ UNCHANGED <<panes, query, deleting, blank>>

SaveLoadStep(l) == LoadAfterSave(l) \/ Loaded(l) \/ LoadFailed(l)

\* What happens in the vault view, and not in the auth view: all but the
\* sign-in with its load, and the sign-out.
GridStep(login) ==
  \/ \E l \in Loads : Listed(l)
  \/ \E l \in Loads \ {login} : SaveLoadStep(l)
  \/ \E e \in Ids :
       ToggleShow(e) \/ ClickDelete(e) \/ Deleted(e) \/ DeleteFailed(e)
  \/ \E q \in SUBSET Ids : Search(q)

\* The types of the state of the vault view.
GridTypeOK ==
  /\ signedIn \in BOOLEAN
  /\ entries \subseteq Ids
  /\ cards \subseteq Ids
  /\ listeners \in [Ids -> 0..1]
  /\ revealed \subseteq cards
  /\ panes \subseteq {"loading", "empty", "grid"}
  /\ query \subseteq Ids
  /\ load \in [Loads -> [pc : {"idle", "listing", "decrypting"},
                         data : SUBSET Ids, old : BOOLEAN]]
  /\ deleting \subseteq Ids
  /\ leaked \in BOOLEAN
  /\ blank \in BOOLEAN

=============================================================================
