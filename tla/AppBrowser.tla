------------------------------ MODULE AppBrowser ----------------------------
(***************************************************************************)
(* The picker of `playground mod` without a domain (mod/AppBrowser.tsx):   *)
(* pages of the registry are read newest first, each app's metadata        *)
(* arrives later and on its own, and only apps with a repository are       *)
(* listed.  Meanwhile the user moves the cursor, picks and quits, and      *)
(* others publish apps.                                                    *)
(***************************************************************************)
EXTENDS Naturals, Sequences, FiniteSets, SequencesExt, Selection

CONSTANTS Catalogue,  \* the registry, oldest first: [id, hidden, repo]
          Late,       \* apps published while the picker is open
          Batch       \* BATCH

\* The registry keeps one app under a name; 0 is the name of none.
AppSet == [id : Nat \ {0}, hidden : BOOLEAN, repo : {"github", "other", "none"}]
Published == Catalogue \o Late

ASSUME BrowserAssumption ==
    /\ Catalogue \in Seq(AppSet) /\ Late \in Seq(AppSet) /\ Batch \in Nat \ {0}
    /\ \A i, j \in 1..Len(Published) : Published[i].id = Published[j].id => i = j

VARIABLES browser     \* the screen's state

NoBrowser == [status |-> "off", slots |-> Catalogue, late |-> 0, fetching |-> FALSE,
              next |-> 0, more |-> TRUE, failed |-> FALSE, apps |-> <<>>, known |-> {},
              cursor |-> 0, checking |-> 0, cancelled |-> FALSE, picked |-> 0]

B(f) == browser' = f
Browsing == browser.status = "open"

\* filterModdable over the entries whose metadata is there: where they are in
\* apps; the cursor counts them.
Listed(s) == {i \in 1..Len(s.apps) : s.apps[i].id \in s.known /\ s.apps[i].repo # "none"}
Shown(s) == Cardinality(Listed(s))
UnderCursor(s) == {i \in Listed(s) : Cardinality({j \in Listed(s) : j < i}) = s.cursor}

Open == browser.status = "off" /\ B([NoBrowser EXCEPT !.status = "open", !.fetching = TRUE])

\* The registry contract (external): it walks from the newest slot on, skips
\* hidden apps, and says how far it got.
Newest(slots) == Reverse(slots)
Visible(slots, n) == {k \in 1..n : ~slots[k].hidden}
Scanned(rest) ==
    LET full == {n \in 0..Len(rest) : Cardinality(Visible(rest, n)) = Batch}
    IN  IF full = {} THEN Len(rest) ELSE CHOOSE k \in full : \A m \in full : k <= m
Walked(slots, start) ==
    LET rest == SubSeq(Newest(slots), start + 1, Len(slots))
        n == Scanned(rest)
    IN  {[entries |-> e, scanned |-> n] : e \in Filtered(rest, Visible(rest, n))}

\* Faulty variant: the next page starts after the entries, not after the slots.
PageEntriesOffset(page) ==
    LET offset == browser.next + Len(page.entries)
    IN  [browser EXCEPT !.apps = @ \o page.entries, !.fetching = FALSE,
                        !.more = page.scanned > 0 /\ offset < Len(browser.slots),
                        !.next = offset]

\* loadBatch once the query has answered.
Page(page) ==
    LET offset == browser.next + page.scanned
    IN  [browser EXCEPT !.apps = @ \o page.entries, !.fetching = FALSE,
                        !.more = page.scanned > 0 /\ offset < Len(browser.slots),
                        !.next = offset]

LoadBatch ==
    /\ Browsing /\ browser.fetching
    /\ \/ \E page \in Walked(browser.slots, browser.next) : B(Page(page))
       \/ B([browser EXCEPT !.more = FALSE, !.fetching = FALSE, !.failed = TRUE])

\* The paging effect: the cursor is near the end of what is listed.
NextBatch ==
    /\ Browsing /\ ~browser.fetching /\ browser.more
    /\ browser.cursor + 3 >= Shown(browser)
    /\ B([browser EXCEPT !.fetching = TRUE])

\* One app's metadata arrives, in any order.
Metadata(id) ==
    /\ Browsing /\ id \notin browser.known
    /\ \E i \in 1..Len(browser.apps) : browser.apps[i].id = id
    /\ B([browser EXCEPT !.known = @ \cup {id}])

Down ==
    /\ Browsing /\ browser.checking = 0 /\ browser.cursor + 1 < Shown(browser)
    /\ B([browser EXCEPT !.cursor = @ + 1])
Up ==
    /\ Browsing /\ browser.checking = 0 /\ browser.cursor > 0
    /\ B([browser EXCEPT !.cursor = @ - 1])

\* verifyAndSelect asks GitHub about the app under the cursor.
Enter ==
    /\ Browsing /\ browser.checking = 0
    /\ \E i \in UnderCursor(browser) : B([browser EXCEPT !.checking = browser.apps[i].id])

\* The answer: gone keeps the picker open; there, or no answer, selects.
Checked ==
    /\ browser.checking # 0
    /\ IF browser.cancelled THEN B([browser EXCEPT !.checking = 0])
       ELSE \/ B([browser EXCEPT !.checking = 0])
            \/ B([browser EXCEPT !.status = "picked", !.picked = browser.checking, !.checking = 0])

Quit ==
    /\ Browsing
    /\ B([browser EXCEPT !.status = "cancelled", !.cancelled = TRUE])

\* Another publisher: the newest slot, so every reverse offset moves by one.
Publish ==
    /\ Browsing /\ browser.late < Len(Late)
    /\ B([browser EXCEPT !.slots = Append(@, Late[browser.late + 1]), !.late = @ + 1])

BrowserStep == \/ LoadBatch \/ NextBatch \/ Down \/ Up \/ Enter \/ Checked \/ Quit \/ Publish
               \/ \E i \in 1..Len(browser.apps) : Metadata(browser.apps[i].id)

-----------------------------------------------------------------------------
\* Paging neither loses nor repeats apps: when the last page has been read,
\* every visible app that was there at the start is in the picker, each app at
\* most once more than others published meanwhile, and the cursor always
\* points into the list, whatever order pages, metadata and keys come in
\* (nextStart, AppBrowser.tsx:64-71).
BrowserComplete ==
    LET ids == {browser.apps[i].id : i \in 1..Len(browser.apps)}
    IN  /\ ~browser.more /\ ~browser.failed =>
               \A i \in 1..Len(Catalogue) : Catalogue[i].hidden \/ Catalogue[i].id \in ids
        /\ Len(browser.apps) - Cardinality(ids) <= browser.late
        /\ Listed(browser) # {} => browser.cursor < Shown(browser)

=============================================================================
