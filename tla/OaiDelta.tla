------------------------------- MODULE OaiDelta -------------------------------
(***************************************************************************)
(* The nightly harvest (ingest/oai_delta.py): run_delta lists, set by set, *)
(* what arXiv changed between two days, and only then hands the records    *)
(* over to ingest_one_paper.  Its state file carries a date and, between   *)
(* two pages, a resumption token to the next run.                          *)
(*                                                                         *)
(* A record is known by its set, its day and the page of the day that      *)
(* lists it.  A day's records exist when the day is over.  One run goes at *)
(* a time: the cron wrapper holds a flock.  The sentinel that pauses it is *)
(* modelled in IngestSentinel.  A paper that its pipeline refuses is       *)
(* written to delta.jsonl and counts as handed over.                       *)
(***************************************************************************)
EXTENDS Naturals, Sequences

CONSTANTS MaxSets,     \* sets harvested, in the order of their numbers
          Pages,       \* pages that list one day of one set
          MaxDay,      \* bound: days
          MaxCrashes,  \* bound: runs that die
          MaxLapses,    \* bound: pages given up and nights a run works into
          MaxOrders    \* bound: runs and edits an operator asks for

ASSUME DeltaAssumption == /\ MaxSets \in Nat \ {0} /\ Pages \in Nat \ {0}
                          /\ MaxDay \in Nat \ {0} /\ MaxCrashes \in Nat
                          /\ MaxLapses \in Nat /\ MaxOrders \in Nat

VARIABLES
    today,     \* the UTC day
    onDisk,     \* oai-pmh-state.json: last_harvest_date and the token
    harvest,   \* the run in progress
    fed,       \* records handed over to the pipeline
    forfeit,   \* records some mishap excuses from being handed over
    since,     \* the day the run without a state file began with: earlier ones are bulk ingest's
    lastDone,  \* the last run completed, and was no rehearsal
    crashes, lapses, orders

deltaVars == <<today, onDisk, harvest, fed, forfeit, since, lastDone, crashes, lapses,
               orders>>

DeltaSets == 1 .. MaxSets
Days      == 0 .. MaxDay
Records   == [set : DeltaSets, day : Days, page : 1 .. Pages]

\* A token names the listing it continues: its set, the page that comes next,
\* the last day of the window, and the day it was issued on.
ResumptionTokens  == [set : DeltaSets, day : Days, page : 1 .. Pages, until : Days, issued : Days]
NoResumption == [set |-> 0, day |-> 0, page |-> 0, until |-> 0, issued |-> 0]
NoDate  == MaxDay + 2  \* no state file

Resting == [at |-> "rest", from |-> 0, until |-> 0, dry |-> FALSE, set |-> 0,
            token |-> NoResumption, resume |-> NoResumption, records |-> <<>>]

Span(from, until) == {r \in Records : r.day \in from .. until}

Yesterday == today - 1

--------------------------------------------------------------------------------
\* Mutant: each run lists yesterday alone, whatever the state file says.
ResumeAnew == Yesterday

\* _resolve_resume: a date in the future is discarded with its token, a token
\* of an earlier day is discarded, without a file the run starts with yesterday.
ResumeDate == IF onDisk.date \in 0 .. today THEN onDisk.date ELSE Yesterday
ResumeToken == IF onDisk.date = today THEN onDisk.token ELSE NoResumption

\* The resumption token goes to the set it was issued for.
TokenFor(s, t) == IF t.set = s THEN t ELSE NoResumption
Without(s, t)  == IF t.set = s THEN NoResumption ELSE t

\* run_delta up to the first page. A window that ends before it begins is
\* refused and changes nothing; asked names a run with --from or --until.
StartRun(asked, from, until, dry) ==
    /\ harvest.at = "rest"
    /\ from <= until
    /\ harvest' = [Resting EXCEPT !.at = "list", !.from = from, !.until = until, !.dry = dry,
                                  !.set = 1, !.token = TokenFor(1, ResumeToken),
                                  !.resume = Without(1, ResumeToken)]
    /\ lastDone' = FALSE
    /\ since' = IF onDisk.date = NoDate THEN from ELSE since
    /\ forfeit' = IF asked THEN forfeit \cup (Span(0, Yesterday) \ Span(from, until))
                  ELSE forfeit
    /\ UNCHANGED <<today, onDisk, fed, crashes, lapses>>

Nightly == StartRun(FALSE, ResumeDate, Yesterday, FALSE) /\ UNCHANGED orders

\* an operator's run: a window, a rehearsal, or both
Asked == /\ orders < MaxOrders
         /\ orders' = orders + 1
         /\ \E from \in {ResumeDate, Yesterday}, until \in {Yesterday, today}, dry \in BOOLEAN :
                StartRun(TRUE, from, until, dry)

\* A state file with a date to come: an operator's error, or a clock that has
\* been set back since. Its true date is gone.
MisDate == /\ orders < MaxOrders /\ harvest.at = "rest" /\ onDisk.date <= today
           /\ orders' = orders + 1
           /\ onDisk' = [onDisk EXCEPT !.date = today + 1]
           /\ forfeit' = forfeit \cup Span(onDisk.date, today)
           /\ UNCHANGED <<today, harvest, fed, since, lastDone, crashes, lapses>>

--------------------------------------------------------------------------------
\* Where a listing goes on, and whether another page follows.
Listing == IF harvest.token # NoResumption
           THEN harvest.token
           ELSE [set |-> harvest.set, day |-> harvest.from, page |-> 1,
                 until |-> harvest.until, issued |-> today]

Following(l) == IF l.page < Pages THEN [l EXCEPT !.page = l.page + 1, !.issued = today]
                ELSE IF l.day < l.until
                     THEN [l EXCEPT !.day = l.day + 1, !.page = 1, !.issued = today]
                     ELSE NoResumption

Listed(l) == [set |-> l.set, day |-> l.day, page |-> l.page]

\* The loop over the sets goes on: to the next one, or past the last.
NextSet(h) == IF h.set < MaxSets
              THEN [h EXCEPT !.set = h.set + 1, !.token = TokenFor(h.set + 1, h.resume),
                             !.resume = Without(h.set + 1, h.resume)]
              ELSE [h EXCEPT !.at = IF h.dry THEN "shown" ELSE "feed", !.token = NoResumption]

\* One page of harvest_set: parsed, kept, and the state file rewritten with
\* today's date, dry run or not. A day that is not over has no records yet. A
\* run that has worked into the next day goes on with the token it has.
Page == /\ harvest.at = "list"
        /\ LET l    == Listing
               next == Following(l)
               kept == IF l.day < today THEN Append(harvest.records, Listed(l)) ELSE harvest.records
               h    == [harvest EXCEPT !.records = kept, !.token = next]
           IN  /\ onDisk' = [date |-> today, token |-> next]
               /\ harvest' = IF next = NoResumption THEN NextSet(h) ELSE h
        /\ UNCHANGED <<today, fed, forfeit, since, lastDone, crashes, lapses, orders>>

\* _fetch_page raises RuntimeError: the rest of this set is skipped.
GiveUp == /\ harvest.at = "list" /\ lapses < MaxLapses
          /\ lapses' = lapses + 1
          /\ harvest' = NextSet([harvest EXCEPT !.token = NoResumption])
          /\ forfeit' = forfeit \cup ({r \in Span(harvest.from, harvest.until) : r.set = harvest.set}
                                       \ {harvest.records[i] : i \in DOMAIN harvest.records})
          /\ UNCHANGED <<today, onDisk, fed, since, lastDone, crashes, orders>>

\* The run ends without its end: killed, by an HTTP error, by an error code in
\* the page, as a token that has expired brings one. What it has listed is
\* forgotten; what it has written stays.
Dies == /\ harvest' = Resting /\ lastDone' = FALSE
        /\ forfeit' = forfeit \cup {r \in Span(harvest.from, harvest.until) : r.day < onDisk.date}

Crash == /\ harvest.at # "rest" /\ crashes < MaxCrashes
         /\ crashes' = crashes + 1
         /\ Dies
         /\ UNCHANGED <<today, onDisk, fed, since, lapses, orders>>

\* The server no longer takes a token of an earlier day, if it so decides.
Expired == /\ harvest.at = "list" /\ Listing.issued # today
           /\ Dies
           /\ UNCHANGED <<today, onDisk, fed, since, crashes, lapses, orders>>

--------------------------------------------------------------------------------
\* The end of a dry run: the records are printed.
Show == /\ harvest.at = "shown"
        /\ Dies
        /\ UNCHANGED <<today, onDisk, fed, since, crashes, lapses, orders>>

\* _feed_record_to_pipeline, one record after the other.
Feed == /\ harvest.at = "feed" /\ harvest.records # <<>>
        /\ fed' = fed \cup {Head(harvest.records)}
        /\ harvest' = [harvest EXCEPT !.records = Tail(harvest.records)]
        /\ UNCHANGED <<today, onDisk, forfeit, since, lastDone, crashes, lapses, orders>>

\* The completed run writes today's date, whatever window it had.
Complete == /\ harvest.at = "feed" /\ harvest.records = <<>>
            /\ onDisk' = [date |-> today, token |-> NoResumption]
            /\ harvest' = Resting /\ lastDone' = TRUE
            /\ UNCHANGED <<today, fed, forfeit, since, crashes, lapses, orders>>

\* A day that ends under a run is in nobody's window: this run's ends before
\* it, and the next one's begins with the date this run writes after it.
Midnight == /\ today < MaxDay
            /\ today' = today + 1
            /\ IF harvest.at = "rest" THEN UNCHANGED <<forfeit, lapses>>
               ELSE /\ lapses < MaxLapses
                    /\ lapses' = lapses + 1
                    /\ forfeit' = forfeit \cup Span(today, today)
            /\ UNCHANGED <<onDisk, harvest, fed, since, lastDone, crashes, orders>>

--------------------------------------------------------------------------------
DeltaInit ==
    /\ today = 1
    /\ onDisk = [date |-> NoDate, token |-> NoResumption]
    /\ harvest = Resting
    /\ fed = {} /\ forfeit = {} /\ since = NoDate /\ lastDone = FALSE
    /\ crashes = 0 /\ lapses = 0 /\ orders = 0

DeltaNext == \/ Nightly \/ Asked \/ MisDate
             \/ Page \/ GiveUp \/ Crash \/ Expired
             \/ Show \/ Feed \/ Complete \/ Midnight

DeltaSpec == DeltaInit /\ [][DeltaNext]_deltaVars

DeltaTypeOK ==
    /\ today \in Days
    /\ onDisk.date \in (0 .. today + 1) \cup {NoDate} /\ onDisk.token \in ResumptionTokens \cup {NoResumption}
    /\ harvest.at \in {"rest", "list", "feed", "shown"}
    /\ fed \subseteq Records /\ forfeit \subseteq Records
    /\ since \in Days \cup {NoDate}

--------------------------------------------------------------------------------
\* Between runs, every record of a day before the date in the state file has
\* been handed over, or one of the mishaps that the actions name excuses it:
\* the chain of windows has no other gap (run_delta, harvest_set and
\* _resolve_resume agree on what the date means).
FedOrForfeit ==
    harvest.at = "rest" /\ onDisk.date # NoDate =>
        \A r \in Span(since, MaxDay) : r.day < onDisk.date => r \in fed \cup forfeit

\* docs/ops/delta-loop.md:187-193: after a crash the next run resumes or lists
\* the days again, "automatic; no operator action required". So once a later
\* run has completed, every record before its date has been handed over.
ResumeRecovers ==
    lastDone => \A r \in Span(since, MaxDay) : r.day < onDisk.date => r \in fed
===============================================================================
