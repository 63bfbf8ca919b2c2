----------------------------- MODULE TabWriter -----------------------------
(***************************************************************************)
(* The browser tabs of one visitor share a database of conversations, and  *)
(* one of them at a time may write it.  A tab becomes the writer when it   *)
(* boots, when its user presses the take-over button, or when it hears     *)
(* that the writer has given up.  The right to write is a Web Lock, asked  *)
(* for without waiting, or in browsers without Web Locks a lease of 15 s   *)
(* in the database.  The tabs talk over a BroadcastChannel.                *)
(*                                                                         *)
(* A tab's copy of the history is "fresh" if it reflects all that is       *)
(* stored, "stale" if another tab has written since, "none" if unloaded.   *)
(***************************************************************************)
EXTENDS Naturals, FiniteSets

CONSTANTS
    Tab,
    Modes,         \* "locks" and "lease": what browsers offer
    Crossing,      \* a timeout or message may make a tab acquire once more
                   \* while it acquires, loads or is the writer already
    TakeOverFails, \* the load that follows a take-over may fail
    LateRenewal,   \* a background tab may miss the renewals of its lease
    MaxTimers,     \* bound: pending take-over timeouts of a tab
    MaxOverlap,    \* bound: acquisitions and loads a tab has under way
    MaxReleases    \* bound: overlapping calls of releaseWriter in a tab

ASSUME ModesAssumption == Modes \subseteq {"locks", "lease"}

ASSUME BoundsAssumption == MaxTimers \in Nat /\ MaxReleases \in Nat

VARIABLES
    mode,       \* what this browser offers
    holder,     \* who has the lock, or whom the lease names
    live,       \* the lease has not run out
    open,       \* tabs with a page
    owned,      \* state.writerOwned
    renewing,   \* state.writerRenewTimer is set
    asking,     \* the take-over button is pressed and still disabled
    calls,      \* calls of acquireWriter that wait for the browser
    loads,      \* loads of the history under way
    timers,     \* pending take-over timeouts of 1.5 s
    releases,   \* calls of releaseWriter that are saving
    mail,       \* messages of the channel on their way to the tab
    copy        \* the tab's copy of the history

tabVars == <<mode, holder, live, open, owned, renewing, asking, calls, loads,
          timers, releases, mail, copy>>

right == <<holder, live>>
mine  == <<owned, renewing>>
work  == <<asking, calls, loads, timers, releases>>

NoOne == "no one"
Gone  == "a closed page"    \* its identifier is never used again

ASSUME NamesAssumption == NoOne \notin Tab /\ Gone \notin Tab

Asker == {"click", "again"}      \* the button; a timeout or a message after it
Kind  == {"take-over", "released", "history-changed"}

TabTypeOK ==
    /\ mode \in Modes
    /\ holder \in Tab \cup {NoOne, Gone}
    /\ mode = "locks" => holder # Gone
    /\ live \in BOOLEAN
    /\ open \in SUBSET Tab
    /\ owned \in [Tab -> BOOLEAN]
    /\ renewing \in [Tab -> BOOLEAN]
    /\ asking \in [Tab -> BOOLEAN]
    /\ calls \in [Tab -> SUBSET (Asker \cup {"boot"})]
    /\ loads \in [Tab -> SUBSET {"boot", "take-over"}]
    /\ timers \in [Tab -> 0..MaxTimers]
    /\ releases \in [Tab -> 0..MaxReleases]
    /\ mail \in [Tab -> SUBSET Kind]
    /\ copy \in [Tab -> {"none", "fresh", "stale"}]
    /\ \A t \in Tab \ open :
          ~owned[t] /\ ~asking[t] /\ calls[t] = {} /\ loads[t] = {} /\ mail[t] = {}

TabInit ==
    /\ mode \in Modes
    /\ holder = NoOne /\ live = TRUE
    /\ open = {}
    /\ owned = [t \in Tab |-> FALSE] /\ renewing = [t \in Tab |-> FALSE]
    /\ asking = [t \in Tab |-> FALSE]
    /\ calls = [t \in Tab |-> {}] /\ loads = [t \in Tab |-> {}]
    /\ timers = [t \in Tab |-> 0] /\ releases = [t \in Tab |-> 0]
    /\ mail = [t \in Tab |-> {}]
    /\ copy = [t \in Tab |-> "none"]

-----------------------------------------------------------------------------

\* state.writerReady
Ready(t) == t \in open /\ "boot" \notin calls[t]

Add(f, t, x)  == [f EXCEPT ![t] = @ \cup {x}]
Drop(f, t, x) == [f EXCEPT ![t] = @ \ {x}]

\* postMessage: every other page with a channel hears it.
Tells(t, kind) ==
    [u \in Tab |-> IF u \in open \ {t} THEN mail[u] \cup {kind} ELSE mail[u]]

\* The lock is requested with ifAvailable, and a page that holds it is refused
\* like any other; the lease is given to whom it names already.
Grants(t) ==
    \/ holder = NoOne
    \/ mode = "lease" /\ (holder = t \/ ~live)

\* One more acquisition would meet the tab's own.
Meets(t) ==
    \/ owned[t]
    \/ calls[t] # {}
    \/ loads[t] # {}

\* The bound on overlapping acquisitions and loads.
Idle(t) == Cardinality(calls[t]) + Cardinality(loads[t]) < MaxOverlap

MayAcquire(t) == Idle(t) /\ (Meets(t) => Crossing)

-----------------------------------------------------------------------------
(* Pages.                                                                  *)

\* A page starts with writerOwned set, and asks for the right to write first.
Open(t) ==
    /\ t \notin open
    /\ open' = open \cup {t}
    /\ owned' = [owned EXCEPT ![t] = TRUE]
    /\ calls' = Add(calls, t, "boot")
    /\ UNCHANGED <<mode, right, renewing, asking, loads, timers, releases, mail, copy>>

\* The page goes, or dies: its lock is free, its lease runs out.
Close(t) ==
    /\ t \in open
    /\ open' = open \ {t}
    /\ holder' = IF holder # t THEN holder ELSE IF mode = "locks" THEN NoOne ELSE Gone
    /\ owned' = [owned EXCEPT ![t] = FALSE] /\ renewing' = [renewing EXCEPT ![t] = FALSE]
    /\ asking' = [asking EXCEPT ![t] = FALSE]
    /\ calls' = [calls EXCEPT ![t] = {}] /\ loads' = [loads EXCEPT ![t] = {}]
    /\ timers' = [timers EXCEPT ![t] = 0] /\ releases' = [releases EXCEPT ![t] = 0]
    /\ mail' = [mail EXCEPT ![t] = {}]
    /\ copy' = [copy EXCEPT ![t] = "none"]
    /\ UNCHANGED <<mode, live>>

Expire ==
    /\ mode = "lease" /\ live
    /\ \/ holder = Gone /\ holder' = NoOne /\ UNCHANGED live
       \/ LateRenewal /\ holder \in Tab /\ live' = FALSE /\ UNCHANGED holder
    /\ UNCHANGED <<mode, open, mine, work, mail, copy>>

-----------------------------------------------------------------------------
(* acquireWriter                                                           *)

\* acquireWriter learns whether it got the right.
Decided(t, granted) ==
    /\ holder' = IF granted THEN t ELSE holder
    /\ live' = IF granted THEN TRUE ELSE live
    /\ owned' = [owned EXCEPT ![t] = granted]
    /\ renewing' = IF granted /\ mode = "lease"
                   THEN [renewing EXCEPT ![t] = TRUE] ELSE renewing

\* refreshStoredHistory begins: the threads are dropped.
Reloads(t, origin) ==
    /\ loads' = Add(loads, t, origin)
    /\ copy' = [copy EXCEPT ![t] = "none"]

\* A booting page loads the history as the writer or as a reader.
BootDecided(t) ==
    /\ "boot" \in calls[t]
    /\ Decided(t, Grants(t))
    /\ calls' = Drop(calls, t, "boot")
    /\ Reloads(t, "boot")
    /\ UNCHANGED <<mode, open, asking, timers, releases, mail>>

\* Mutation of Acquired: the new writer keeps what it has loaded as a reader.
AcquiredWithCopy(t, origin) ==
    /\ origin \in calls[t] /\ Grants(t)
    /\ Decided(t, TRUE)
    /\ calls' = Drop(calls, t, origin)
    /\ asking' = [asking EXCEPT ![t] = FALSE]
    /\ UNCHANGED <<mode, open, loads, timers, releases, mail, copy>>

Acquired(t, origin) ==
    /\ origin \in calls[t] /\ Grants(t)
    /\ Decided(t, TRUE)
    /\ calls' = Drop(calls, t, origin)
    /\ Reloads(t, "take-over")
    /\ UNCHANGED <<mode, open, asking, timers, releases, mail>>

\* A refused click asks the writer to give up and waits 1.5 s; after a refusal
\* on its message or at the timeout the button may be pressed again.
NotAcquired(t, origin) ==
    /\ origin \in calls[t] /\ ~Grants(t)
    /\ Decided(t, FALSE)
    /\ calls' = Drop(calls, t, origin)
    /\ IF origin = "click"
       THEN /\ timers[t] < MaxTimers
            /\ timers' = [timers EXCEPT ![t] = @ + 1]
            /\ mail' = Tells(t, "take-over")
            /\ UNCHANGED asking
       ELSE /\ asking' = [asking EXCEPT ![t] = FALSE]
            /\ UNCHANGED <<timers, mail>>
    /\ UNCHANGED <<mode, open, loads, releases, copy>>

LoadEnds(t, origin) ==
    /\ origin \in loads[t]
    /\ loads' = Drop(loads, t, origin)
    /\ copy' = [copy EXCEPT ![t] = "fresh"]
    /\ asking' = [asking EXCEPT ![t] = @ /\ origin = "boot"]
    /\ UNCHANGED <<mode, right, open, mine, calls, timers, releases, mail>>

\* The characters cannot be fetched: a button that is disabled stays so.
LoadFails(t, origin) ==
    /\ origin \in loads[t]
    /\ origin = "take-over" => TakeOverFails
    /\ loads' = Drop(loads, t, origin)
    /\ UNCHANGED <<mode, right, open, mine, asking, calls, timers, releases, mail, copy>>

-----------------------------------------------------------------------------
(* Asking for the session, and giving it up.                               *)

\* The banner with the button is shown to a tab that is not the writer.
Click(t) ==
    /\ Ready(t) /\ ~owned[t] /\ ~asking[t]
    /\ MayAcquire(t)
    /\ asking' = [asking EXCEPT ![t] = TRUE]
    /\ calls' = Add(calls, t, "click")
    /\ UNCHANGED <<mode, right, open, mine, loads, timers, releases, mail, copy>>

TimerFires(t) ==
    /\ timers[t] > 0
    /\ asking[t] => MayAcquire(t)
    /\ timers' = [timers EXCEPT ![t] = @ - 1]
    /\ calls' = IF asking[t] THEN Add(calls, t, "again") ELSE calls
    /\ UNCHANGED <<mode, right, open, mine, asking, loads, releases, mail, copy>>

\* Mutation of HearTakeOver: the lock is released before the saves.
HearTakeOverEarly(t) ==
    /\ "take-over" \in mail[t]
    /\ mail' = Drop(mail, t, "take-over")
    /\ IF owned[t]
       THEN /\ releases[t] < MaxReleases /\ releases' = [releases EXCEPT ![t] = @ + 1]
            /\ holder' = IF holder = t THEN NoOne ELSE holder
       ELSE UNCHANGED <<releases, holder>>
    /\ UNCHANGED <<mode, live, open, mine, asking, calls, loads, timers, copy>>

HearTakeOver(t) ==
    /\ "take-over" \in mail[t]
    /\ mail' = Drop(mail, t, "take-over")
    /\ IF owned[t]
       THEN releases[t] < MaxReleases /\ releases' = [releases EXCEPT ![t] = @ + 1]
       ELSE UNCHANGED releases
    /\ UNCHANGED <<mode, right, open, mine, asking, calls, loads, timers, copy>>

HearReleased(t) ==
    /\ "released" \in mail[t]
    /\ asking[t] => MayAcquire(t)
    /\ mail' = Drop(mail, t, "released")
    /\ calls' = IF asking[t] THEN Add(calls, t, "again") ELSE calls
    /\ UNCHANGED <<mode, right, open, mine, asking, loads, timers, releases, copy>>

\* A reader loads the history anew.  It cannot write, and drops the copy again
\* when it becomes the writer, so its refresh is one step.
HearChange(t) ==
    /\ "history-changed" \in mail[t]
    /\ mail' = Drop(mail, t, "history-changed")
    /\ copy' = IF owned[t] THEN copy ELSE [copy EXCEPT ![t] = "fresh"]
    /\ UNCHANGED <<mode, right, open, mine, asking, calls, loads, timers, releases>>

\* Mutation of ReleaseEnds: the function that releases the lock is lost.
ReleaseKeepsRight(t) ==
    /\ releases[t] > 0
    /\ releases' = [releases EXCEPT ![t] = @ - 1]
    /\ owned' = [owned EXCEPT ![t] = FALSE]
    /\ renewing' = [renewing EXCEPT ![t] = FALSE]
    /\ copy' = [copy EXCEPT ![t] = "none"]
    /\ mail' = Tells(t, "released")
    /\ UNCHANGED <<mode, right, open, asking, calls, loads, timers>>

\* releaseWriter after its saves: the tab may not write its copy any more, the
\* right to write is free, and the others hear of it.
ReleaseEnds(t) ==
    /\ releases[t] > 0
    /\ releases' = [releases EXCEPT ![t] = @ - 1]
    /\ owned' = [owned EXCEPT ![t] = FALSE]
    /\ renewing' = [renewing EXCEPT ![t] = FALSE]
    /\ copy' = [copy EXCEPT ![t] = "none"]
    /\ holder' = IF holder = t THEN NoOne ELSE holder
    /\ mail' = Tells(t, "released")
    /\ UNCHANGED <<mode, live, open, asking, calls, loads, timers>>

\* The renewal of a lease: a tab that has lost it gives up.
Renew(t) ==
    /\ renewing[t]
    /\ IF Grants(t)
       THEN holder' = t /\ live' = TRUE /\ UNCHANGED releases
       ELSE /\ releases[t] < MaxReleases
            /\ releases' = [releases EXCEPT ![t] = @ + 1]
            /\ UNCHANGED right
    /\ UNCHANGED <<mode, open, mine, asking, calls, loads, timers, mail, copy>>

-----------------------------------------------------------------------------
(* Writing.                                                                *)

\* What the tab stores is what it has; the copies of the others fall behind.
Stored(t) ==
    [u \in Tab |-> IF u = t THEN "fresh" ELSE IF copy[u] = "none" THEN "none" ELSE "stale"]

\* dbPutThread: a thread is stored by the writer that has loaded it.
PutThread(t) ==
    /\ Ready(t) /\ owned[t] /\ copy[t] # "none"
    /\ copy' = Stored(t)
    /\ UNCHANGED <<mode, right, open, mine, work, mail>>

\* The history is deleted or cleared, and the readers are told; clearing writes
\* the lease again.
ClearHistory(t) ==
    /\ Ready(t) /\ owned[t] /\ copy[t] # "none"
    /\ copy' = Stored(t)
    /\ mail' = Tells(t, "history-changed")
    /\ \/ UNCHANGED right
       \/ mode = "lease" /\ holder' = t /\ live' = TRUE
    /\ UNCHANGED <<mode, open, mine, work>>

-----------------------------------------------------------------------------

Hears(t) == HearTakeOver(t) \/ HearReleased(t) \/ HearChange(t)

Decides(t) == BootDecided(t) \/ \E o \in Asker : Acquired(t, o) \/ NotAcquired(t, o)

Loads(t) == \E o \in {"boot", "take-over"} : LoadEnds(t, o) \/ LoadFails(t, o)

TabNext ==
    \/ Expire
    \/ \E t \in Tab :
          \/ Open(t) \/ Close(t) \/ Click(t) \/ PutThread(t) \/ ClearHistory(t)
          \/ Decides(t) \/ Loads(t) \/ Hears(t) \/ TimerFires(t)
          \/ ReleaseEnds(t) \/ Renew(t)

TabSpec == TabInit /\ [][TabNext]_tabVars

\* The browser answers, delivers and fires; a load has its timeouts and a save
\* is a local transaction; the lease of a closed page runs out.
FairSpec ==
    /\ TabSpec
    /\ WF_tabVars(Expire)
    /\ \A t \in Tab :
          /\ WF_tabVars(Decides(t) \/ Loads(t) \/ TimerFires(t))
          /\ WF_tabVars(HearTakeOver(t) \/ HearReleased(t) \/ ReleaseEnds(t))

-----------------------------------------------------------------------------
(* Properties.                                                             *)

\* At most one tab believes it may write, although the right is asked for,
\* given up and taken over by messages that cross.
OneWriter ==
    \A t, u \in Tab : Ready(t) /\ Ready(u) /\ owned[t] /\ owned[u] => t = u

\* The writer never writes, and on giving up never saves, a history that lacks
\* what another tab has stored: whoever becomes the writer has loaded it anew.
WriterIsCurrent ==
    \A t \in Tab : Ready(t) /\ owned[t] => copy[t] # "stale"

\* While a user goes on asking for the session, some tab goes on being its
\* writer: crossing messages, closing tabs and slow saves never leave the
\* visitor without a tab that can write.
SessionIsUsable ==
    \A t \in Tab : []<>asking[t] => []<>(\E u \in Tab : Ready(u) /\ owned[u])

=============================================================================
