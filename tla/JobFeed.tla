-------------------------------- MODULE JobFeed --------------------------------
(***************************************************************************)
(* What the miners are promised about the work they are given in one       *)
(* session: every job they see was offered by the pool (or by the          *)
(* job-declaration client in its place), is seen once, with the block it   *)
(* was made for, never before that block was announced and never after a   *)
(* job for a later block.  Offered jobs may be left out.                   *)
(***************************************************************************)
EXTENDS Integers, Sequences

VARIABLES
    offers,  \* the block each offered job is made for
    tip,     \* number of the block announced last
    work,    \* the job the miners work on, and the block they work on
    seen     \* the jobs that were shown

feedVars == <<offers, tip, work, seen>>

NoWork == [job |-> 0, block |-> 0]

FeedInit ==
    /\ offers = <<>>
    /\ tip = 0
    /\ work = NoWork
    /\ seen = {}

\* A job for the block announced last, or ahead of the next one.
Offer ==
    /\ \E block \in {tip, tip + 1} : offers' = Append(offers, block)
    /\ UNCHANGED <<tip, work, seen>>

Advance ==
    /\ tip' = tip + 1
    /\ UNCHANGED <<offers, work, seen>>

Show(job) ==
    /\ job \notin seen
    /\ offers[job] \in work.block .. tip
    /\ work' = [job |-> job, block |-> offers[job]]
    /\ seen' = seen \cup {job}
    /\ UNCHANGED <<offers, tip>>

\* A new session: another translator, which knows nothing of the jobs before.
NewSession ==
    /\ offers' = <<>>
    /\ tip' = 0
    /\ work' = NoWork
    /\ seen' = {}

FeedNext == Offer \/ Advance \/ (\E job \in DOMAIN offers : Show(job)) \/ NewSession

FeedSpec == FeedInit /\ [][FeedNext]_feedVars

=============================================================================
