--------------------------- MODULE Announcements ----------------------------
(***************************************************************************)
(* Messages to many users: the owner's announcements, announcements of new *)
(* offers, and the paid campaigns of platforms.  The scheduler's cycle     *)
(* sends whatever is due, and a user who opens the menu is sent what is    *)
(* active, each in one transaction, with one row per notice and user       *)
(* (unique) that says whether the message was sent.                        *)
(*                                                                         *)
(* process_next_delivery commits in the middle of a cycle and gives the    *)
(* advisory lock away (SchedulerCycle), so the cycles of two replicas do   *)
(* overlap here.                                                           *)
(***************************************************************************)
EXTENDS Naturals, FiniteSets, Owners

CONSTANTS
  Recipients,        (* active users, by id                                 *)
  Notices,           (* rows of Announcement                                *)
  Ads,               (* those of a paid campaign                            *)
  Cycles,            (* replicas whose scheduler runs                       *)
  MaxUnreachable,    (* bound: calls of Telegram that raise                 *)
  MaxBroken          (* bound: transactions lost with their process         *)

ASSUME AnnouncementAssumption ==
  /\ Recipients \subseteq Nat /\ IsFiniteSet(Recipients)
  /\ Ads \subseteq Notices
  /\ Cycles \cap Recipients = {} /\ Nobody \notin Cycles \cup Recipients
  /\ MaxUnreachable \in Nat /\ MaxBroken \in Nat

(* Transactions that send: a cycle, or a user's visit of the menu. *)
Senders == Cycles \cup Recipients
Copies == Notices \X Recipients

VARIABLES
  notice,            (* Announcement.status, "none" before there is one     *)
  over,              (* notices whose ends_at has passed                    *)
  ad,                (* AdCampaign.status                                   *)
  row,               (* AnnouncementDelivery: is there a row, was it sent?  *)
  holder,            (* the transaction that wrote the row and is open yet  *)
  draft,             (* and what it wrote                                   *)
  open,              (* the open transactions, see Idle and Opened          *)
  heard,             (* messages somebody has in his chat                   *)
  booked,            (* messages sent, but in transactions rolled back      *)
  lost,              (* messages accepted by a call that raised             *)
  unreachable, broken

announcementVars ==
  <<notice, over, ad, row, holder, draft, open, heard, booked, lost, unreachable, broken>>

Idle == [busy |-> FALSE, todo |-> {}, loaded |-> {}, ended |-> {}, blocked |-> {}]

(* A transaction with its copies to send, the notices that it loaded as    *)
(* "scheduled" and those whose end it found passed; "blocked" is the copy  *)
(* whose INSERT waits for another one.                                     *)
Opened(todo, loaded, ended) ==
  [busy |-> TRUE, todo |-> todo, loaded |-> loaded, ended |-> ended, blocked |-> {}]

AnnouncementTypeOK ==
  /\ notice \in [Notices -> {"none", "scheduled", "active", "finished"}]
  /\ over \subseteq Notices
  /\ ad \in [Ads -> {"awaiting_payment", "under_review", "active", "rejected"}]
  /\ row \in [Copies -> {"none", "unsent", "sent"}]
  /\ holder \in [Copies -> Senders \cup {Nobody}]
  /\ draft \in [Copies -> {"none", "unsent", "sent"}]
  /\ open \in [Senders -> [busy : BOOLEAN, todo : SUBSET Copies, loaded : SUBSET Notices,
                           ended : SUBSET Notices, blocked : SUBSET Copies]]
  /\ heard \subseteq Copies
  /\ booked \in [Copies -> Nat] /\ lost \in [Copies -> Nat]
  /\ unreachable \in 0..MaxUnreachable /\ broken \in 0..MaxBroken

AnnouncementInit ==
  /\ notice = [n \in Notices |-> "none"]
  /\ over = {}
  /\ ad = [n \in Ads |-> "awaiting_payment"]
  /\ row = [k \in Copies |-> "none"]
  /\ holder = [k \in Copies |-> Nobody]
  /\ draft = [k \in Copies |-> "none"]
  /\ open = [s \in Senders |-> Idle]
  /\ heard = {}
  /\ booked = [k \in Copies |-> 0] /\ lost = [k \in Copies |-> 0]
  /\ unreachable = 0 /\ broken = 0

-----------------------------------------------------------------------------
(* Notices and campaigns                                                   *)

sendVars == <<row, holder, draft, open, heard, booked, lost, unreachable, broken>>

(* The announcement of a new offer. *)
Schedule(n) ==
  /\ n \notin Ads /\ notice[n] = "none"
  /\ notice' = [notice EXCEPT ![n] = "scheduled"]
  /\ UNCHANGED <<over, ad, sendVars>>

(* announcement_confirm creates and dispatches in one transaction, before  *)
(* anybody else can see the notice.                                        *)
Publish(n) ==
  \E reached \in SUBSET Recipients : \E served \in SUBSET reached :
    /\ n \notin Ads /\ notice[n] = "none"
    /\ unreachable + Cardinality(Recipients \ served) <= MaxUnreachable
    /\ unreachable' = unreachable + Cardinality(Recipients \ served)
    /\ notice' = [notice EXCEPT ![n] = "active"]
    /\ row' = [k \in Copies |-> IF k[1] # n THEN row[k]
                                ELSE IF k[2] \in served THEN "sent" ELSE "unsent"]
    /\ heard' = heard \cup ({n} \X reached)
    /\ booked' = [k \in Copies |-> IF k \in {n} \X reached THEN 1 ELSE booked[k]]
    /\ lost' = [k \in Copies |-> IF k \in {n} \X (reached \ served) THEN 1 ELSE lost[k]]
    /\ UNCHANGED <<over, ad, holder, draft, open, broken>>

SubmitAdProof(n) ==
  /\ ad[n] = "awaiting_payment"
  /\ ad' = [ad EXCEPT ![n] = "under_review"]
  /\ UNCHANGED <<notice, over, sendVars>>

(* approve_ad_campaign *)
ApproveAd(n) ==
  /\ ad[n] = "under_review"
  /\ ad' = [ad EXCEPT ![n] = "active"]
  /\ notice' = [notice EXCEPT ![n] = "active"]
  /\ UNCHANGED <<over, sendVars>>

RejectAd(n) ==
  /\ ad[n] \in {"awaiting_payment", "under_review"}
  /\ ad' = [ad EXCEPT ![n] = "rejected"]
  /\ UNCHANGED <<notice, over, sendVars>>

EndPasses(n) ==
  /\ notice[n] # "none" /\ n \notin over
  /\ over' = over \cup {n}
  /\ UNCHANGED <<notice, ad, sendVars>>

(* stop_by_id *)
Stop(n) ==
  /\ notice[n] \in {"scheduled", "active"}
  /\ notice' = [notice EXCEPT ![n] = "finished"]
  /\ UNCHANGED <<over, ad, sendVars>>

-----------------------------------------------------------------------------
(* A transaction begins                                                    *)

Due == {n \in Notices : notice[n] \in {"scheduled", "active"}}

(* What process_ad_campaigns, later in the cycle, has to end. *)
EndedAds == {n \in Ads : ad[n] = "active" /\ n \in over}

(* A cycle that finds nothing here changes nothing. *)
Agenda == Due \cup EndedAds

Open(s, todo, loaded, ended) ==
  /\ ~open[s].busy
  /\ open' = [open EXCEPT ![s] = Opened(todo, loaded, ended)]
  /\ UNCHANGED <<notice, over, ad, row, holder, draft, heard, booked, lost, unreachable, broken>>

BeginDispatch_OnlyScheduled(r) ==
  LET sending == {n \in Due \ over : notice[n] = "scheduled"}
  IN Agenda # {} /\ Open(r, sending \X Recipients, sending, Due \cap over)

(* process_due.  recipients() knows no scope "campaign" and answers with   *)
(* all the active users.                                                   *)
BeginDispatch(r) ==
  LET sending == Due \ over
      scheduled == {n \in sending : notice[n] = "scheduled"}
  IN Agenda # {} /\ Open(r, sending \X Recipients, scheduled, Due \cap over)

(* send_active_for_user; to active_for_user a campaign's scope matches     *)
(* nobody.                                                                 *)
Visit(u) ==
  LET shown == {n \in Notices \ (Ads \cup over) : notice[n] = "active"}
  IN shown # {} /\ Open(u, shown \X {u}, {}, {})

-----------------------------------------------------------------------------
(* send_one                                                                *)

(* The users of a notice are visited by id. *)
UpNext(s) == {k \in open[s].todo : \A j \in open[s].todo : j[1] = k[1] => k[2] <= j[2]}

Done(s, k) == open' = [open EXCEPT ![s].todo = @ \ {k}, ![s].blocked = {}]

Reaches(s, k) ==
  /\ heard' = heard \cup {k}
  /\ booked' = [booked EXCEPT ![k] = @ + 1]
  /\ draft' = [draft EXCEPT ![k] = "sent"]
  /\ UNCHANGED <<lost, unreachable>>

(* send_one catches whatever the call raises, also a timeout that follows  *)
(* the acceptance of the message.                                          *)
Raises(k) ==
  /\ unreachable < MaxUnreachable /\ unreachable' = unreachable + 1
  /\ draft' = [draft EXCEPT ![k] = "unsent"]
  /\ \/ UNCHANGED <<heard, booked, lost>>
     \/ /\ heard' = heard \cup {k}
        /\ booked' = [booked EXCEPT ![k] = @ + 1]
        /\ lost' = [lost EXCEPT ![k] = @ + 1]

(* The row of the copy is free: the message goes out, the call raises, or  *)
(* it was sent before.                                                     *)
SendOne_Unconditional(s, k) ==
  /\ holder[k] = Nobody
  /\ open[s].blocked = {}
  /\ Done(s, k)
  /\ Reaches(s, k) \/ Raises(k)
  /\ holder' = [holder EXCEPT ![k] = s]
  /\ UNCHANGED <<notice, over, ad, row, broken>>

SendOne(s, k) ==
  /\ holder[k] = Nobody
  /\ open[s].blocked # {} => row[k] = "none"
  /\ Done(s, k)
  /\ IF row[k] = "sent"
     THEN UNCHANGED <<heard, booked, lost, draft, unreachable, holder>>
     ELSE /\ Reaches(s, k) \/ Raises(k)
          /\ holder' = [holder EXCEPT ![k] = s]
  /\ UNCHANGED <<notice, over, ad, row, broken>>

(* Another transaction holds the row.  A SELECT ... FOR UPDATE waits and   *)
(* then reads what was committed, but an INSERT that waits fails if the    *)
(* other one commits.                                                      *)
Block(s, k) ==
  /\ holder[k] \notin {Nobody, s}
  /\ row[k] = "none" /\ open[s].blocked = {}
  /\ open' = [open EXCEPT ![s].blocked = {k}]
  /\ UNCHANGED <<notice, over, ad, row, holder, draft, heard, booked, lost, unreachable, broken>>

-----------------------------------------------------------------------------
(* A transaction ends                                                      *)

WrittenBy(s) == {k \in Copies : holder[k] = s}

Release(s) ==
  /\ holder' = [k \in Copies |-> IF k \in WrittenBy(s) THEN Nobody ELSE holder[k]]
  /\ draft' = [k \in Copies |-> IF k \in WrittenBy(s) THEN "none" ELSE draft[k]]
  /\ open' = [open EXCEPT ![s] = Idle]

RollBack(s) ==
  /\ Release(s)
  /\ booked' = [k \in Copies |->
       IF k \in WrittenBy(s) /\ draft[k] = "sent" THEN booked[k] - 1 ELSE booked[k]]
  /\ UNCHANGED <<notice, over, ad, row, heard, lost, unreachable>>

(* The end of a campaign raises, as AnnouncementStatus has no ENDED, and   *)
(* the cycle never commits.                                                *)
Commit(s) ==
  /\ open[s].busy /\ open[s].todo = {}
  /\ s \in Cycles => EndedAds = {}
  /\ Release(s)
  /\ row' = [k \in Copies |-> IF k \in WrittenBy(s) THEN draft[k] ELSE row[k]]
  /\ notice' = [n \in Notices |->
       IF n \in open[s].loaded THEN "active"
       ELSE IF n \in open[s].ended THEN "finished"
       ELSE notice[n]]
  /\ UNCHANGED <<over, ad, heard, booked, lost, unreachable, broken>>

(* IntegrityError: the copy was inserted by the other transaction. *)
Conflict(s) == \E k \in open[s].blocked : holder[k] = Nobody /\ row[k] # "none"

WaitsFor(s) == {holder[k] : k \in UpNext(s)} \ {Nobody, s}

Deadlocked(s) == \E t \in WaitsFor(s) : s \in WaitsFor(t)

Fails(s) ==
  /\ open[s].busy
  /\ \/ Conflict(s) \/ Deadlocked(s)
     \/ open[s].todo = {} /\ s \in Cycles /\ EndedAds # {}
  /\ RollBack(s)
  /\ UNCHANGED broken

Break(s) ==
  /\ open[s].busy /\ broken < MaxBroken
  /\ broken' = broken + 1
  /\ RollBack(s)

AnnouncementNext ==
  \/ \E n \in Notices : Schedule(n) \/ Publish(n) \/ EndPasses(n) \/ Stop(n)
  \/ \E n \in Ads : SubmitAdProof(n) \/ ApproveAd(n) \/ RejectAd(n)
  \/ \E r \in Cycles : BeginDispatch(r)
  \/ \E u \in Recipients : Visit(u)
  \/ \E s \in Senders :
       \/ Commit(s) \/ Fails(s) \/ Break(s)
       \/ \E k \in UpNext(s) : SendOne(s, k) \/ Block(s, k)

(* What a transaction does next, once it began. *)
Goes(s) ==
  Commit(s) \/ Fails(s) \/ \E k \in UpNext(s) : SendOne(s, k) \/ Block(s, k)

(* The scheduler repeats its cycle, and a transaction goes on until it     *)
(* ends.                                                                   *)
AnnouncementFairness ==
  /\ \A r \in Cycles : SF_announcementVars(BeginDispatch(r))
  /\ \A s \in Senders : WF_announcementVars(Goes(s))

AnnouncementSpec == AnnouncementInit /\ [][AnnouncementNext]_announcementVars
AnnouncementFairSpec == AnnouncementSpec /\ AnnouncementFairness

-----------------------------------------------------------------------------
(* Properties.                                                             *)

(* Nobody is sent a notice twice, by two cycles or by a cycle and his own  *)
(* visit of the menu, unless the transaction that sent the first copy was  *)
(* rolled back, or its call raised although Telegram had accepted it.      *)
AnnouncedOnce == \A k \in Copies : booked[k] <= 1 + lost[k]

(* A notice that is due reaches everybody, also who could not be reached   *)
(* the first time, until it ends.                                          *)
ReachesEverybody ==
  \A k \in Copies :
    notice[k[1]] \in {"scheduled", "active"}
      ~> (k \in heard \/ notice[k[1]] = "finished" \/ k[1] \in over)

(* "Write the time of the advertisement in hours, from 1 to 2160": a       *)
(* campaign ends with the time that was paid for.                          *)
AdsEnd == \A n \in Ads : n \in over ~> ad[n] # "active"
=============================================================================
