----------------------------- MODULE LiveStream -----------------------------
(***************************************************************************)
(* Live queries, from the resolvers to the browsers that watch.            *)
(*                                                                         *)
(* The hub holds the viewers.  A resolver learns their filters by a long   *)
(* poll that is answered when they are not those it has, taps the queries  *)
(* that some filter wants, and pushes them in batches; the hub hands each  *)
(* to the viewers that want it.  Whatever is full drops what comes.        *)
(*                                                                         *)
(* A query is of a kind, and the control plane labels it with a content:   *)
(* a resolver cannot apply that part of a filter.  A version stands for    *)
(* the set of filters it is the hash of.                                   *)
(***************************************************************************)
EXTENDS Naturals, Sequences, FiniteSets, SequencesExt, Selection

CONSTANTS
  Resolvers, Viewers,
  Nodes,            \* the nodes a viewer may name, resolvers or not
  Kinds, Contents,  \* what filters select by
  Unlabelled,       \* no content yet; no content selected
  NoVersion,        \* have = ""
  LiveBuffer,       \* liveBuffer
  LiveSubQueue,     \* liveSubQueue
  MaxQueries        \* bound: queries a resolver logs

Filters == [kinds : (SUBSET Kinds) \ {{}}, content : Contents \cup {Unlabelled}]

ASSUME LiveAssumption ==
  /\ Unlabelled \notin Contents /\ LiveBuffer \in Nat /\ LiveSubQueue \in Nat /\ MaxQueries \in Nat
  /\ \A fs \in SUBSET Filters : fs # NoVersion

NoSub   == [nodes |-> {}, f |-> [kinds |-> {}, content |-> Unlabelled], ch |-> <<>>, on |-> FALSE, allowed |-> TRUE]

VARIABLES
  subs,      \* the viewers' subscriptions
  polls,     \* the long polls: what the resolver has, and whether the hub's channel was closed since
  have, tap, \* what each resolver has, and the filters it taps with
  buffer, batch,   \* its tapped queries, and the batch on its way
  logged, anonymous,
  shown      \* what each viewer got while it is on

lvVars == <<subs, polls, have, tap, buffer, batch, logged, anonymous, shown>>

\* Match: an unlabelled query passes, for the control plane to decide.
Match(f, e) == e.kind \in f.kinds /\ (f.content = Unlabelled \/ e.content \in {Unlabelled, f.content})
watches(v, r) == subs[v].on /\ (subs[v].nodes = {} \/ r \in subs[v].nodes)

\* state: NewLiveState makes one set of what the viewers select.
state(r) == {subs[v].f : v \in {w \in Viewers : watches(w, r)}}

LvInit ==
  /\ subs = [v \in Viewers |-> NoSub] /\ polls = [r \in Resolvers |-> "none"]
  /\ have = [r \in Resolvers |-> NoVersion] /\ tap = [r \in Resolvers |-> {}]
  /\ buffer = [r \in Resolvers |-> <<>>] /\ batch = [r \in Resolvers |-> <<>>]
  /\ logged = 0 /\ anonymous = FALSE /\ shown = [v \in Viewers |-> {}]

-----------------------------------------------------------------------------
(* The hub and the viewers.                                                *)

\* Changed: nobody is woken.
WakesNobody(ps) == ps

notify(ps) == [r \in Resolvers |-> IF ps[r] = "wait" THEN "woken" ELSE ps[r]]

Streams == UNCHANGED <<have, tap, buffer, batch, logged>>

add(v) ==
  /\ ~subs[v].on
  /\ \E nodes \in SUBSET Nodes, f \in Filters :
       subs' = [subs EXCEPT ![v] = [NoSub EXCEPT !.nodes = nodes, !.f = f, !.on = TRUE]]
  /\ polls' = notify(polls) /\ shown' = [shown EXCEPT ![v] = {}]
  /\ Streams /\ UNCHANGED anonymous

\* The browser leaves, or the control plane shuts down.
remove(v) ==
  /\ subs[v].on /\ subs' = [subs EXCEPT ![v] = NoSub] /\ polls' = notify(polls)
  /\ shown' = [shown EXCEPT ![v] = {}] /\ Streams /\ UNCHANGED anonymous

\* streamQueryLog: everything that is queued is sent.
streamQueryLog(v) ==
  /\ subs[v].ch # <<>> /\ subs' = [subs EXCEPT ![v].ch = <<>>]
  /\ shown' = [shown EXCEPT ![v] = @ \cup ToSet(subs[v].ch)]
  /\ Streams /\ UNCHANGED <<polls, anonymous>>

\* The session ends or the token is revoked; the next ping ends the stream.
Revoked(v) ==
  /\ subs[v].on /\ subs[v].allowed /\ subs' = [subs EXCEPT ![v].allowed = FALSE]
  /\ Streams /\ UNCHANGED <<polls, anonymous, shown>>
stillAuthenticated(v) == ~subs[v].allowed /\ remove(v)

Anonymizes == /\ anonymous' = ~anonymous /\ Streams /\ UNCHANGED <<subs, polls, shown>>

-----------------------------------------------------------------------------
(* The resolver's poll, clusterLiveState.                                  *)

Hub == UNCHANGED <<subs, buffer, batch, logged, anonymous, shown>>

fetchLive(r) == polls[r] = "none" /\ polls' = [polls EXCEPT ![r] = "look"] /\ Hub /\ UNCHANGED <<have, tap>>

\* What is tapped from now on.
setFilters(r, fs) == tap' = [tap EXCEPT ![r] = fs]

\* The hub's state and its channel are read in one section: the poll waits on
\* the channel that the next change closes.
clusterLiveState(r) ==
  /\ polls[r] \in {"look", "woken"}
  /\ polls' = [polls EXCEPT ![r] = IF state(r) = have[r] THEN "wait" ELSE "none"]
  /\ IF state(r) = have[r] THEN UNCHANGED <<have, tap>>
     ELSE have' = [have EXCEPT ![r] = state(r)] /\ setFilters(r, state(r))
  /\ Hub

\* The poll was held long enough, and is answered with the state it looked at.
Unchanged(r) == polls[r] \in {"wait", "woken"}
                /\ polls' = [polls EXCEPT ![r] = "none"] /\ Hub /\ UNCHANGED <<have, tap>>

\* It fails: the resolver taps nothing that could not be delivered.
runLive(r) ==
  /\ polls[r] # "none" /\ polls' = [polls EXCEPT ![r] = "none"]
  /\ have' = [have EXCEPT ![r] = NoVersion] /\ setFilters(r, {})
  /\ Hub

-----------------------------------------------------------------------------
(* The queries.                                                            *)

Viewed == UNCHANGED <<polls, have, tap>>

\* LiveTap.Write, on the way of a DNS answer.
Write(r) ==
  /\ logged < MaxQueries /\ logged' = logged + 1
  /\ \E k \in Kinds :
       LET e == [node |-> r, kind |-> k, content |-> Unlabelled]
       IN  buffer' = IF (\E f \in tap[r] : Match(f, e)) /\ Len(buffer[r]) < LiveBuffer
                     THEN [buffer EXCEPT ![r] = Append(@, e)] ELSE buffer
  /\ Viewed /\ UNCHANGED <<subs, batch, anonymous, shown>>

pushLive(r) ==
  /\ batch[r] = <<>> /\ buffer[r] # <<>>
  /\ batch' = [batch EXCEPT ![r] = buffer[r]] /\ buffer' = [buffer EXCEPT ![r] = <<>>]
  /\ Viewed /\ UNCHANGED <<subs, logged, anonymous, shown>>

PushFails(r) == /\ batch[r] # <<>> /\ batch' = [batch EXCEPT ![r] = <<>>]
                /\ Viewed /\ UNCHANGED <<subs, buffer, logged, anonymous, shown>>

Wanted(v, e) == watches(v, e.node) /\ Match(subs[v].f, e)

\* publish, under the hub's mutex: a viewer whose queue is full misses the rest.
publish(entries) ==
  [v \in Viewers |->
     LET wants == Chosen(entries, {i \in DOMAIN entries : Wanted(v, entries[i])})
         room  == LiveSubQueue - Len(subs[v].ch)
     IN  [subs[v] EXCEPT !.ch = @ \o SubSeq(wants, 1, IF Len(wants) < room THEN Len(wants) ELSE room)]]

\* clusterLivePush: labels, and nothing for anybody in anonymous mode.
clusterLivePush(r) ==
  /\ batch[r] # <<>> /\ batch' = [batch EXCEPT ![r] = <<>>]
  /\ \E label \in [Kinds -> Contents] :
       subs' = IF anonymous THEN subs
               ELSE publish([i \in DOMAIN batch[r] |-> [batch[r][i] EXCEPT !.content = label[batch[r][i].kind]]])
  /\ Viewed /\ UNCHANGED <<buffer, logged, anonymous, shown>>

LvNext ==
  \/ \E v \in Viewers : add(v) \/ remove(v) \/ streamQueryLog(v) \/ Revoked(v) \/ stillAuthenticated(v)
  \/ \E r \in Resolvers : \/ fetchLive(r) \/ clusterLiveState(r) \/ Unchanged(r) \/ runLive(r)
                          \/ Write(r) \/ pushLive(r) \/ PushFails(r) \/ clusterLivePush(r)
  \/ Anonymizes

LvSpec == LvInit /\ [][LvNext]_lvVars

-----------------------------------------------------------------------------
(* Properties.                                                             *)

\* A poll that waits has what the viewers select by now: no change of the
\* viewers falls between reading the state and waiting for the next change.
NoMissedChange == \A r \in Resolvers : polls[r] = "wait" => have[r] = state(r)

\* A viewer is queued and shown only queries of the nodes it watches that match
\* its own filter, content and all, though the resolver tapped them for the
\* filters of others or for viewers that are gone.
OnlyWhatIsWatched == \A v \in Viewers : \A e \in ToSet(subs[v].ch) \cup shown[v] :
  /\ watches(v, e.node)
  /\ e.kind \in subs[v].f.kinds /\ subs[v].f.content \in {Unlabelled, e.content}

\* A resolver that does not know what is watched taps nothing.
TapsWhatItHas == \A r \in Resolvers : tap[r] = IF have[r] = NoVersion THEN {} ELSE have[r]

\* The parts above, of the versions that travel and the queries that are tapped.
LiveInv == NoMissedChange /\ OnlyWhatIsWatched /\ TapsWhatItHas
=============================================================================
