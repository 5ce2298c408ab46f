---------------------------- MODULE SessionProofs ----------------------------
(***************************************************************************)
(* DownloadsPlaced and VisitedKept of SessionTask, for any URIs, servers,  *)
(* files, forms, locations and numbers of redirects, when the user answers *)
(* a question before doing anything else.                                  *)
(*                                                                         *)
(* The invariant (SessionInv): who waits for what (Owners) decides which   *)
(* downloads are in the lists of the connections (Placed), the list of     *)
(* locations is in order (History), and the session waits for one thing at *)
(* a time, for which a location is free (Waits).  The handlers call each   *)
(* other, so that the lemmas are about states, not steps: each function of *)
(* the code says what it returns when it is given a state of some kind.    *)
(***************************************************************************)
EXTENDS SessionTask, FiniteSetTheorems, SequenceTheorems, TLAPS

-----------------------------------------------------------------------------
(* Downloads, and what the calls of the queue do to the lists.             *)

\* The downloads of ses->loading, the locations and the queries can be in a list.
LEMMA DownloadsAre ==
    /\ Loading \in Downloads
    /\ \A i \in Locs : Loc(i) \in Downloads
    /\ \A v \in Files : Query(v) \in Downloads
    /\ \A d \in Downloads : d \in Linkable
BY DEF Downloads, Linkable

\* No two of them are the same struct, and that of a saved file is none of them.
LEMMA DownloadsDiffer ==
    /\ \A i : Loc(i) # Loading
    /\ \A v : Query(v) # Loading
    /\ \A i, v : Loc(i) # Query(v)
    /\ \A i, j : Loc(i) = Loc(j) => i = j
    /\ \A v, w : Query(v) = Query(w) => v = w
    /\ \A v \in Files : File(v) \notin Downloads
BY DEF Downloads, Loading, Loc, Query, File

-----------------------------------------------------------------------------
\* The values of each field of a state, by name: the provers need not look into
\* them where a step sets another field.
Hists == Seq(Locs)
Currents == Locs \cup {None}
UriMaps == [Locs -> UriOrNone]
Tasks == [type : Types, uri : UriOrNone, loc : Places]
Counts == 0 .. MaxRedirects
Boxes == SUBSET [type : Types, uri : Uris, loc : Places, mode : Modes]
QuerySets == SUBSET Files
DlMaps == [Downloads -> [state : Results \cup {"wait", "trans"}, conn : UriOrNone]]
ConnMaps == [Uris -> {"none", "wait", "trans"}]
LinkMaps == [Uris -> [Linkable -> Nat]]
EntryMaps == [Uris -> [held : {"none", "part", "whole"}, to : UriOrNone]]

\* A state is a record of such values.
LEMMA StatesAre ==
    States = [hist : Hists, cur : Currents, uri : UriMaps, task : Tasks, cnt : Counts, boxes : Boxes,
              queries : QuerySets, dl : DlMaps, conn : ConnMaps, links : LinkMaps, entry : EntryMaps,
              due : BOOLEAN, confirm : BOOLEAN]
BY DEF States, Hists, Currents, UriMaps, Tasks, Counts, Boxes, QuerySets, DlMaps, ConnMaps,
       LinkMaps, EntryMaps

\* What a call that only changes downloads and connections leaves alone: the
\* history, the boxes and the queries.
Beside(s, t) ==
    /\ t \in States
    /\ t.hist = s.hist /\ t.cur = s.cur /\ t.uri = s.uri
    /\ t.boxes = s.boxes /\ t.queries = s.queries

\* cancel_download() field by field: the download is out of the list and
\* interrupted, and no connection ends but its own, once its list is empty.
LEMMA CancelledIs ==
    ASSUME NEW s \in States, NEW d \in Downloads, NEW interrupt \in BOOLEAN,
           InProgress(s, d), s.dl[d].conn \in Uris
    PROVE  LET c == Cancelled(s, d, interrupt)
               u == s.dl[d].conn
               rest == [s.links[u] EXCEPT ![d] = 0]
           IN  /\ Beside(s, c) /\ c.task = s.task
               /\ c.dl = [s.dl EXCEPT ![d] = [state |-> "interrupted", conn |-> None]]
               /\ c.links = [s.links EXCEPT ![u] = rest]
               /\ \A v \in Uris : c.conn[v] = s.conn[v] \/ (c.conn[v] = "none" /\ v = u /\ rest = Nothing)
<1> DEFINE u == s.dl[d].conn
           rest == [s.links[u] EXCEPT ![d] = 0]
           c == Cancelled(s, d, interrupt)
           dls == [s.dl EXCEPT ![d] = [state |-> "interrupted", conn |-> None]]
           lks == [s.links EXCEPT ![u] = rest]
           cns == [s.conn EXCEPT ![u] = IF rest = Nothing /\ interrupt THEN "none" ELSE @]
<1>1. /\ c = [s EXCEPT !.dl = dls, !.links = lks, !.conn = cns]
  BY DEF Cancelled, States
<1>2. dls \in [Downloads -> [state : Results \cup {"wait", "trans"}, conn : UriOrNone]]
  BY DEF States, Results, UriOrNone
<1>3. lks \in [Uris -> [Linkable -> Nat]]
  BY DownloadsAre DEF States
<1>4. cns \in [Uris -> {"none", "wait", "trans"}]
  BY DEF States
<1>5. \A v \in Uris : cns[v] = s.conn[v] \/ (cns[v] = "none" /\ v = u /\ rest = Nothing)
  BY DEF States
<1> HIDE DEF dls, lks, cns, rest
<1>6. /\ Beside(s, c) /\ c.task = s.task /\ c.dl = dls /\ c.links = lks /\ c.conn = cns
  <2>1. c \in States
    <3>1. dls \in DlMaps /\ lks \in LinkMaps /\ cns \in ConnMaps
      BY <1>2, <1>3, <1>4 DEF DlMaps, LinkMaps, ConnMaps
    <3> QED
      BY <1>1, <3>1, StatesAre
  <2>2. c.dl = dls /\ c.links = lks /\ c.conn = cns
    BY <1>1 DEF States
  <2>3. c.hist = s.hist /\ c.cur = s.cur /\ c.uri = s.uri
    BY <1>1 DEF States
  <2>4. c.boxes = s.boxes /\ c.queries = s.queries /\ c.task = s.task
    BY <1>1 DEF States
  <2> QED
    BY <2>1, <2>2, <2>3, <2>4 DEF Beside
<1> QED
  BY <1>5, <1>6 DEF dls, lks, rest

\* Whose each download is.
OwnerMaps == [Downloads -> UriOrNone]

\* The lists of the connections and the downloads agree: W[d] is what the owner
\* of d waits for, and d is in that list, once, exactly while it is in progress;
\* a connection that has ended has an empty list.
Placed(s, W) ==
    /\ \A d \in Downloads, u \in Uris :
         s.links[u][d] = IF W[d] = u /\ InProgress(s, d) THEN 1 ELSE 0
    /\ \A d \in Downloads : W[d] # None /\ InProgress(s, d) => s.dl[d].conn = W[d]
    /\ \A u \in Uris : s.conn[u] = "none" => s.links[u] = Nothing

\* What is in the lists in s and is in progress is so in t, for the same owner.
Carries(s, W, t, V) ==
    /\ t.links = s.links /\ t.conn = s.conn
    /\ \A d \in Downloads :
         /\ (W[d] # None /\ InProgress(s, d)) <=> (V[d] # None /\ InProgress(t, d))
         /\ W[d] # None /\ InProgress(s, d) => V[d] = W[d] /\ t.dl[d].conn = s.dl[d].conn

\* So the lists are right for the new owners too.
LEMMA Carried ==
    ASSUME NEW s \in States, NEW t \in States, NEW W \in OwnerMaps, NEW V \in OwnerMaps,
           Placed(s, W), Carries(s, W, t, V)
    PROVE  Placed(t, V)
<1>1. ASSUME NEW d \in Downloads, NEW u \in Uris
      PROVE  t.links[u][d] = IF V[d] = u /\ InProgress(t, d) THEN 1 ELSE 0
  <2>1. t.links[u][d] = IF W[d] = u /\ InProgress(s, d) THEN 1 ELSE 0
    BY DEF Placed, Carries
  <2>2. (W[d] = u /\ InProgress(s, d)) <=> (V[d] = u /\ InProgress(t, d))
    BY SessionAssumption DEF Carries
  <2> QED
    BY <2>1, <2>2
<1>2. ASSUME NEW d \in Downloads, V[d] # None, InProgress(t, d)
      PROVE  t.dl[d].conn = V[d]
  BY <1>2 DEF Placed, Carries
<1>3. \A u \in Uris : t.conn[u] = "none" => t.links[u] = Nothing
  BY DEF Placed, Carries
<1> QED
  BY <1>1, <1>2, <1>3 DEF Placed

\* What cancel_download() promises its callers: d has come to an end, no other
\* download is touched and the lists are right.
CancelGives(s, d, c, W) ==
    /\ Beside(s, c) /\ c.task = s.task
    /\ Placed(c, W)
    /\ ~InProgress(c, d)
    /\ \A e \in Downloads : e # d => c.dl[e] = s.dl[e]

\* cancel_download() of a download that is in progress or not.
LEMMA CancelledPlaced ==
    ASSUME NEW s \in States, NEW d \in Downloads, NEW interrupt \in BOOLEAN, NEW W \in OwnerMaps,
           Placed(s, W), W[d] # None
    PROVE  CancelGives(s, d, Cancelled(s, d, interrupt), W)
<1> DEFINE c == Cancelled(s, d, interrupt)
<1>1. CASE ~InProgress(s, d)
  BY <1>1 DEF Cancelled, CancelGives, Beside
<1>2. CASE InProgress(s, d)
  <2> DEFINE u == s.dl[d].conn
             rest == [s.links[u] EXCEPT ![d] = 0]
  <2>1. u = W[d] /\ u \in Uris
    BY <1>2 DEF Placed, OwnerMaps, UriOrNone
  <2>2. /\ Beside(s, c) /\ c.task = s.task
        /\ c.dl = [s.dl EXCEPT ![d] = [state |-> "interrupted", conn |-> None]]
        /\ c.links = [s.links EXCEPT ![u] = rest]
        /\ \A v \in Uris : c.conn[v] = s.conn[v] \/ (c.conn[v] = "none" /\ v = u /\ rest = Nothing)
    BY <1>2, <2>1, CancelledIs
  <2> HIDE DEF c
  <2>a. s.dl \in DlMaps /\ s.links \in LinkMaps
    BY StatesAre
  <2>3. ~InProgress(c, d) /\ \A e \in Downloads : e # d => c.dl[e] = s.dl[e]
    BY <2>2, <2>a DEF DlMaps, InProgress, Results
  <2>4. \A v \in Uris, e \in Downloads :
            c.links[v][e] = IF v = u /\ e = d THEN 0 ELSE s.links[v][e]
    BY <2>1, <2>2, <2>a, DownloadsAre DEF LinkMaps
  <2>5. ASSUME NEW e \in Downloads, NEW v \in Uris
        PROVE  c.links[v][e] = IF W[e] = v /\ InProgress(c, e) THEN 1 ELSE 0
    <3>1. CASE e = d
      BY <1>2, <2>1, <2>3, <2>4, <3>1 DEF Placed
    <3>2. CASE e # d
      BY <2>3, <2>4, <3>2 DEF Placed, InProgress
    <3> QED
      BY <3>1, <3>2
  <2>6. ASSUME NEW e \in Downloads, W[e] # None, InProgress(c, e)
        PROVE  c.dl[e].conn = W[e]
    BY <2>3, <2>6 DEF Placed, InProgress
  <2>7. ASSUME NEW v \in Uris, c.conn[v] = "none"
        PROVE  c.links[v] = Nothing
    <3>1. CASE v = u
      <4>1. c.links[v] = rest
        BY <2>1, <2>2, <2>a, <3>1 DEF LinkMaps
      <4>2. s.links[v][d] = 1
        BY <1>2, <2>1, <3>1 DEF Placed
      <4>3. Nothing[d] = 0
        BY DownloadsAre DEF Nothing
      <4>4. s.conn[v] # "none"
        BY <4>2, <4>3 DEF Placed
      <4> QED
        BY <2>2, <2>7, <4>1, <4>4
    <3>2. CASE v # u
      <4>1. c.links[v] = s.links[v]
        BY <2>2, <2>a, <3>2 DEF LinkMaps
      <4> QED
        BY <2>2, <2>7, <3>2, <4>1 DEF Placed
    <3> QED
      BY <3>1, <3>2
  <2>8. Placed(c, W)
    BY <2>5, <2>6, <2>7 DEF Placed
  <2> QED
    BY <2>2, <2>3, <2>8 DEF CancelGives, c
<1> QED
  BY <1>1, <1>2

\* d becomes the download of an owner that waits for u.
With(W, d, u) == [W EXCEPT ![d] = u]

\* What move_download() promises: the new download stands in the lists where the
\* old one stood, and the old one has come to an end.
MoveGives(s, old, new, u, m, W) ==
    /\ Beside(s, m) /\ m.task = s.task
    /\ Placed(m, With(With(W, new, u), old, None))
    /\ ~InProgress(m, old)
    /\ \A e \in Downloads : e \notin {old, new} => m.dl[e] = s.dl[e]

\* The other owners keep theirs.
LEMMA WithIs ==
    ASSUME NEW W \in OwnerMaps, NEW d \in Downloads, NEW u \in UriOrNone
    PROVE  /\ With(W, d, u) \in OwnerMaps
           /\ With(W, d, u)[d] = u
           /\ \A e \in Downloads : e # d => With(W, d, u)[e] = W[e]
BY DEF With, OwnerMaps

\* A download that is handed on leaves its owner with none.
LEMMA OwnersMove ==
    ASSUME NEW W \in OwnerMaps, NEW old \in Downloads, NEW new \in Downloads, NEW u \in Uris, old # new
    PROVE  LET V == With(With(W, new, u), old, None)
           IN  /\ V \in OwnerMaps /\ V[new] = u /\ V[old] = None
               /\ \A e \in Downloads : e \notin {old, new} => V[e] = W[e]
<1> DEFINE X == With(W, new, u)
<1>1. u \in UriOrNone /\ None \in UriOrNone
  BY DEF UriOrNone
<1>2. X \in OwnerMaps /\ X[new] = u /\ \A e \in Downloads : e # new => X[e] = W[e]
  BY <1>1, WithIs
<1> HIDE DEF X
<1>3. /\ With(X, old, None) \in OwnerMaps /\ With(X, old, None)[old] = None
      /\ \A e \in Downloads : e # old => With(X, old, None)[e] = X[e]
  BY <1>1, <1>2, WithIs
<1> QED
  BY <1>2, <1>3 DEF X

\* move_download(), whether the old one is in progress or has a result: what
\* is copied before the lists are touched agrees with them after.
LEMMA MovePlaced ==
    ASSUME NEW s \in States, NEW old \in Downloads, NEW new \in Downloads, NEW W \in OwnerMaps,
           NEW u \in Uris, old # new, Placed(s, W), W[old] = u, W[new] = None
    PROVE  MoveGives(s, old, new, u, MoveDownload(s, old, new), W)
<1> DEFINE dls == [s.dl EXCEPT ![new] = s.dl[old]]
           n == [s EXCEPT !.dl = dls]
           m == MoveDownload(s, old, new)
           X == With(W, new, u)
           V == With(X, old, None)
<1>a. s.dl \in DlMaps /\ s.links \in LinkMaps /\ dls \in DlMaps
  BY StatesAre DEF DlMaps
<1>b. u # None /\ u \in UriOrNone /\ None \in UriOrNone
  BY SessionAssumption DEF UriOrNone
<1>c. /\ X \in OwnerMaps /\ X[new] = u /\ \A e \in Downloads : e # new => X[e] = W[e]
  BY <1>b, WithIs
<1>d. /\ V \in OwnerMaps /\ V[old] = None /\ \A e \in Downloads : e # old => V[e] = X[e]
  BY <1>b, <1>c, WithIs
<1>e. \A e \in Downloads : dls[e] = IF e = new THEN s.dl[old] ELSE s.dl[e]
  BY <1>a DEF DlMaps
<1> HIDE DEF X, V
<1>1. CASE ~InProgress(s, old)
  <2>1. m = n
    BY <1>1 DEF MoveDownload
  <2> HIDE DEF dls
  <2>2. Beside(s, n) /\ n.task = s.task /\ n.links = s.links /\ n.conn = s.conn /\ n.dl = dls
    BY <1>a, StatesAre DEF Beside
  <2>3. ~InProgress(n, old) /\ ~InProgress(n, new)
    BY <1>1, <1>e, <2>2 DEF InProgress
  <2>4. Carries(s, W, n, V)
    BY <1>1, <1>c, <1>d, <1>e, <2>2, <2>3 DEF Carries, InProgress
  <2>5. n \in States
    BY <2>2 DEF Beside
  <2>6. Placed(n, V)
    BY <1>d, <2>4, <2>5, Carried
  <2> QED
    BY <1>e, <2>1, <2>2, <2>3, <2>6 DEF MoveGives, X, V
<1>2. CASE InProgress(s, old)
  <2> DEFINE lu == [s.links[u] EXCEPT ![new] = s.links[u][new] + 1]
             lks == [s.links EXCEPT ![u] = lu]
             p == [s EXCEPT !.dl = dls, !.links = lks]
  <2>1. s.dl[old].conn = u
    BY <1>2, <1>b DEF Placed
  <2>2. m = Cancelled(p, old, FALSE)
    BY <1>2, <1>a, <2>1, StatesAre DEF MoveDownload, LinkMaps
  <2>3. lks \in LinkMaps
    BY <1>a, DownloadsAre DEF LinkMaps
  <2>4. \A v \in Uris, e \in Downloads :
            lks[v][e] = IF v = u /\ e = new THEN s.links[v][e] + 1 ELSE s.links[v][e]
    BY <1>a, DownloadsAre DEF LinkMaps
  <2>4a. \A v \in Uris : v # u => lks[v] = s.links[v]
    BY <1>a DEF LinkMaps
  <2> HIDE DEF dls, lks
  <2>5. /\ Beside(s, p) /\ p.task = s.task /\ p.links = lks /\ p.conn = s.conn /\ p.dl = dls
    BY <1>a, <2>3, StatesAre DEF Beside
  <2>6. p \in States
    BY <2>5 DEF Beside
  <2> HIDE DEF p
  <2>7. \A e \in Downloads : InProgress(p, e) <=> (IF e = new THEN InProgress(s, old) ELSE InProgress(s, e))
    BY <1>e, <2>5 DEF InProgress
  <2>8. ASSUME NEW e \in Downloads, NEW v \in Uris
        PROVE  p.links[v][e] = IF X[e] = v /\ InProgress(p, e) THEN 1 ELSE 0
    <3>1. s.links[v][e] = IF W[e] = v /\ InProgress(s, e) THEN 1 ELSE 0
      BY DEF Placed
    <3>2. CASE e = new
      BY <1>2, <1>b, <1>c, <2>4, <2>5, <2>7, <3>1, <3>2, SessionAssumption
    <3>3. CASE e # new
      BY <1>c, <2>4, <2>5, <2>7, <3>1, <3>3
    <3> QED
      BY <3>2, <3>3
  <2>9. ASSUME NEW e \in Downloads, X[e] # None, InProgress(p, e)
        PROVE  p.dl[e].conn = X[e]
    BY <1>c, <1>e, <2>1, <2>5, <2>7, <2>9 DEF Placed
  <2>10. ASSUME NEW v \in Uris, p.conn[v] = "none"
         PROVE  p.links[v] = Nothing
    <3>1. s.links[v] = Nothing
      BY <2>5, <2>10 DEF Placed
    <3>2. s.links[u][old] = 1
      BY <1>2 DEF Placed
    <3>3. v # u
      BY <3>1, <3>2, DownloadsAre DEF Nothing
    <3> QED
      BY <2>4a, <2>5, <3>1, <3>3
  <2>11. Placed(p, X)
    BY <2>8, <2>9, <2>10 DEF Placed
  <2>12. X[old] # None
    BY <1>b, <1>c
  <2>13. CancelGives(p, old, m, X)
    BY <1>c, <2>2, <2>6, <2>11, <2>12, CancelledPlaced
  <2> HIDE DEF m
  <2>14. Beside(s, m) /\ m.task = s.task
    BY <2>5, <2>13 DEF CancelGives, Beside
  <2>15. ~InProgress(m, old)
    BY <2>13 DEF CancelGives
  <2>16. Carries(m, X, m, V)
    BY <1>c, <1>d, <2>15 DEF Carries
  <2>17. m \in States /\ Placed(m, X)
    BY <2>13 DEF CancelGives, Beside
  <2>18. Placed(m, V)
    BY <1>c, <1>d, <2>16, <2>17, Carried
  <2>19. \A e \in Downloads : e \notin {old, new} => m.dl[e] = s.dl[e]
    BY <1>e, <2>5, <2>13 DEF CancelGives
  <2> QED
    BY <2>14, <2>15, <2>18, <2>19 DEF MoveGives, X, V, m
<1> QED
  BY <1>1, <1>2

\* What a state of the connection makes of the downloads in its list.
LEMMA NotifiedIs ==
    ASSUME NEW s \in States, NEW u \in Uris, NEW state \in Results \cup {"wait", "trans"}
    PROVE  LET n == Notified(s, u, state)
           IN  /\ Beside(s, n) /\ n.task = s.task /\ n.links = s.links /\ n.conn = s.conn
               /\ n.entry = s.entry /\ n.due \in BOOLEAN
               /\ \A d \in Downloads :
                    /\ d \notin Linked(s, u) => n.dl[d] = s.dl[d]
                    /\ d \in Linked(s, u) => n.dl[d].state = state /\ (state \notin Results => n.dl[d].conn = u)
<1> DEFINE n == Notified(s, u, state)
           dls == [d \in Downloads |->
                     IF d \notin Linked(s, u) THEN s.dl[d]
                     ELSE [state |-> state, conn |-> IF state \in Results THEN None ELSE u]]
           dues == s.due \/ Loading \in Linked(s, u)
<1>1. n = [s EXCEPT !.dl = dls, !.due = dues]
  BY StatesAre DEF Notified
<1>2. s.dl \in DlMaps
  BY StatesAre
<1>3. dls \in DlMaps
  BY <1>2 DEF DlMaps, UriOrNone
<1>4. \A d \in Downloads :
        /\ d \notin Linked(s, u) => dls[d] = s.dl[d]
        /\ d \in Linked(s, u) => dls[d].state = state /\ (state \notin Results => dls[d].conn = u)
  OBVIOUS
<1>5. dues \in BOOLEAN
  OBVIOUS
<1> HIDE DEF dls, dues
<1>6. /\ Beside(s, n) /\ n.task = s.task /\ n.links = s.links /\ n.conn = s.conn
      /\ n.entry = s.entry /\ n.due = dues /\ n.dl = dls
  BY <1>1, <1>3, <1>5, StatesAre DEF Beside
<1> QED
  BY <1>4, <1>5, <1>6

\* A connection that goes on keeps its downloads.
NotifyGives(s, n, W) ==
    /\ Beside(s, n) /\ n.task = s.task /\ Placed(n, W)
    /\ \A d \in Downloads : InProgress(n, d) <=> InProgress(s, d)

\* A state on the way ends no download and begins none.
LEMMA NotifiedPlaced ==
    ASSUME NEW s \in States, NEW u \in Uris, NEW state \in {"wait", "trans"}, NEW W \in OwnerMaps,
           Placed(s, W)
    PROVE  NotifyGives(s, Notified(s, u, state), W)
<1> DEFINE n == Notified(s, u, state)
<1>1. state \in Results \cup {"wait", "trans"} /\ state \notin Results
  BY DEF Results
<1>2. /\ Beside(s, n) /\ n.task = s.task /\ n.links = s.links /\ n.conn = s.conn
      /\ \A d \in Downloads :
           /\ d \notin Linked(s, u) => n.dl[d] = s.dl[d]
           /\ d \in Linked(s, u) => n.dl[d].state = state /\ n.dl[d].conn = u
  BY <1>1, NotifiedIs
<1> HIDE DEF n
<1>3. \A d \in Downloads : d \in Linked(s, u) => W[d] = u /\ InProgress(s, d)
  BY DEF Linked, Placed
<1>4. \A d \in Downloads : InProgress(n, d) <=> InProgress(s, d)
  BY <1>1, <1>2, <1>3 DEF InProgress
<1>5. \A d \in Downloads : W[d] # None /\ InProgress(s, d) => n.dl[d].conn = s.dl[d].conn
  <2>1. ASSUME NEW d \in Downloads, d \in Linked(s, u)
        PROVE  n.dl[d].conn = s.dl[d].conn
    BY <1>2, <1>3, <2>1, SessionAssumption DEF Placed
  <2> QED
    BY <1>2, <2>1
<1>6. Carries(s, W, n, W)
  BY <1>2, <1>4, <1>5 DEF Carries
<1>7. Placed(n, W)
  BY <1>2, <1>6, Carried DEF Beside
<1> QED
  BY <1>2, <1>4, <1>7 DEF NotifyGives, n

\* One that ends has none in progress.
EndGives(s, n, W) ==
    /\ Beside(s, n) /\ n.task = s.task /\ Placed(n, W)
    /\ \A d \in Downloads : InProgress(n, d) => InProgress(s, d)

\* done_connection(): the list is empty, and who was in it has the result.
LEMMA EndedPlaced ==
    ASSUME NEW s \in States, NEW u \in Uris, NEW state \in Results, NEW W \in OwnerMaps,
           Placed(s, W)
    PROVE  EndGives(s, Ended(s, u, state), W)
<1> DEFINE n == Notified(s, u, state)
           cns == [s.conn EXCEPT ![u] = "none"]
           lks == [s.links EXCEPT ![u] = Nothing]
           t == Ended(s, u, state)
<1>1. state \in Results \cup {"wait", "trans"}
  OBVIOUS
<1>2. /\ Beside(s, n) /\ n.task = s.task /\ n.links = s.links /\ n.conn = s.conn
      /\ \A d \in Downloads :
           /\ d \notin Linked(s, u) => n.dl[d] = s.dl[d]
           /\ d \in Linked(s, u) => n.dl[d].state = state
  BY <1>1, NotifiedIs
<1> HIDE DEF n
<1>3. n \in States
  BY <1>2 DEF Beside
<1>4. t = [n EXCEPT !.conn = cns, !.links = lks]
  BY <1>2, <1>3, StatesAre DEF Ended, n
<1>5. s.conn \in ConnMaps /\ s.links \in LinkMaps
  BY StatesAre
<1>6. cns \in ConnMaps /\ lks \in LinkMaps
  BY <1>5 DEF ConnMaps, LinkMaps, Nothing
<1>7. \A v \in Uris : /\ cns[v] = IF v = u THEN "none" ELSE s.conn[v]
                     /\ lks[v] = IF v = u THEN Nothing ELSE s.links[v]
  BY <1>5 DEF ConnMaps, LinkMaps
<1> HIDE DEF cns, lks
<1>8. Beside(n, t) /\ t.task = n.task /\ t.conn = cns /\ t.links = lks /\ t.dl = n.dl
  BY <1>3, <1>4, <1>6, StatesAre DEF Beside
<1> HIDE DEF t
<1>9. Beside(s, t) /\ t.task = s.task
  BY <1>2, <1>8 DEF Beside
<1>10. \A d \in Downloads : d \in Linked(s, u) => ~InProgress(t, d)
  BY <1>2, <1>8 DEF InProgress
<1>11. \A d \in Downloads : d \notin Linked(s, u) => t.dl[d] = s.dl[d]
  BY <1>2, <1>8
<1>12. \A d \in Downloads : InProgress(t, d) => InProgress(s, d)
  BY <1>10, <1>11 DEF InProgress
<1>13. \A d \in Downloads : d \notin Linked(s, u) => (InProgress(t, d) <=> InProgress(s, d))
  BY <1>11 DEF InProgress
<1>14. ASSUME NEW d \in Downloads, NEW v \in Uris
       PROVE  t.links[v][d] = IF W[d] = v /\ InProgress(t, d) THEN 1 ELSE 0
  <2>1. s.links[v][d] = IF W[d] = v /\ InProgress(s, d) THEN 1 ELSE 0
    BY DEF Placed
  <2>2. CASE v = u
    <3>1. t.links[v][d] = 0
      BY <1>7, <1>8, <2>2, DownloadsAre DEF Nothing
    <3>2. ~(W[d] = v /\ InProgress(t, d))
      <4>1. CASE d \in Linked(s, u)
        BY <1>10, <4>1
      <4>2. CASE d \notin Linked(s, u)
        <5>1. ~(s.links[u][d] > 0)
          BY <4>2 DEF Linked
        <5> QED
          BY <1>12, <2>1, <2>2, <5>1
      <4> QED
        BY <4>1, <4>2
    <3> QED
      BY <3>1, <3>2
  <2>3. CASE v # u
    <3>1. t.links[v][d] = s.links[v][d]
      BY <1>7, <1>8, <2>3
    <3>2. d \in Linked(s, u) => W[d] = u
      BY DEF Linked, Placed
    <3>3. (W[d] = v /\ InProgress(t, d)) <=> (W[d] = v /\ InProgress(s, d))
      BY <1>13, <2>3, <3>2
    <3> QED
      BY <2>1, <3>1, <3>3
  <2> QED
    BY <2>2, <2>3
<1>15. ASSUME NEW d \in Downloads, W[d] # None, InProgress(t, d)
       PROVE  t.dl[d].conn = W[d]
  BY <1>10, <1>11, <1>12, <1>15 DEF Placed
<1>16. \A v \in Uris : t.conn[v] = "none" => t.links[v] = Nothing
  BY <1>7, <1>8 DEF Placed
<1>17. Placed(t, W)
  BY <1>14, <1>15, <1>16 DEF Placed
<1> QED
  BY <1>9, <1>12, <1>17 DEF EndGives, t

\* load_uri(): whoever had the download, it is that of u.
LoadGives(s, u, d, l, W) ==
    /\ Beside(s, l) /\ l.task = s.task
    /\ Placed(l, With(W, d, u))
    /\ \A e \in Downloads : e # d => (InProgress(l, e) <=> InProgress(s, e))

\* load_uri() for a download that is in progress nowhere: from the cache it is
\* ok at once, else it joins the connection, whose state it takes.
LEMMA LoadUriPlaced ==
    ASSUME NEW s \in States, NEW u \in Uris, NEW d \in Downloads, NEW mode, NEW W \in OwnerMaps,
           Placed(s, W), W[d] # None => ~InProgress(s, d)
    PROVE  LoadGives(s, u, d, LoadUri(s, u, d, mode), W)
<1> DEFINE l == LoadUri(s, u, d, mode)
           V == With(W, d, u)
<1>a. u # None /\ u \in UriOrNone /\ None \in UriOrNone
  BY SessionAssumption DEF UriOrNone
<1>b. V \in OwnerMaps /\ V[d] = u /\ \A e \in Downloads : e # d => V[e] = W[e]
  BY <1>a, WithIs
<1>c. \A v \in Uris : s.links[v][d] = 0
  BY SessionAssumption DEF Placed
<1>d. s.dl \in DlMaps /\ s.links \in LinkMaps /\ s.conn \in ConnMaps
  BY StatesAre
<1> HIDE DEF V
<1>1. CASE InCache(s, u, mode)
  <2> DEFINE dls == [s.dl EXCEPT ![d] = [state |-> "ok", conn |-> None]]
             dues == s.due \/ d = Loading
  <2>1. l = [s EXCEPT !.dl = dls, !.due = dues]
    BY <1>1, StatesAre DEF LoadUri
  <2>2. dls \in DlMaps /\ \A e \in Downloads : dls[e] = IF e = d THEN [state |-> "ok", conn |-> None] ELSE s.dl[e]
    BY <1>a, <1>d DEF DlMaps, Results
  <2>3. dues \in BOOLEAN
    OBVIOUS
  <2> HIDE DEF dls, dues
  <2>4. Beside(s, l) /\ l.task = s.task /\ l.links = s.links /\ l.conn = s.conn /\ l.dl = dls
    BY <2>1, <2>2, <2>3, StatesAre DEF Beside
  <2> HIDE DEF l
  <2>5. ~InProgress(l, d)
    BY <2>2, <2>4 DEF InProgress, Results
  <2>6. \A e \in Downloads : e # d => l.dl[e] = s.dl[e]
    BY <2>2, <2>4
  <2>7. Carries(s, W, l, V)
    BY <1>b, <2>4, <2>5, <2>6 DEF Carries, InProgress
  <2>8. Placed(l, V)
    BY <1>b, <2>4, <2>7, Carried DEF Beside
  <2> QED
    BY <2>4, <2>6, <2>8 DEF LoadGives, InProgress, V, l
<1>2. CASE ~InCache(s, u, mode)
  <2> DEFINE state == IF s.conn[u] = "trans" THEN "trans" ELSE "wait"
             cns == [s.conn EXCEPT ![u] = state]
             dls == [s.dl EXCEPT ![d] = [state |-> s.dl[d].state, conn |-> u]]
             lu == [s.links[u] EXCEPT ![d] = s.links[u][d] + 1]
             lks == [s.links EXCEPT ![u] = lu]
             c == [s EXCEPT !.conn = cns, !.dl = dls, !.links = lks]
  <2>1. l = Notified(c, u, state)
    <3>1. c = [s EXCEPT !.conn[u] = state, !.dl[d].conn = u, !.links[u][d] = @ + 1]
      BY <1>d, StatesAre DEF DlMaps, LinkMaps
    <3> QED
      BY <1>2, <3>1 DEF LoadUri
  <2>2. state \in {"wait", "trans"} /\ state \in Results \cup {"wait", "trans"} /\ state \notin Results
    BY DEF Results
  <2>3. cns \in ConnMaps /\ dls \in DlMaps /\ lks \in LinkMaps
    BY <1>a, <1>d, DownloadsAre DEF ConnMaps, DlMaps, LinkMaps
  <2>4. \A v \in Uris : v # u => cns[v] = s.conn[v] /\ lks[v] = s.links[v]
    BY <1>d DEF ConnMaps, LinkMaps
  <2>5. cns[u] = state
    BY <1>d DEF ConnMaps
  <2>6. \A v \in Uris, e \in Downloads :
            lks[v][e] = IF v = u /\ e = d THEN 1 ELSE s.links[v][e]
    BY <1>c, <1>d, DownloadsAre DEF LinkMaps
  <2>7. \A e \in Downloads : e # d => dls[e] = s.dl[e]
    BY <1>d DEF DlMaps
  <2> HIDE DEF cns, dls, lks, state
  <2>8. Beside(s, c) /\ c.task = s.task /\ c.conn = cns /\ c.dl = dls /\ c.links = lks
    BY <2>3, StatesAre DEF Beside
  <2>9. c \in States
    BY <2>8 DEF Beside
  <2> HIDE DEF c
  <2>10. /\ Beside(c, l) /\ l.task = c.task /\ l.links = c.links /\ l.conn = c.conn
         /\ \A e \in Downloads :
              /\ e \notin Linked(c, u) => l.dl[e] = c.dl[e]
              /\ e \in Linked(c, u) => l.dl[e].state = state /\ l.dl[e].conn = u
    BY <2>1, <2>2, <2>9, NotifiedIs
  <2> HIDE DEF l
  <2>11. Beside(s, l) /\ l.task = s.task
    BY <2>8, <2>10 DEF Beside
  <2>12. d \in Linked(c, u)
    BY <2>6, <2>8 DEF Linked
  <2>13. \A e \in Downloads : e # d => (e \in Linked(c, u) <=> s.links[u][e] > 0)
    BY <2>6, <2>8 DEF Linked
  <2>14. \A e \in Downloads : s.links[u][e] > 0 => W[e] = u /\ InProgress(s, e)
    BY DEF Placed
  <2>15. \A e \in Downloads : e # d => (InProgress(l, e) <=> InProgress(s, e))
    BY <2>2, <2>7, <2>8, <2>10, <2>13, <2>14 DEF InProgress
  <2>16. InProgress(l, d)
    BY <2>2, <2>10, <2>12 DEF InProgress
  <2>17. ASSUME NEW e \in Downloads, NEW v \in Uris
         PROVE  l.links[v][e] = IF V[e] = v /\ InProgress(l, e) THEN 1 ELSE 0
    <3>1. l.links[v][e] = IF v = u /\ e = d THEN 1 ELSE s.links[v][e]
      BY <2>6, <2>8, <2>10
    <3>2. CASE e = d
      BY <1>b, <1>c, <2>16, <3>1, <3>2
    <3>3. CASE e # d
      BY <1>b, <2>15, <3>1, <3>3 DEF Placed
    <3> QED
      BY <3>2, <3>3
  <2>18. ASSUME NEW e \in Downloads, V[e] # None, InProgress(l, e)
         PROVE  l.dl[e].conn = V[e]
    <3>1. CASE e = d
      BY <1>b, <2>10, <2>12, <3>1
    <3>2. CASE e # d /\ e \in Linked(c, u)
      BY <1>b, <2>10, <2>13, <2>14, <3>2
    <3>3. CASE e # d /\ e \notin Linked(c, u)
      BY <1>b, <2>7, <2>8, <2>10, <2>15, <2>18, <3>3 DEF Placed
    <3> QED
      BY <3>1, <3>2, <3>3
  <2>19. \A v \in Uris : l.conn[v] = "none" => l.links[v] = Nothing
    BY <2>2, <2>4, <2>5, <2>8, <2>10 DEF Placed
  <2>20. Placed(l, V)
    BY <2>17, <2>18, <2>19 DEF Placed
  <2> QED
    BY <2>11, <2>15, <2>20 DEF LoadGives, V, l
<1> QED
  BY <1>1, <1>2

-----------------------------------------------------------------------------
(* The invariant.                                                          *)

\* A location can still be allocated.
FreeLoc(s) == \E j \in Locs : j \notin Range(s.hist)

\* Nothing is loaded for the page that is shown.
Rests(s) == s.cur # None => ~InProgress(s, Loc(s.cur))

\* Who waits for what: the task for its URI, the current location for that of
\* its page, a query for its file; nobody for anything else.
Owners(s) ==
    [d \in Downloads |->
       IF d = Loading THEN IF s.task.type = "none" THEN None ELSE s.task.uri
       ELSE IF d = Loc(s.cur) THEN s.uri[s.cur]
       ELSE IF d[1] = "query" /\ d[2] \in s.queries THEN d[2] ELSE None]

\* The list of locations holds each once, the current one is in it, and each
\* has a page.
History(s) ==
    /\ IsInjective(s.hist)
    /\ s.cur \in (IF s.hist = <<>> THEN {None} ELSE Range(s.hist))
    /\ \A i \in Range(s.hist) : s.uri[i] \in Uris

\* Where a task, or a box with its task, leads: a move through the history
\* leads to a location that is there and has the URI of the task.
Aimed(s, t) ==
    /\ t.type # "none"
    /\ t.type \in {"history", "reload"} => s.cur # None
    /\ t.type = "history" => t.loc \in Range(s.hist) /\ s.uri[t.loc] = t.uri

\* The session asks nothing and loads nothing for its page.
Alone(s) == s.boxes = {} /\ s.queries = {} /\ FreeLoc(s) /\ Rests(s)

\* A session whose user answers before anything else waits for one thing at a
\* time, a task, a box or a query, and then a location is free for the page.
Waits(s) ==
    /\ s.task.type # "none" => Alone(s) /\ s.task.uri \in Uris /\ Aimed(s, s.task)
    /\ s.boxes # {} => s.queries = {} /\ FreeLoc(s) /\ Rests(s) /\ s.task.type = "none"
    /\ \A b \in s.boxes : Aimed(s, b) /\ s.boxes = {b}
    /\ \A v \in s.queries : FreeLoc(s) /\ s.queries = {v}

\* The invariant, of a state.
Good(s) == s \in States /\ History(s) /\ Waits(s) /\ Placed(s, Owners(s))

\* Which the downloads are.
LEMMA DownloadKinds ==
    /\ \A d \in Downloads : d = Loading \/ (\E i \in Locs : d = Loc(i)) \/ (\E v \in Files : d = Query(v))
    /\ \A i : Loc(i)[1] = "loc" /\ Loc(i) # Loading
    /\ \A v : Query(v)[1] = "query" /\ Query(v)[2] = v /\ Query(v) # Loading
BY DEF Downloads, Loading, Loc, Query

\* The owner of each kind of download.
LEMMA OwnersAre ==
    ASSUME NEW s \in States
    PROVE  /\ Owners(s) \in OwnerMaps
           /\ Owners(s)[Loading] = IF s.task.type = "none" THEN None ELSE s.task.uri
           /\ \A i \in Locs : Owners(s)[Loc(i)] = IF s.cur = i THEN s.uri[i] ELSE None
           /\ \A v \in Files : Owners(s)[Query(v)] = IF v \in s.queries THEN v ELSE None
<1>1. Owners(s)[Loading] = IF s.task.type = "none" THEN None ELSE s.task.uri
  BY DownloadsAre DEF Owners
<1>2. ASSUME NEW i \in Locs
      PROVE  Owners(s)[Loc(i)] = IF s.cur = i THEN s.uri[i] ELSE None
  <2>1. Owners(s)[Loc(i)] = IF Loc(i) = Loc(s.cur) THEN s.uri[s.cur] ELSE None
    BY DownloadsAre, DownloadKinds DEF Owners
  <2>2. Loc(i) = Loc(s.cur) <=> s.cur = i
    BY DownloadsDiffer
  <2> QED
    BY <2>1, <2>2
<1>3. ASSUME NEW v \in Files
      PROVE  Owners(s)[Query(v)] = IF v \in s.queries THEN v ELSE None
  BY DownloadsAre, DownloadKinds DEF Owners
<1>4. ASSUME NEW d \in Downloads
      PROVE  Owners(s)[d] \in UriOrNone
  <2>1. s.task \in Tasks /\ s.uri \in UriMaps
    BY StatesAre
  <2>2. CASE d = Loading
    BY <1>1, <2>1, <2>2 DEF Tasks, UriOrNone
  <2>3. ASSUME NEW i \in Locs, d = Loc(i)
        PROVE  Owners(s)[d] \in UriOrNone
    BY <1>2, <2>1, <2>3 DEF UriMaps, UriOrNone
  <2>4. ASSUME NEW v \in Files, d = Query(v)
        PROVE  Owners(s)[d] \in UriOrNone
    BY <1>3, <2>4, SessionAssumption DEF UriOrNone
  <2> QED
    BY <2>2, <2>3, <2>4, DownloadKinds
<1>5. Owners(s) \in OwnerMaps
  <2>1. Owners(s) = [d \in Downloads |-> Owners(s)[d]]
    BY DEF Owners
  <2> HIDE DEF Owners
  <2> QED
    BY <1>4, <2>1 DEF OwnerMaps
<1> QED
  BY <1>1, <1>2, <1>3, <1>5

\* Only what is in progress needs an owner.
LEMMA Agreed ==
    ASSUME NEW t \in States, NEW W \in OwnerMaps, Placed(t, W),
           InProgress(t, Loading) => W[Loading] = Owners(t)[Loading],
           \A i \in Locs : InProgress(t, Loc(i)) => W[Loc(i)] = Owners(t)[Loc(i)],
           \A v \in Files : InProgress(t, Query(v)) => W[Query(v)] = Owners(t)[Query(v)]
    PROVE  Placed(t, Owners(t))
<1>1. ASSUME NEW d \in Downloads, InProgress(t, d)
      PROVE  W[d] = Owners(t)[d]
  BY <1>1, DownloadKinds
<1>2. Carries(t, W, t, Owners(t))
  BY <1>1 DEF Carries
<1> QED
  BY <1>2, OwnersAre, Carried

\* A call that leaves history, boxes, queries and task alone keeps the
\* invariant if it keeps the lists, and the page at rest.
LEMMA GoodBeside ==
    ASSUME NEW s, NEW t, Good(s), Beside(s, t), t.task = s.task, Placed(t, Owners(s)),
           Rests(s) => Rests(t)
    PROVE  Good(t)
<1>1. Owners(t) = Owners(s)
  BY DEF Owners, Beside
<1>2. History(t)
  BY DEF Good, History, Beside
<1>3. \A b : Aimed(t, b) <=> Aimed(s, b)
  BY DEF Aimed, Beside
<1>4. FreeLoc(t) <=> FreeLoc(s)
  BY DEF FreeLoc, Beside
<1>5. Alone(s) => Alone(t)
  BY <1>4 DEF Alone, Beside
<1>6. Waits(t)
  BY <1>3, <1>4, <1>5 DEF Good, Waits, Beside
<1> QED
  BY <1>1, <1>2, <1>6 DEF Good, Beside

\* The current location is one of those in the list.
LEMMA CurrentIs ==
    ASSUME NEW s, Good(s), s.cur # None
    PROVE  /\ s.cur \in Locs /\ s.cur \in Range(s.hist) /\ s.uri[s.cur] \in Uris
           /\ Loc(s.cur) \in Downloads /\ Owners(s)[Loc(s.cur)] = s.uri[s.cur]
           /\ Owners(s)[Loc(s.cur)] # None
<1>1. s.cur \in Locs
  BY StatesAre DEF Good, Currents
<1>2. s.cur \in Range(s.hist) /\ s.uri[s.cur] \in Uris
  BY DEF Good, History
<1> QED
  BY <1>1, <1>2, DownloadsAre, OwnersAre, SessionAssumption DEF Good

\* free_task() field by field.
LEMMA FreeTaskIs ==
    ASSUME NEW s \in States
    PROVE  LET f == FreeTask(s)
           IN  /\ Beside(s, f) /\ f.task.type = "none"
               /\ f.dl = s.dl /\ f.links = s.links /\ f.conn = s.conn /\ f.entry = s.entry
<1> DEFINE none == [s.task EXCEPT !.type = "none", !.uri = None]
           f == FreeTask(s)
<1>1. s.task \in Tasks
  BY StatesAre
<1>2. none \in Tasks /\ none.type = "none"
  BY <1>1 DEF Tasks, Types, UriOrNone
<1>3. f = [s EXCEPT !.task = none]
  BY <1>1, StatesAre DEF FreeTask, Tasks
<1> HIDE DEF none
<1> QED
  BY <1>2, <1>3, StatesAre DEF Beside

\* Without its task the session keeps what it has, once the download of the
\* task has come to an end.
LEMMA TaskFreed ==
    ASSUME NEW s, Good(s), ~InProgress(s, Loading)
    PROVE  LET f == FreeTask(s)
           IN  /\ Good(f) /\ f.task.type = "none" /\ f.dl = s.dl /\ Beside(s, f)
<1> DEFINE f == FreeTask(s)
<1>1. s \in States
  BY DEF Good
<1>2. /\ Beside(s, f) /\ f.task.type = "none" /\ f.dl = s.dl /\ f.links = s.links /\ f.conn = s.conn
  BY <1>1, FreeTaskIs
<1> HIDE DEF f
<1>3. f \in States
  BY <1>2 DEF Beside
<1>4. Placed(f, Owners(s))
  BY <1>2 DEF Good, Placed, InProgress
<1>5. /\ \A i \in Locs : Owners(s)[Loc(i)] = Owners(f)[Loc(i)]
      /\ \A v \in Files : Owners(s)[Query(v)] = Owners(f)[Query(v)]
  BY <1>1, <1>2, <1>3, OwnersAre DEF Beside
<1>6. ~InProgress(f, Loading)
  BY <1>2 DEF InProgress
<1>7. Placed(f, Owners(f))
  BY <1>1, <1>3, <1>4, <1>5, <1>6, OwnersAre, Agreed
<1>8. History(f)
  BY <1>2 DEF Good, History, Beside
<1>9. \A b : Aimed(f, b) <=> Aimed(s, b)
  BY <1>2 DEF Aimed, Beside
<1>10. FreeLoc(f) <=> FreeLoc(s)
  BY <1>2 DEF FreeLoc, Beside
<1>11. Rests(f) <=> Rests(s)
  BY <1>2 DEF Rests, InProgress, Beside
<1>12. Waits(f)
  BY <1>2, <1>9, <1>10, <1>11 DEF Good, Waits, Beside
<1> QED
  BY <1>2, <1>3, <1>7, <1>8, <1>12 DEF Good, f

\* What the abort functions promise: nothing is loaded for a task.
AbortGives(s, a) == Good(a) /\ Beside(s, a) /\ a.task.type = "none"

\* abort_preloading() touches no download but ses->loading.
LEMMA AbortPreloadingKeeps ==
    ASSUME NEW s, NEW interrupt \in BOOLEAN, Good(s)
    PROVE  LET a == AbortPreloading(s, interrupt)
           IN  /\ AbortGives(s, a)
               /\ \A d \in Downloads : d # Loading => a.dl[d] = s.dl[d]
<1>1. CASE s.task.type = "none"
  BY <1>1 DEF AbortPreloading, AbortGives, Good, Beside
<1>2. CASE s.task.type # "none"
  <2> DEFINE c == Cancelled(s, Loading, interrupt)
             a == AbortPreloading(s, interrupt)
  <2>1. s \in States /\ Loading \in Downloads /\ Owners(s) \in OwnerMaps /\ Placed(s, Owners(s))
    BY DownloadsAre, OwnersAre DEF Good
  <2>2. Owners(s)[Loading] # None
    BY <1>2, <2>1, OwnersAre, SessionAssumption DEF Good, Waits
  <2>3. CancelGives(s, Loading, c, Owners(s))
    BY <2>1, <2>2, CancelledPlaced
  <2>4. a = FreeTask(c)
    BY <1>2 DEF AbortPreloading
  <2> HIDE DEF c, a
  <2>5. Rests(s) => Rests(c)
    <3>1. s.cur # None => Loc(s.cur) \in Downloads /\ Loc(s.cur) # Loading
      BY CurrentIs, DownloadsDiffer
    <3> QED
      BY <2>3, <3>1 DEF Rests, CancelGives, InProgress, Beside
  <2>6. Good(c)
    BY <2>3, <2>5, GoodBeside DEF CancelGives
  <2>7. Good(a) /\ a.task.type = "none" /\ a.dl = c.dl /\ Beside(c, a)
    BY <2>3, <2>4, <2>6, TaskFreed DEF CancelGives
  <2>8. Beside(s, a)
    BY <2>3, <2>7 DEF CancelGives, Beside
  <2> QED
    BY <2>3, <2>7, <2>8 DEF AbortGives, CancelGives, a
<1> QED
  BY <1>1, <1>2

\* abort_loading() brings the page to rest as well.
LEMMA AbortLoadingKeeps ==
    ASSUME NEW s, NEW interrupt \in BOOLEAN, Good(s)
    PROVE  LET a == AbortLoading(s, interrupt)
           IN  AbortGives(s, a) /\ Rests(a)
<1> DEFINE c == IF s.cur = None THEN s ELSE Cancelled(s, Loc(s.cur), interrupt)
           a == AbortLoading(s, interrupt)
<1>1. Good(c) /\ Beside(s, c) /\ Rests(c)
  <2>1. CASE s.cur = None
    BY <2>1 DEF Good, Beside, Rests
  <2>2. CASE s.cur # None
    <3>1. s \in States /\ Owners(s) \in OwnerMaps /\ Placed(s, Owners(s))
      BY OwnersAre DEF Good
    <3>2. CancelGives(s, Loc(s.cur), c, Owners(s))
      BY <2>2, <3>1, CurrentIs, CancelledPlaced
    <3> HIDE DEF c
    <3>3. Rests(c)
      BY <3>2 DEF Rests, CancelGives, Beside
    <3> QED
      BY <3>2, <3>3, GoodBeside DEF CancelGives
  <2> QED
    BY <2>1, <2>2
<1>2. a = AbortPreloading(c, interrupt)
  BY DEF AbortLoading
<1> HIDE DEF a, c
<1>3. AbortGives(c, a) /\ \A d \in Downloads : d # Loading => a.dl[d] = c.dl[d]
  BY <1>1, <1>2, AbortPreloadingKeeps
<1>4. Beside(s, a)
  BY <1>1, <1>3 DEF AbortGives, Beside
<1>5. Rests(a)
  <2>1. c.cur # None => Loc(c.cur) \in Downloads /\ Loc(c.cur) # Loading
    BY <1>1, CurrentIs, DownloadsDiffer
  <2> QED
    BY <1>1, <1>3, <2>1 DEF Rests, InProgress, AbortGives, Beside
<1> QED
  BY <1>3, <1>4, <1>5 DEF AbortGives, a

\* reload() loads the current page, for which nothing is loaded any more.
LEMMA ReloadKeeps ==
    ASSUME NEW s, NEW mode, Good(s), s.boxes = {}
    PROVE  Good(Reload(s, mode)) /\ Beside(s, Reload(s, mode))
<1> DEFINE a == AbortLoading(s, FALSE)
           r == Reload(s, mode)
<1>1. AbortGives(s, a) /\ Rests(a)
  BY AbortLoadingKeeps
<1>2. CASE a.cur = None
  BY <1>1, <1>2 DEF Reload, AbortGives
<1>3. CASE a.cur # None
  <2>1. r = LoadUri(a, a.uri[a.cur], Loc(a.cur), mode)
    BY <1>3 DEF Reload
  <2> HIDE DEF a, r
  <2>2. Good(a) /\ a.task.type = "none" /\ a.boxes = {} /\ a \in States
    BY <1>1 DEF AbortGives, Beside
  <2> DEFINE u == a.uri[a.cur]
             d == Loc(a.cur)
  <2>3. u \in Uris /\ d \in Downloads /\ Owners(a)[d] = u /\ d # Loading
    BY <1>3, <2>2, CurrentIs, DownloadsDiffer
  <2>4. ~InProgress(a, d)
    BY <1>1, <1>3 DEF Rests
  <2>5. Owners(a) \in OwnerMaps /\ Placed(a, Owners(a))
    BY <2>2, OwnersAre DEF Good
  <2>6. LoadGives(a, u, d, r, Owners(a))
    BY <2>1, <2>2, <2>3, <2>4, <2>5, LoadUriPlaced
  <2>7. With(Owners(a), d, u) = Owners(a)
    BY <2>3, <2>5 DEF With, OwnerMaps
  <2>8. Placed(r, Owners(a)) /\ Beside(a, r) /\ r.task = a.task
    BY <2>6, <2>7 DEF LoadGives
  <2>9. r \in States /\ Owners(r) = Owners(a)
    BY <2>8 DEF Owners, Beside
  <2>10. History(r)
    BY <2>2, <2>8 DEF Good, History, Beside
  <2>11. Waits(r)
    <3>1. FreeLoc(r) <=> FreeLoc(a)
      BY <2>8 DEF FreeLoc, Beside
    <3> QED
      BY <2>2, <2>8, <3>1 DEF Good, Waits, Beside
  <2>12. Beside(s, r)
    BY <1>1, <2>8 DEF AbortGives, Beside
  <2> QED
    BY <2>8, <2>9, <2>10, <2>11, <2>12 DEF Good, r
<1> QED
  BY <1>2, <1>3

-----------------------------------------------------------------------------
(* A task is given to a session that has none, and waits for nothing.      *)

\* A session that can be given a task.
Ready(s) == Good(s) /\ s.task.type = "none" /\ Alone(s)

\* ses_load(): the task, and the download that is to bring its page.
LEMMA SesLoadKeeps ==
    ASSUME NEW s, NEW u \in Uris, NEW loc \in Places, NEW mode, NEW type \in Types,
           Ready(s), Aimed(s, [type |-> type, uri |-> u, loc |-> loc])
    PROVE  Good(SesLoad(s, u, loc, mode, type)) /\ SesLoad(s, u, loc, mode, type).hist = s.hist
<1> DEFINE aim == [type |-> type, uri |-> u, loc |-> loc]
           t == [s EXCEPT !.task = aim]
           l == SesLoad(s, u, loc, mode, type)
<1>1. s \in States /\ s.task.type = "none" /\ Owners(s) \in OwnerMaps /\ Placed(s, Owners(s))
  BY OwnersAre DEF Ready, Good
<1>2. aim \in Tasks /\ aim.type = type /\ aim.uri = u /\ aim.loc = loc
  BY DEF Tasks, UriOrNone
<1>3. l = LoadUri(t, u, Loading, mode)
  BY DEF SesLoad
<1>4. Aimed(s, aim)
  OBVIOUS
<1> HIDE DEF aim, l
<1>5. Beside(s, t) /\ t.task = aim /\ t.dl = s.dl /\ t.links = s.links /\ t.conn = s.conn
  BY <1>1, <1>2, StatesAre DEF Beside
<1> HIDE DEF t
<1>6. t \in States /\ Placed(t, Owners(s))
  BY <1>1, <1>5 DEF Placed, Beside, InProgress
<1>7. Loading \in Downloads /\ Owners(s)[Loading] = None
  BY <1>1, OwnersAre, DownloadsAre
<1>8. LoadGives(t, u, Loading, l, Owners(s))
  BY <1>1, <1>3, <1>6, <1>7, LoadUriPlaced
<1>9. Beside(s, l) /\ l.task = aim
  BY <1>5, <1>8 DEF LoadGives, Beside
<1>10. l \in States
  BY <1>9 DEF Beside
<1>11. u \in UriOrNone /\ With(Owners(s), Loading, u) \in OwnerMaps
       /\ With(Owners(s), Loading, u)[Loading] = u
       /\ \A e \in Downloads : e # Loading => With(Owners(s), Loading, u)[e] = Owners(s)[e]
  BY <1>1, <1>7, WithIs DEF UriOrNone
<1>12. Placed(l, Owners(l))
  <2> DEFINE W == With(Owners(s), Loading, u)
  <2>1. W[Loading] = Owners(l)[Loading]
    BY <1>2, <1>4, <1>9, <1>10, <1>11, OwnersAre DEF Aimed
  <2>2. \A i \in Locs : W[Loc(i)] = Owners(l)[Loc(i)]
    BY <1>1, <1>9, <1>10, <1>11, OwnersAre, DownloadsAre, DownloadsDiffer DEF Beside
  <2>3. \A v \in Files : W[Query(v)] = Owners(l)[Query(v)]
    BY <1>1, <1>9, <1>10, <1>11, OwnersAre, DownloadsAre, DownloadsDiffer DEF Beside
  <2>4. Placed(l, W) /\ W \in OwnerMaps
    BY <1>8, <1>11 DEF LoadGives
  <2> HIDE DEF W
  <2> QED
    BY <1>10, <2>1, <2>2, <2>3, <2>4, Agreed
<1>13. History(l)
  BY <1>9 DEF Ready, Good, History, Beside
<1>14. Rests(l)
  <2>1. s.cur # None => Loc(s.cur) \in Downloads /\ Loc(s.cur) # Loading /\ ~InProgress(s, Loc(s.cur))
    BY CurrentIs, DownloadsDiffer DEF Ready, Alone, Rests
  <2>2. s.cur # None => ~InProgress(l, Loc(s.cur))
    BY <1>5, <1>8, <2>1 DEF LoadGives, InProgress
  <2> QED
    BY <1>9, <2>2 DEF Rests, Beside
<1>15. Alone(l) /\ Aimed(l, aim)
  BY <1>4, <1>9, <1>14 DEF Ready, Alone, Aimed, FreeLoc, Beside
<1>16. Waits(l)
  BY <1>2, <1>9, <1>15 DEF Waits, Alone, Ready, Beside
<1> QED
  BY <1>9, <1>10, <1>12, <1>13, <1>16 DEF Good, Beside, l

\* A field that nothing here depends on.
LEMMA CountIs ==
    ASSUME NEW s \in States, NEW k \in Counts
    PROVE  LET t == [s EXCEPT !.cnt = k]
           IN  /\ Beside(s, t) /\ t.task = s.task /\ t.dl = s.dl /\ t.links = s.links /\ t.conn = s.conn
               /\ t.entry = s.entry
BY StatesAre DEF Beside

\* ses_goto(), whether it asks the user first or loads.
LEMMA GotoKeeps ==
    ASSUME NEW s, NEW u \in Uris, NEW loc \in Places, NEW mode \in Modes, NEW type \in Types,
           NEW redir \in BOOLEAN,
           Ready(s), Aimed(s, [type |-> type, uri |-> u, loc |-> loc])
    PROVE  /\ Good(Goto(s, u, loc, mode, type, redir))
           /\ Goto(s, u, loc, mode, type, redir).hist = s.hist
<1> DEFINE g == IF redir THEN s ELSE [s EXCEPT !.cnt = 0]
           b == [type |-> type, uri |-> u, loc |-> loc, mode |-> mode]
           t == [g EXCEPT !.boxes = @ \cup {b}]
<1>1. s \in States /\ Good(s) /\ s.task.type = "none" /\ Alone(s)
  BY DEF Ready, Good
<1>2. 0 \in Counts
  BY SessionAssumption DEF Counts
<1>3. Beside(s, g) /\ g.task = s.task /\ g.dl = s.dl /\ g.links = s.links /\ g.conn = s.conn
  BY <1>1, <1>2, CountIs DEF Beside
<1>4. \/ Goto(s, u, loc, mode, type, redir) = t
      \/ Goto(s, u, loc, mode, type, redir) = SesLoad(g, u, loc, mode, type)
  BY DEF Goto
<1> HIDE DEF g
<1>5. Placed(g, Owners(s)) /\ (Rests(g) <=> Rests(s)) /\ (FreeLoc(g) <=> FreeLoc(s))
  BY <1>1, <1>3 DEF Good, Placed, Rests, FreeLoc, InProgress, Beside
<1>6. Good(g)
  BY <1>1, <1>3, <1>5, GoodBeside
<1>7. Ready(g)
  BY <1>1, <1>3, <1>5, <1>6 DEF Ready, Alone, Beside
<1>8. \A x : Aimed(g, x) <=> Aimed(s, x)
  BY <1>3 DEF Aimed, Beside
<1>9. Good(SesLoad(g, u, loc, mode, type)) /\ SesLoad(g, u, loc, mode, type).hist = s.hist
  BY <1>3, <1>7, <1>8, SesLoadKeeps DEF Beside
<1>10. Good(t) /\ t.hist = s.hist
  <2>1. g \in States /\ g.boxes = {} /\ Owners(g) \in OwnerMaps
    BY <1>6, <1>7, OwnersAre DEF Ready, Alone, Good
  <2>2. {b} \in Boxes
    BY DEF Boxes
  <2>3. t = [g EXCEPT !.boxes = {b}]
    BY <2>1, StatesAre
  <2>4. b.type = type /\ b.loc = loc /\ b.uri = u
    OBVIOUS
  <2> HIDE DEF b, t
  <2>5. /\ t \in States /\ t.boxes = {b} /\ t.hist = g.hist /\ t.cur = g.cur /\ t.uri = g.uri
        /\ t.queries = g.queries /\ t.task = g.task /\ t.dl = g.dl /\ t.links = g.links
        /\ t.conn = g.conn
    BY <2>1, <2>2, <2>3, StatesAre
  <2>6. Owners(t) = Owners(g)
    BY <2>5 DEF Owners
  <2>7. Placed(t, Owners(t))
    BY <1>6, <2>5, <2>6 DEF Good, Placed, InProgress
  <2>8. History(t)
    BY <1>6, <2>5 DEF Good, History
  <2>9. FreeLoc(t) /\ Rests(t)
    BY <1>7, <2>5 DEF Ready, Alone, FreeLoc, Rests, InProgress
  <2>10. Aimed(t, b)
    BY <1>8, <2>4, <2>5 DEF Aimed
  <2>11. t.queries = {} /\ t.task.type = "none"
    BY <1>7, <2>5 DEF Ready, Alone
  <2>12. Waits(t)
    BY <2>5, <2>9, <2>10, <2>11 DEF Waits
  <2> QED
    BY <1>3, <2>5, <2>7, <2>8, <2>12 DEF Good, Beside
<1> QED
  BY <1>4, <1>9, <1>10

\* do_redirect(): the old task has come to an end when the new one begins.
LEMMA RedirectedKeeps ==
    ASSUME NEW s, Good(s), s.task.type # "none", s.entry[s.task.uri].to # None, s.cnt < MaxRedirects
    PROVE  Good(Redirected(s)) /\ Redirected(s).hist = s.hist
<1> DEFINE t == s.task
           to == s.entry[t.uri].to
           k == s.cnt + 1
           n == [s EXCEPT !.cnt = k]
           a == AbortLoading(n, FALSE)
           GoesOn(r) == Good(r) /\ r.hist = a.hist
<1>1. s \in States /\ Placed(s, Owners(s))
  BY DEF Good
<1>2. t.uri \in Uris /\ Aimed(s, t) /\ Alone(s)
  BY DEF Good, Waits
<1>3. to \in Uris
  <2>1. s.entry \in EntryMaps
    BY <1>1, StatesAre
  <2> QED
    BY <1>2, <2>1 DEF EntryMaps, UriOrNone
<1>4. k \in Counts
  <2>1. s.cnt \in Counts
    BY <1>1, StatesAre
  <2> QED
    BY <2>1, SessionAssumption DEF Counts
<1>5. n = [s EXCEPT !.cnt = @ + 1]
  BY <1>1, StatesAre
<1> HIDE DEF k
<1>6. Beside(s, n) /\ n.task = s.task /\ n.dl = s.dl /\ n.links = s.links /\ n.conn = s.conn
  BY <1>1, <1>4, CountIs
<1> HIDE DEF n
<1>7. Placed(n, Owners(s)) /\ (Rests(s) => Rests(n))
  BY <1>1, <1>6 DEF Placed, Rests, InProgress, Beside
<1>8. Good(n)
  BY <1>6, <1>7, GoodBeside
<1>9. AbortGives(n, a) /\ Rests(a)
  BY <1>8, AbortLoadingKeeps
<1>10. Redirected(s) = CASE t.type = "forward" -> Goto(a, to, None, "normal", "forward", TRUE)
                         [] t.type = "history" -> Goto(a, to, t.loc, "normal", "reload", TRUE)
                         [] t.type = "reload"  -> Goto(a, to, None, "normal", "reload", TRUE)
  BY <1>5 DEF Redirected
<1> HIDE DEF a, to
<1>11. Beside(s, a)
  BY <1>6, <1>9 DEF AbortGives, Beside
<1>12. Ready(a)
  BY <1>2, <1>9, <1>11 DEF Ready, AbortGives, Alone, FreeLoc, Beside
<1>13. t.type \in {"forward", "history", "reload"} /\ t.loc \in Places
  BY <1>1, StatesAre DEF Tasks, Types
<1>14. /\ "normal" \in Modes /\ "forward" \in Types /\ "reload" \in Types /\ None \in Places
  BY DEF Modes, Types, Places
<1>15. CASE t.type = "forward"
  <2>1. Aimed(a, [type |-> "forward", uri |-> to, loc |-> None])
    BY DEF Aimed
  <2>2. GoesOn(Goto(a, to, None, "normal", "forward", TRUE))
    BY <1>3, <1>12, <1>14, <2>1, GotoKeeps
  <2> QED
    BY <1>11, <1>10, <1>15, <2>2 DEF Beside
<1>16. ASSUME t.type \in {"history", "reload"}, NEW loc \in Places
       PROVE  GoesOn(Goto(a, to, loc, "normal", "reload", TRUE))
  <2>1. a.cur # None
    BY <1>2, <1>11, <1>16 DEF Aimed, Beside
  <2>2. Aimed(a, [type |-> "reload", uri |-> to, loc |-> loc])
    BY <2>1 DEF Aimed
  <2> QED
    BY <1>3, <1>12, <1>14, <2>2, GotoKeeps
<1>17. CASE t.type = "history"
  <2>1. GoesOn(Goto(a, to, t.loc, "normal", "reload", TRUE))
    BY <1>13, <1>16, <1>17
  <2> QED
    BY <1>11, <1>10, <1>17, <2>1 DEF Beside
<1>18. CASE t.type = "reload"
  <2>1. GoesOn(Goto(a, to, None, "normal", "reload", TRUE))
    BY <1>14, <1>16, <1>18
  <2> QED
    BY <1>11, <1>10, <1>18, <2>1 DEF Beside
<1> QED
  BY <1>11, <1>13, <1>15, <1>17, <1>18 DEF Beside

-----------------------------------------------------------------------------
(* The history.                                                            *)

\* The sequence InsertAt() makes, entry by entry.
LEMMA InsertAtEntries ==
    ASSUME NEW S, NEW q \in Seq(S), NEW c \in S, NEW k \in 1 .. (Len(q) + 1)
    PROVE  /\ InsertAt(q, k, c) \in Seq(S)
           /\ DOMAIN InsertAt(q, k, c) = 1 .. (Len(q) + 1)
           /\ \A i \in 1 .. (Len(q) + 1) :
                InsertAt(q, k, c)[i] = IF i < k THEN q[i] ELSE IF i = k THEN c ELSE q[i - 1]
<1> DEFINE r == InsertAt(q, k, c)
           At(i) == IF i < k THEN q[i] ELSE IF i = k THEN c ELSE q[i - 1]
           A == SubSeq(q, 1, k - 1)
           B == SubSeq(q, k, Len(q))
<1>1. /\ A \in Seq(S) /\ Len(A) = k - 1
      /\ \A i \in 1 .. (k - 1) : A[i] = q[i]
  OBVIOUS
<1>2. /\ B \in Seq(S) /\ Len(B) = Len(q) - k + 1
      /\ \A i \in 1 .. (Len(q) - k + 1) : B[i] = q[k + i - 1]
  OBVIOUS
<1>3. /\ A \o <<c>> \in Seq(S) /\ Len(A \o <<c>>) = k
      /\ \A i \in 1 .. k : (A \o <<c>>)[i] = IF i < k THEN q[i] ELSE c
  <2> DEFINE M == <<c>>
             AM == A \o M
  <2>1. M \in Seq(S) /\ Len(M) = 1 /\ M[1] = c
    OBVIOUS
  <2>2. k \in Nat
    OBVIOUS
  <2> HIDE DEF A, M
  <2>3. /\ AM \in Seq(S) /\ Len(AM) = Len(A) + Len(M)
        /\ \A i \in 1 .. Len(A) + Len(M) : AM[i] =
             IF i <= Len(A) THEN A[i] ELSE M[i - Len(A)]
    BY <1>1, <2>1, ConcatProperties
  <2> HIDE DEF AM
  <2>4. AM \in Seq(S) /\ Len(AM) = k
    BY <1>1, <2>1, <2>2, <2>3
  <2>5. ASSUME NEW i \in 1 .. k
        PROVE  AM[i] = IF i < k THEN q[i] ELSE c
    <3>1. i \in 1 .. Len(A) + Len(M) /\ i \in Nat
      BY <1>1, <2>1, <2>2
    <3>2. AM[i] = IF i <= Len(A) THEN A[i] ELSE M[i - Len(A)]
      BY <2>3, <3>1
    <3>3. CASE i < k
      BY <1>1, <2>2, <3>1, <3>2, <3>3
    <3>4. CASE i = k
      <4>1. ~(i <= Len(A)) /\ i - Len(A) = 1
        BY <1>1, <2>2, <3>4
      <4> QED
        BY <2>1, <2>2, <3>2, <3>4, <4>1
    <3> QED
      BY <2>2, <3>1, <3>3, <3>4
  <2> QED
    BY <2>4, <2>5 DEF AM, M
<1>4. r \in Seq(S) /\ Len(r) = Len(q) + 1
  <2> DEFINE AM == A \o <<c>>
  <2>1. r = AM \o B
    BY DEF InsertAt
  <2>2. AM \in Seq(S) /\ Len(AM) = k
    BY <1>3
  <2> HIDE DEF AM, B, r
  <2>3. r \in Seq(S) /\ Len(r) = Len(AM) + Len(B)
    BY <2>1, <2>2, <1>2, ConcatProperties
  <2>4. k \in Nat /\ Len(q) \in Nat
    OBVIOUS
  <2> QED
    BY <2>2, <2>3, <2>4, <1>2
<1>5. \A i \in 1 .. (Len(q) + 1) : r[i] = At(i)
  <2> SUFFICES ASSUME NEW i \in 1 .. (Len(q) + 1)
               PROVE  r[i] = At(i)
    OBVIOUS
  <2> DEFINE AM == A \o <<c>>
  <2>1. r = AM \o B
    BY DEF InsertAt
  <2>2. /\ AM \in Seq(S) /\ Len(AM) = k
        /\ \A j \in 1 .. k : AM[j] = IF j < k THEN q[j] ELSE c
    BY <1>3
  <2>3. i \in Nat /\ k \in Nat /\ Len(q) \in Nat /\ i >= 1 /\ k >= 1
    OBVIOUS
  <2> HIDE DEF AM, A, B
  <2>4. \A j \in 1 .. Len(AM) + Len(B) :
          (AM \o B)[j] = IF j <= Len(AM) THEN AM[j] ELSE B[j - Len(AM)]
    BY <1>2, <2>2, ConcatProperties
  <2>5. i \in 1 .. Len(AM) + Len(B)
    BY <1>2, <2>2, <2>3
  <2>6. r[i] = IF i <= k THEN AM[i] ELSE B[i - k]
    BY <2>1, <2>2, <2>4, <2>5, Zenon
  <2>7. i <= k => AM[i] = IF i < k THEN q[i] ELSE c
    BY <2>2, <2>3
  <2>8. i > k => B[i - k] = q[i - 1]
    <3>1. i > k => i - k \in 1 .. (Len(q) - k + 1) /\ k + (i - k) - 1 = i - 1
      BY <2>3
    <3> QED
      BY <1>2, <3>1
  <2> QED
    BY <2>3, <2>6, <2>7, <2>8
<1>6. DOMAIN r = 1 .. (Len(q) + 1)
  BY <1>4
<1> QED
  BY <1>4, <1>5, <1>6

\* The sequence RemoveAt() makes, entry by entry.
LEMMA RemoveAtEntries ==
    ASSUME NEW S, NEW q \in Seq(S), NEW k \in DOMAIN q
    PROVE  /\ RemoveAt(q, k) \in Seq(S)
           /\ DOMAIN RemoveAt(q, k) = 1 .. (Len(q) - 1)
           /\ \A i \in 1 .. (Len(q) - 1) :
                RemoveAt(q, k)[i] = IF i < k THEN q[i] ELSE q[i + 1]
<1> DEFINE A == SubSeq(q, 1, k - 1)
           B == SubSeq(q, k + 1, Len(q))
<1>1. /\ A \in Seq(S) /\ Len(A) = k - 1
      /\ \A i \in 1 .. (k - 1) : A[i] = q[i]
  OBVIOUS
<1>2. /\ B \in Seq(S) /\ Len(B) = Len(q) - k
      /\ \A i \in 1 .. (Len(q) - k) : B[i] = q[k + i]
  OBVIOUS
<1>3. RemoveAt(q, k) = A \o B
  BY DEF RemoveAt
<1>4. k \in Nat /\ k >= 1 /\ Len(q) \in Nat /\ k <= Len(q)
  OBVIOUS
<1> HIDE DEF A, B
<1>5. /\ A \o B \in Seq(S) /\ Len(A \o B) = Len(A) + Len(B)
      /\ \A i \in 1 .. Len(A) + Len(B) : (A \o B)[i] =
           IF i <= Len(A) THEN A[i] ELSE B[i - Len(A)]
  BY <1>1, <1>2, ConcatProperties
<1>6. DOMAIN (A \o B) = 1 .. (Len(q) - 1)
  BY <1>1, <1>2, <1>4, <1>5
<1>7. ASSUME NEW i \in 1 .. (Len(q) - 1)
      PROVE  (A \o B)[i] = IF i < k THEN q[i] ELSE q[i + 1]
  <2>1. (A \o B)[i] = IF i <= Len(A) THEN A[i] ELSE B[i - Len(A)]
    <3>1. i \in 1 .. Len(A) + Len(B)
      BY <1>1, <1>2, <1>4
    <3> QED
      BY <1>5, <3>1, Zenon
  <2>2. CASE i < k
    BY <1>1, <1>4, <2>1, <2>2
  <2>3. CASE ~(i < k)
    <3>1. i - Len(A) \in 1 .. (Len(q) - k) /\ k + (i - Len(A)) = i + 1 /\ ~(i <= Len(A))
      BY <1>1, <1>4, <2>3
    <3> QED
      BY <1>2, <2>1, <2>3, <3>1
  <2> QED
    BY <2>2, <2>3
<1> QED
  BY <1>3, <1>5, <1>6, <1>7, Zenon

\* The sequence that is cut behind its k-th entry.
LEMMA CutEntries ==
    ASSUME NEW S, NEW q \in Seq(S), NEW k \in DOMAIN q
    PROVE  /\ SubSeq(q, 1, k) \in Seq(S)
           /\ DOMAIN SubSeq(q, 1, k) = 1 .. k
           /\ \A j \in 1 .. k : j \in DOMAIN q /\ SubSeq(q, 1, k)[j] = q[j]
OBVIOUS

\* A location that is new makes a list without repetitions again.
LEMMA InsertedRange ==
    ASSUME NEW S, NEW q \in Seq(S), NEW c \in S, NEW k \in 1 .. (Len(q) + 1),
           IsInjective(q), c \notin Range(q)
    PROVE  LET r == InsertAt(q, k, c)
           IN  r \in Seq(S) /\ IsInjective(r) /\ Range(r) = Range(q) \cup {c} /\ k \in DOMAIN r /\ r[k] = c
<1> DEFINE r == InsertAt(q, k, c)
<1> DEFINE At(i) == IF i < k THEN q[i] ELSE IF i = k THEN c ELSE q[i - 1]
<1>1. /\ r \in Seq(S) /\ DOMAIN r = 1 .. (Len(q) + 1)
      /\ \A i \in 1 .. (Len(q) + 1) : r[i] = At(i)
  <2>1. r \in Seq(S)
    BY InsertAtEntries
  <2>2. DOMAIN r = 1 .. (Len(q) + 1)
    BY InsertAtEntries
  <2>3. \A i \in 1 .. (Len(q) + 1) : r[i] = At(i)
    BY InsertAtEntries
  <2> QED
    BY <2>1, <2>2, <2>3
<1>2. DOMAIN q = 1 .. Len(q) /\ Len(q) \in Nat
  OBVIOUS
<1> HIDE DEF r
<1>3. Range(r) \subseteq Range(q) \cup {c}
  BY <1>1, <1>2 DEF Range
<1>4. k \in DOMAIN r /\ r[k] = c
  BY <1>1, <1>2
<1>5. ASSUME NEW i \in 1 .. Len(q)
      PROVE  q[i] \in Range(r)
  <2>1. CASE i < k
    BY <1>1, <1>2, <2>1 DEF Range
  <2>2. CASE i >= k
    <3>1. i + 1 \in 1 .. (Len(q) + 1) /\ r[i + 1] = q[i]
      BY <1>1, <1>2, <2>2
    <3> QED
      BY <1>1, <3>1 DEF Range
  <2>3. i < k \/ i >= k
    BY <1>2
  <2> QED
    BY <2>1, <2>2, <2>3
<1>6. Range(r) = Range(q) \cup {c}
  BY <1>2, <1>3, <1>4, <1>5 DEF Range
<1>7. IsInjective(r)
  <2>1. \A i \in 1 .. Len(q) : q[i] # c
    BY <1>2 DEF Range
  <2>2. \A i, j \in 1 .. Len(q) : q[i] = q[j] => i = j
    BY <1>2 DEF IsInjective
  <2> QED
    BY <1>1, <1>2, <2>1, <2>2 DEF IsInjective
<1> QED
  BY <1>1, <1>4, <1>6, <1>7 DEF r

\* Without a location the list holds the others, each once.
LEMMA RemovedRange ==
    ASSUME NEW S, NEW q \in Seq(S), NEW k \in DOMAIN q, IsInjective(q)
    PROVE  LET r == RemoveAt(q, k)
           IN  r \in Seq(S) /\ IsInjective(r) /\ Range(r) = Range(q) \ {q[k]}
<1> DEFINE r == RemoveAt(q, k)
<1>1. /\ r \in Seq(S) /\ DOMAIN r = 1 .. (Len(q) - 1)
      /\ \A i \in 1 .. (Len(q) - 1) : r[i] = IF i < k THEN q[i] ELSE q[i + 1]
  BY RemoveAtEntries
<1>2. DOMAIN q = 1 .. Len(q) /\ Len(q) \in Nat
  OBVIOUS
<1> HIDE DEF r
<1>3. \A i, j \in 1 .. Len(q) : q[i] = q[j] => i = j
  BY <1>2 DEF IsInjective
<1>4. IsInjective(r)
  BY <1>1, <1>2, <1>3 DEF IsInjective
<1>5. ASSUME NEW i \in 1 .. (Len(q) - 1)
      PROVE  r[i] \in Range(q) \ {q[k]}
  BY <1>1, <1>2, <1>3 DEF Range
<1>6. ASSUME NEW i \in 1 .. Len(q), i # k
      PROVE  q[i] \in Range(r)
  <2>1. CASE i < k
    <3>1. i \in 1 .. (Len(q) - 1) /\ r[i] = q[i]
      BY <1>1, <1>2, <2>1
    <3> QED
      BY <1>1, <3>1 DEF Range
  <2>2. CASE i > k
    <3>1. i - 1 \in 1 .. (Len(q) - 1) /\ r[i - 1] = q[i]
      BY <1>1, <1>2, <2>2
    <3> QED
      BY <1>1, <3>1 DEF Range
  <2> QED
    BY <1>2, <1>6, <2>1, <2>2
<1>7. Range(r) = Range(q) \ {q[k]}
  BY <1>1, <1>2, <1>5, <1>6 DEF Range
<1> QED
  BY <1>1, <1>4, <1>7 DEF r

\* A list that is cut holds what stood in front, each once, and what was cut
\* is not among it.
LEMMA CutRange ==
    ASSUME NEW S, NEW q \in Seq(S), NEW k \in DOMAIN q, IsInjective(q)
    PROVE  LET r == SubSeq(q, 1, k)
           IN  /\ r \in Seq(S) /\ IsInjective(r) /\ q[k] \in Range(r)
               /\ Range(r) = Range(q) \ {q[j] : j \in k + 1 .. Len(q)}
<1> DEFINE r == SubSeq(q, 1, k)
<1>1. /\ r \in Seq(S) /\ DOMAIN r = 1 .. k
      /\ \A j \in 1 .. k : j \in DOMAIN q /\ r[j] = q[j]
  BY CutEntries
<1>2. DOMAIN q = 1 .. Len(q) /\ Len(q) \in Nat
  OBVIOUS
<1> HIDE DEF r
<1>3. \A i, j \in 1 .. Len(q) : q[i] = q[j] => i = j
  BY <1>2 DEF IsInjective
<1>4. IsInjective(r) /\ q[k] \in Range(r)
  BY <1>1, <1>2, <1>3 DEF IsInjective, Range
<1>5. ASSUME NEW x \in Range(r)
      PROVE  x \in Range(q) \ {q[j] : j \in k + 1 .. Len(q)}
  <2>1. PICK i \in 1 .. k : x = r[i]
    BY <1>1 DEF Range
  <2>2. x = q[i] /\ i \in 1 .. Len(q)
    BY <1>1, <1>2, <2>1
  <2>3. x \in Range(q)
    BY <1>2, <2>2 DEF Range
  <2>4. ASSUME NEW j \in k + 1 .. Len(q), x = q[j]
        PROVE  FALSE
    <3>1. j \in 1 .. Len(q) /\ i # j
      BY <1>2, <2>1
    <3> QED
      BY <1>3, <2>2, <2>4, <3>1
  <2> QED
    BY <2>3, <2>4
<1>6. ASSUME NEW x \in Range(q) \ {q[j] : j \in k + 1 .. Len(q)}
      PROVE  x \in Range(r)
  <2>1. PICK i \in 1 .. Len(q) : x = q[i]
    BY <1>2 DEF Range
  <2>2. i \in 1 .. k
    BY <1>2, <1>6, <2>1
  <2>3. r[i] = x
    BY <1>1, <2>1, <2>2
  <2> QED
    BY <1>1, <2>2, <2>3 DEF Range
<1>7. Range(r) = Range(q) \ {q[j] : j \in k + 1 .. Len(q)}
  BY <1>5, <1>6
<1> QED
  BY <1>1, <1>4, <1>7 DEF r

\* From s to t nothing changes but the history and the downloads of locations.
Turned(s, t) ==
    /\ t \in States /\ History(t)
    /\ t.task = s.task /\ t.boxes = s.boxes /\ t.queries = s.queries
    /\ t.links = s.links /\ t.conn = s.conn
    /\ t.dl[Loading] = s.dl[Loading] /\ \A v \in Files : t.dl[Query(v)] = s.dl[Query(v)]

\* How many pages there are up to the current one.
Position(s) == IF s.cur = None THEN 0 ELSE Index(s, s.cur)

\* A location of the list is found in it.
LEMMA IndexIs ==
    ASSUME NEW s \in States, NEW i \in Range(s.hist)
    PROVE  Index(s, i) \in DOMAIN s.hist /\ s.hist[Index(s, i)] = i
<1>1. \E k \in DOMAIN s.hist : s.hist[k] = i
  BY DEF Range
<1> QED
  BY <1>1 DEF Index

\* The current location is found at its position.
LEMMA PositionIs ==
    ASSUME NEW s \in States, History(s)
    PROVE  /\ s.hist \in Seq(Locs)
           /\ Position(s) \in Nat /\ Position(s) <= Len(s.hist)
           /\ s.cur # None => Position(s) \in DOMAIN s.hist /\ s.hist[Position(s)] = s.cur /\ s.cur \in Locs
           /\ s.cur = None => s.hist = <<>> /\ Position(s) = 0
<1>1. s.hist \in Seq(Locs)
  BY StatesAre DEF Hists
<1>2. ASSUME s.cur # None
      PROVE  Position(s) \in DOMAIN s.hist /\ s.hist[Position(s)] = s.cur /\ s.cur \in Locs
  <2>1. s.cur \in Range(s.hist)
    BY <1>2 DEF History
  <2>2. s.cur \in Locs
    BY <1>2, StatesAre DEF Currents
  <2> QED
    BY <1>2, <2>1, <2>2, IndexIs DEF Position
<1>3. ASSUME s.cur = None
      PROVE  s.hist = <<>> /\ Position(s) = 0
  <2>1. None \notin Range(s.hist)
    BY <1>1, SessionAssumption DEF Range
  <2> QED
    BY <1>3, <2>1 DEF History, Position
<1> QED
  BY <1>1, <1>2, <1>3

\* destroy_location() field by field.
LEMMA DestroyedIs ==
    ASSUME NEW s \in States, NEW gone \in SUBSET Locs
    PROVE  LET t == Destroyed(s, gone)
           IN  /\ t \in States
               /\ t.hist = s.hist /\ t.cur = s.cur /\ t.task = s.task
               /\ t.boxes = s.boxes /\ t.queries = s.queries /\ t.links = s.links /\ t.conn = s.conn
               /\ \A i \in Locs \ gone : t.uri[i] = s.uri[i]
               /\ t.dl[Loading] = s.dl[Loading]
               /\ \A v \in Files : t.dl[Query(v)] = s.dl[Query(v)]
<1> DEFINE uris == [i \in Locs |-> IF i \in gone THEN None ELSE s.uri[i]]
           dls == [d \in Downloads |-> IF \E i \in gone : d = Loc(i) THEN Blank ELSE s.dl[d]]
           t == Destroyed(s, gone)
<1>1. t = [s EXCEPT !.uri = uris, !.dl = dls]
  BY StatesAre DEF Destroyed
<1>2. s.uri \in UriMaps /\ s.dl \in DlMaps
  BY StatesAre
<1>3. uris \in UriMaps
  BY <1>2 DEF UriMaps, UriOrNone
<1>4. dls \in DlMaps
  <2>1. Blank \in [state : Results \cup {"wait", "trans"}, conn : UriOrNone]
    BY DEF Blank, UriOrNone
  <2> QED
    BY <1>2, <2>1 DEF DlMaps
<1>5. \A i \in Locs \ gone : uris[i] = s.uri[i]
  OBVIOUS
<1>6. dls[Loading] = s.dl[Loading] /\ \A v \in Files : dls[Query(v)] = s.dl[Query(v)]
  BY DownloadsAre, DownloadsDiffer
<1> HIDE DEF uris, dls
<1>7. t \in States
  BY <1>1, <1>3, <1>4, StatesAre
<1>8. /\ t.uri = uris /\ t.dl = dls
      /\ t.hist = s.hist /\ t.cur = s.cur /\ t.task = s.task
      /\ t.boxes = s.boxes /\ t.queries = s.queries /\ t.links = s.links /\ t.conn = s.conn
  BY <1>1, StatesAre
<1> QED
  BY <1>5, <1>6, <1>7, <1>8

\* What clean_unhistory() promises: the list up to the current location, with
\* the pages it had.
CleanGives(s, t) ==
    /\ Turned(s, t) /\ t.cur = s.cur
    /\ t.hist = SubSeq(s.hist, 1, Position(s))
    /\ t.cur \in Range(t.hist)
    /\ Range(t.hist) \subseteq Range(s.hist)
    /\ \A i \in Range(t.hist) : t.uri[i] = s.uri[i]

\* clean_unhistory() frees what follows and nothing else.
LEMMA CleanUnhistoryIs ==
    ASSUME NEW s \in States, History(s), s.cur # None
    PROVE  CleanGives(s, CleanUnhistory(s))
<1> DEFINE k == Position(s)
           gone == {s.hist[j] : j \in k + 1 .. Len(s.hist)}
           r == SubSeq(s.hist, 1, k)
           e == Destroyed(s, gone)
           t == CleanUnhistory(s)
<1>1. s.hist \in Seq(Locs) /\ k \in DOMAIN s.hist /\ s.hist[k] = s.cur
  BY PositionIs
<1>2. gone \in SUBSET Locs
  BY <1>1
<1>3. r \in Seq(Locs) /\ IsInjective(r) /\ s.cur \in Range(r) /\ Range(r) = Range(s.hist) \ gone
  BY <1>1, CutRange DEF History
<1>4. /\ e \in States
      /\ e.hist = s.hist /\ e.cur = s.cur /\ e.task = s.task
      /\ e.boxes = s.boxes /\ e.queries = s.queries /\ e.links = s.links /\ e.conn = s.conn
      /\ \A i \in Locs \ gone : e.uri[i] = s.uri[i]
      /\ e.dl[Loading] = s.dl[Loading]
      /\ \A v \in Files : e.dl[Query(v)] = s.dl[Query(v)]
  BY <1>2, DestroyedIs
<1>5. t = [e EXCEPT !.hist = r]
  <2>1. t = [e EXCEPT !.hist = SubSeq(@, 1, k)]
    BY DEF CleanUnhistory, Position
  <2> HIDE DEF e, k
  <2> QED
    BY <1>4, <2>1, StatesAre
<1> HIDE DEF t, e, r, gone, k
<1>6. r \in Hists
  BY <1>3 DEF Hists
<1>7. /\ t \in States /\ t.hist = r /\ t.cur = e.cur /\ t.uri = e.uri /\ t.task = e.task
      /\ t.boxes = e.boxes /\ t.queries = e.queries /\ t.links = e.links /\ t.conn = e.conn
      /\ t.dl = e.dl
  BY <1>4, <1>5, <1>6, StatesAre
<1>8. \A i \in Range(r) : i \in Range(s.hist) /\ i \in Locs \ gone
  BY <1>1, <1>3 DEF Range
<1>9. \A i \in Range(r) : t.uri[i] = s.uri[i]
  BY <1>4, <1>7, <1>8
<1>10. History(t)
  <2>1. r # <<>>
    BY <1>3 DEF Range
  <2> QED
    BY <1>3, <1>4, <1>7, <1>8, <1>9, <2>1 DEF History
<1>11. Turned(s, t)
  BY <1>4, <1>7, <1>10 DEF Turned
<1> QED
  BY <1>3, <1>4, <1>7, <1>8, <1>9, <1>11 DEF CleanGives, t, r, k

\* What ses_forward() promises before it cleans: a location that is new and
\* current, with the page, behind the one that was.
AnotherGives(s, u, t) ==
    /\ Turned(s, t)
    /\ t.cur \in Locs /\ t.cur \notin Range(s.hist) /\ t.uri[t.cur] = u
    /\ Range(t.hist) = Range(s.hist) \cup {t.cur}
    /\ t.hist = InsertAt(s.hist, Position(s) + 1, t.cur)
    /\ Position(s) + 1 \in DOMAIN t.hist /\ t.hist[Position(s) + 1] = t.cur
    /\ \A i \in Range(s.hist) : t.uri[i] = s.uri[i]

\* ses_forward() with add_to_history(), while a location is free.
LEMMA AnotherIs ==
    ASSUME NEW s \in States, History(s), FreeLoc(s), NEW u \in Uris
    PROVE  AnotherGives(s, u, Another(s, u))
<1> DEFINE i == CHOOSE j \in Locs : j \notin Range(s.hist)
           uris == [s.uri EXCEPT ![i] = u]
           dls == [s.dl EXCEPT ![Loc(i)] = s.dl[Loading]]
           k == Position(s) + 1
           r == InsertAt(s.hist, k, i)
           n == [s EXCEPT !.uri = uris, !.dl = dls]
           t == Another(s, u)
<1>1. i \in Locs /\ i \notin Range(s.hist)
  BY DEF FreeLoc
<1>a. t = AddToHistory([s EXCEPT !.uri[i] = u, !.dl[Loc(i)] = s.dl[Loading]], i)
  BY DEF Another
<1> HIDE DEF i
<1>2. s.uri \in UriMaps /\ s.dl \in DlMaps /\ s.hist \in Seq(Locs)
  BY StatesAre DEF Hists
<1>3. uris \in UriMaps /\ uris[i] = u /\ \A j \in Locs : j # i => uris[j] = s.uri[j]
  BY <1>1, <1>2 DEF UriMaps, UriOrNone
<1>4. dls \in DlMaps /\ dls[Loading] = s.dl[Loading] /\ \A v \in Files : dls[Query(v)] = s.dl[Query(v)]
  BY <1>1, <1>2, DownloadsAre, DownloadsDiffer DEF DlMaps
<1>5. k \in 1 .. (Len(s.hist) + 1)
  BY PositionIs
<1>6. r \in Seq(Locs) /\ IsInjective(r) /\ Range(r) = Range(s.hist) \cup {i} /\ k \in DOMAIN r /\ r[k] = i
  BY <1>1, <1>2, <1>5, InsertedRange DEF History
<1>b. t = AddToHistory(n, i)
  BY <1>1, <1>2, <1>a, StatesAre
<1> HIDE DEF uris, dls
<1>7. /\ n \in States /\ n.hist = s.hist /\ n.cur = s.cur /\ n.uri = uris /\ n.task = s.task
      /\ n.boxes = s.boxes /\ n.queries = s.queries /\ n.links = s.links /\ n.conn = s.conn
      /\ n.dl = dls
  BY <1>3, <1>4, StatesAre
<1> HIDE DEF n
<1>8. t = [n EXCEPT !.hist = r, !.cur = i]
  <2>1. (IF n.cur = None THEN 0 ELSE Index(n, n.cur)) + 1 = k
    BY <1>7 DEF Position, Index
  <2>2. t = [n EXCEPT !.hist = InsertAt(@, (IF n.cur = None THEN 0 ELSE Index(n, n.cur)) + 1, i), !.cur = i]
    BY <1>b DEF AddToHistory
  <2> HIDE DEF k
  <2>3. t = [n EXCEPT !.hist = InsertAt(n.hist, k, i), !.cur = i]
    BY <1>7, <2>1, <2>2, StatesAre
  <2> QED
    BY <1>7, <2>3
<1> HIDE DEF r, t
<1>9. r \in Hists /\ i \in Currents
  BY <1>1, <1>6 DEF Hists, Currents
<1>10. /\ t \in States /\ t.hist = r /\ t.cur = i /\ t.uri = n.uri /\ t.task = n.task
       /\ t.boxes = n.boxes /\ t.queries = n.queries /\ t.links = n.links /\ t.conn = n.conn
       /\ t.dl = n.dl
  BY <1>7, <1>8, <1>9, StatesAre
<1>11. \A j \in Range(s.hist) : t.uri[j] = s.uri[j]
  <2>1. \A j \in Range(s.hist) : j \in Locs /\ j # i
    BY <1>1, <1>2 DEF Range
  <2> QED
    BY <1>3, <1>7, <1>10, <2>1
<1>12. History(t)
  <2>1. r # <<>> /\ i \in Range(r)
    BY <1>6 DEF Range
  <2>2. \A j \in Range(r) : t.uri[j] \in Uris
    BY <1>3, <1>6, <1>7, <1>10, <1>11 DEF History
  <2> QED
    BY <1>6, <1>10, <2>1, <2>2 DEF History
<1>13. Turned(s, t)
  BY <1>4, <1>7, <1>10, <1>12 DEF Turned
<1> QED
  BY <1>1, <1>3, <1>6, <1>7, <1>10, <1>11, <1>13 DEF AnotherGives, t, r

\* The current location goes.
DeleteGives(s, t) ==
    /\ Turned(s, t)
    /\ Range(t.hist) = Range(s.hist) \ {s.cur}

\* del_from_history() leaves a location next to it current, or none.
LEMMA DeletedIs ==
    ASSUME NEW s \in States, History(s), s.cur # None
    PROVE  DeleteGives(s, Deleted(s, s.cur))
<1> DEFINE k == Index(s, s.cur)
           near == IF k > 1 THEN s.hist[k - 1] ELSE IF Len(s.hist) > 1 THEN s.hist[2] ELSE None
           e == Destroyed(s, {s.cur})
           r == RemoveAt(s.hist, k)
           t == Deleted(s, s.cur)
<1>1. /\ s.hist \in Seq(Locs) /\ k \in DOMAIN s.hist /\ s.hist[k] = s.cur /\ s.cur \in Locs
  BY PositionIs DEF Position
<1>2. /\ e \in States
      /\ e.hist = s.hist /\ e.cur = s.cur /\ e.task = s.task
      /\ e.boxes = s.boxes /\ e.queries = s.queries /\ e.links = s.links /\ e.conn = s.conn
      /\ \A i \in Locs \ {s.cur} : e.uri[i] = s.uri[i]
      /\ e.dl[Loading] = s.dl[Loading]
      /\ \A v \in Files : e.dl[Query(v)] = s.dl[Query(v)]
  BY <1>1, DestroyedIs
<1>3. r \in Seq(Locs) /\ IsInjective(r) /\ Range(r) = Range(s.hist) \ {s.cur}
  BY <1>1, RemovedRange DEF History
<1>4. near \in (IF r = <<>> THEN {None} ELSE Range(r))
  <2>1. DOMAIN s.hist = 1 .. Len(s.hist) /\ Len(s.hist) \in Nat /\ k \in Nat
    BY <1>1
  <2>2. \A i, j \in DOMAIN s.hist : s.hist[i] = s.hist[j] => i = j
    BY DEF History, IsInjective
  <2>3. CASE k > 1
    <3>1. k - 1 \in DOMAIN s.hist /\ k - 1 # k
      BY <1>1, <2>1, <2>3
    <3>2. near \in Range(s.hist) /\ near # s.cur
      BY <1>1, <2>2, <2>3, <3>1 DEF Range
    <3>3. near \in Range(r)
      BY <1>3, <3>2
    <3>4. r # <<>>
      BY <3>3 DEF Range
    <3> QED
      BY <3>3, <3>4
  <2>4. CASE ~(k > 1) /\ Len(s.hist) > 1
    <3>1. 2 \in DOMAIN s.hist /\ 2 # k
      BY <1>1, <2>1, <2>4
    <3>2. near \in Range(s.hist) /\ near # s.cur
      BY <1>1, <2>2, <2>4, <3>1 DEF Range
    <3>3. near \in Range(r)
      BY <1>3, <3>2
    <3>4. r # <<>>
      BY <3>3 DEF Range
    <3> QED
      BY <3>3, <3>4
  <2>5. CASE ~(k > 1) /\ ~(Len(s.hist) > 1)
    <3>1. DOMAIN s.hist = {1} /\ k = 1
      BY <1>1, <2>1, <2>5
    <3>2. DOMAIN r = 1 .. (Len(s.hist) - 1)
      BY <1>1, RemoveAtEntries
    <3>4. Len(s.hist) = 1
      <4>1. 1 \in 1 .. Len(s.hist)
        BY <2>1, <3>1
      <4>2. \A n \in Nat : 1 \in 1 .. n /\ ~(n > 1) => n = 1
        OBVIOUS
      <4> QED
        BY <2>1, <2>5, <4>1, <4>2, Zenon
    <3>5. Len(r) = 0
      BY <1>3, <3>2, <3>4
    <3>3. r = <<>>
      BY <1>3, <3>5
    <3> QED
      BY <2>5, <3>3
  <2> QED
    BY <2>3, <2>4, <2>5
<1>5. t = [e EXCEPT !.cur = near, !.hist = r]
  <2>1. t = [e EXCEPT !.cur = near, !.hist = RemoveAt(@, k)]
    BY DEF Deleted
  <2> HIDE DEF e, near, k
  <2> QED
    BY <1>2, <2>1, StatesAre
<1> HIDE DEF t, e, r, near, k
<1>6. r \in Hists /\ near \in Currents
  BY <1>3, <1>4 DEF Hists, Currents, Range
<1>7. /\ t \in States /\ t.hist = r /\ t.cur = near /\ t.uri = e.uri /\ t.task = e.task
      /\ t.boxes = e.boxes /\ t.queries = e.queries /\ t.links = e.links /\ t.conn = e.conn
      /\ t.dl = e.dl
  BY <1>2, <1>5, <1>6, StatesAre
<1>8. \A i \in Range(r) : i \in Range(s.hist) /\ i \in Locs \ {s.cur}
  <2>1. Range(s.hist) \subseteq Locs
    BY <1>1 DEF Range
  <2> QED
    BY <1>3, <2>1
<1>9. History(t)
  BY <1>2, <1>3, <1>4, <1>7, <1>8 DEF History
<1>10. Turned(s, t)
  BY <1>2, <1>7, <1>9 DEF Turned
<1> QED
  BY <1>3, <1>7, <1>10 DEF DeleteGives, t

\* A page in its place: right behind the current one.
Placement(s, t) ==
    LET rest == IF s.task.type = "forward" THEN <<>>
                ELSE SubSeq(s.hist, Position(s) + 1, Len(s.hist))
    IN  /\ t.hist = SubSeq(s.hist, 1, Position(s)) \o <<t.cur>> \o rest
        /\ \A j \in 1 .. Position(s) : t.uri[s.hist[j]] = s.uri[s.hist[j]]

\* What ses_forward() promises: the page in its place, in front of what
\* the task lets stay.
ForwardGives(s, u, t) ==
    /\ Turned(s, t)
    /\ t.cur \in Locs /\ t.cur \in Range(t.hist) /\ t.uri[t.cur] = u
    /\ Range(t.hist) \subseteq Range(s.hist) \cup {t.cur}
    /\ Placement(s, t)

\* r is q with c as its k-th entry.
InsertedAs(q, k, c, r) ==
    \A i \in 1 .. (Len(q) + 1) : r[i] = IF i < k THEN q[i] ELSE IF i = k THEN c ELSE q[i - 1]

\* InsertAt() is that.
LEMMA InsertAtIs ==
    ASSUME NEW S, NEW q \in Seq(S), NEW c \in S, NEW k \in 1 .. (Len(q) + 1)
    PROVE  InsertedAs(q, k, c, InsertAt(q, k, c))
<1> DEFINE r == InsertAt(q, k, c)
           At(i) == IF i < k THEN q[i] ELSE IF i = k THEN c ELSE q[i - 1]
<1>1. \A i \in 1 .. (Len(q) + 1) : r[i] = At(i)
  BY InsertAtEntries
<1> HIDE DEF r
<1> QED
  BY <1>1 DEF InsertedAs, r

\* What is left of a sequence when it is cut behind what was inserted.
LEMMA InsertedCut ==
    ASSUME NEW S, NEW q \in Seq(S), NEW c \in S, NEW k \in Nat, k <= Len(q)
    PROVE  SubSeq(InsertAt(q, k + 1, c), 1, k + 1) = SubSeq(q, 1, k) \o <<c>> \o <<>>
<1> DEFINE r == InsertAt(q, k + 1, c)
           l == SubSeq(r, 1, k + 1)
           h == SubSeq(q, 1, k)
           a == h \o <<c>>
<1>1. k + 1 \in 1 .. (Len(q) + 1)
  OBVIOUS
<1>2. r \in Seq(S) /\ DOMAIN r = 1 .. (Len(q) + 1)
  BY <1>1, InsertAtEntries
<1>3. InsertedAs(q, k + 1, c, r)
  BY <1>1, InsertAtIs, Zenon
<1> HIDE DEF r
<1>4. k + 1 \in DOMAIN r
  BY <1>1, <1>2
<1>5. l \in Seq(S) /\ DOMAIN l = 1 .. k + 1 /\ \A j \in 1 .. k + 1 : l[j] = r[j]
  BY <1>2, <1>4, CutEntries
<1>6. h \in Seq(S) /\ Len(h) = k /\ \A j \in 1 .. k : h[j] = q[j]
  OBVIOUS
<1> HIDE DEF l, h
<1>7. a \in Seq(S) /\ Len(a) = k + 1 /\ (\A j \in 1 .. k : a[j] = h[j]) /\ a[k + 1] = c
  BY <1>6
<1>8. a \o <<>> = a
  BY <1>7
<1>9. \A j \in 1 .. k + 1 : l[j] = a[j]
  <2> SUFFICES ASSUME NEW j \in 1 .. k + 1
               PROVE  l[j] = a[j]
    OBVIOUS
  <2>1. j \in 1 .. (Len(q) + 1) /\ l[j] = r[j]
    BY <1>5
  <2>2. r[j] = IF j < k + 1 THEN q[j] ELSE c
    BY <1>3, <2>1 DEF InsertedAs
  <2>3. CASE j < k + 1
    BY <1>6, <1>7, <2>1, <2>2, <2>3
  <2>4. CASE j = k + 1
    BY <1>7, <2>1, <2>2, <2>4
  <2>5. j < k + 1 \/ j = k + 1
    OBVIOUS
  <2> QED
    BY <2>3, <2>4, <2>5
<1> HIDE DEF a
<1>10. l = a
  <2>1. Len(l) = k + 1
    BY <1>5
  <2> QED
    BY <1>5, <1>7, <1>9, <2>1, SeqEqual
<1> QED
  BY <1>8, <1>10 DEF l, r, a, h

\* ses_forward(), for every task.
LEMMA ForwardIs ==
    ASSUME NEW s \in States, History(s), FreeLoc(s), NEW u \in Uris
    PROVE  ForwardGives(s, u, Forward(s, u)) /\ Forward(s, u).cur \notin Range(s.hist)
<1> DEFINE a == Another(s, u)
           k == Position(s)
<1>1. AnotherGives(s, u, a)
  BY AnotherIs
<1> HIDE DEF a
<1>2. /\ a \in States /\ History(a) /\ a.cur \in Locs /\ a.cur \notin Range(s.hist)
      /\ a.cur \in Range(a.hist) /\ k + 1 \in DOMAIN a.hist /\ a.hist[k + 1] = a.cur
  BY <1>1 DEF AnotherGives, Turned
<1>3. s.hist \in Seq(Locs) /\ k \in Nat /\ k <= Len(s.hist)
  BY PositionIs
<1>4. \A j \in 1 .. k : s.hist[j] \in Range(s.hist)
  BY <1>3 DEF Range
<1>5. CASE s.task.type # "forward"
  <2>1. Forward(s, u) = a
    BY <1>5 DEF Forward, a
  <2>2. a.hist = SubSeq(s.hist, 1, (k + 1) - 1) \o <<a.cur>> \o SubSeq(s.hist, k + 1, Len(s.hist))
    BY <1>1 DEF AnotherGives, InsertAt
  <2>3. (k + 1) - 1 = k
    BY <1>3
  <2>4. a.hist = SubSeq(s.hist, 1, k) \o <<a.cur>> \o SubSeq(s.hist, k + 1, Len(s.hist))
    BY <2>2, <2>3
  <2>5. Placement(s, a)
    BY <1>1, <1>4, <1>5, <2>4 DEF Placement, AnotherGives
  <2> QED
    BY <1>1, <1>2, <2>1, <2>5 DEF ForwardGives, AnotherGives
<1>6. CASE s.task.type = "forward"
  <2> DEFINE t == CleanUnhistory(a)
  <2>1. Forward(s, u) = t
    BY <1>6 DEF Forward, a
  <2>2. a.cur # None
    BY <1>2, SessionAssumption
  <2>3. CleanGives(a, t)
    BY <1>2, <2>2, CleanUnhistoryIs
  <2> HIDE DEF t
  <2>4. Position(a) = k + 1
    <3>1. Position(a) \in DOMAIN a.hist /\ a.hist[Position(a)] = a.cur
      BY <1>2, <2>2, PositionIs
    <3> QED
      BY <1>2, <3>1 DEF History, IsInjective
  <2>5. t.hist = SubSeq(s.hist, 1, k) \o <<t.cur>> \o <<>>
    <3>1. t.hist = SubSeq(InsertAt(s.hist, k + 1, t.cur), 1, k + 1)
      BY <1>1, <2>3, <2>4 DEF CleanGives, AnotherGives
    <3>2. t.cur \in Locs
      BY <1>2, <2>3 DEF CleanGives
    <3> QED
      BY <1>3, <3>1, <3>2, InsertedCut
  <2>6. ASSUME NEW j \in 1 .. k
        PROVE  t.uri[s.hist[j]] = s.uri[s.hist[j]]
    <3>1. s.hist[j] \in Range(s.hist)
      BY <1>4
    <3>2. s.hist[j] \in Range(t.hist)
      <4>1. k + 1 \in 1 .. (Len(s.hist) + 1) /\ j \in 1 .. (Len(s.hist) + 1) /\ j < k + 1 /\ a.cur \in Locs
        BY <1>2, <1>3
      <4>2. a.hist[j] = s.hist[j]
        <5>1. a.hist = InsertAt(s.hist, k + 1, a.cur)
          BY <1>1 DEF AnotherGives
        <5>2. InsertedAs(s.hist, k + 1, a.cur, a.hist)
          BY <1>3, <4>1, <5>1, InsertAtIs, Zenon
        <5> QED
          BY <4>1, <5>2 DEF InsertedAs
      <4>3. a.hist \in Seq(Locs)
        BY <1>2, StatesAre DEF Hists
      <4>4. j \in 1 .. k + 1
        BY <1>3
      <4>5. /\ DOMAIN t.hist = 1 .. k + 1
            /\ t.hist[j] = a.hist[j]
        BY <1>2, <2>3, <2>4, <4>3, <4>4, CutEntries DEF CleanGives
      <4> QED
        BY <4>2, <4>4, <4>5 DEF Range
    <3> QED
      BY <1>1, <2>3, <3>1, <3>2 DEF CleanGives, AnotherGives
  <2>7. Placement(s, t)
    BY <1>6, <2>5, <2>6 DEF Placement
  <2>8. Turned(s, t)
    BY <1>1, <2>3 DEF AnotherGives, CleanGives, Turned
  <2>9. /\ t.cur = a.cur /\ t.cur \in Range(t.hist) /\ t.uri[t.cur] = u
        /\ Range(t.hist) \subseteq Range(s.hist) \cup {t.cur}
    BY <1>1, <2>3 DEF AnotherGives, CleanGives
  <2> QED
    BY <1>2, <2>1, <2>7, <2>8, <2>9 DEF ForwardGives
<1> QED
  BY <1>5, <1>6

\* What ses_history_move() promises: the current location has the page of the
\* task, and the list changes only if that was no longer the page there.
MoveTo(s, t) ==
    /\ Turned(s, t) /\ t.cur # None
    /\ FreeLoc(s) => FreeLoc(t)
    /\ s.task.loc \notin {None, ListHead} => t.uri[t.cur] = s.task.uri
    /\ s.task.loc \in {None, ListHead} \/ s.uri[s.task.loc] = s.task.uri => t.hist = s.hist

\* ses_history_move(), whether the location keeps its page or is remade.
LEMMA HistoryMoveIs ==
    ASSUME NEW s \in States, History(s), s.cur # None, s.task.uri \in Uris,
           s.task.loc \in {None, ListHead} \cup Range(s.hist)
    PROVE  MoveTo(s, HistoryMove(s))
<1> DEFINE i == s.task.loc
           u == s.task.uri
           m == [s EXCEPT !.cur = i]
           t == HistoryMove(s)
<1>1. CASE i \in {None, ListHead}
  <2>1. t = s
    BY <1>1 DEF HistoryMove
  <2> QED
    BY <1>1, <2>1 DEF MoveTo, Turned
<1>2. CASE i \notin {None, ListHead}
  <2>1. i \in Range(s.hist) /\ i \in Locs
    <3>1. s.hist \in Seq(Locs)
      BY StatesAre DEF Hists
    <3> QED
      BY <1>2, <3>1 DEF Range
  <2>2. i \in Currents
    BY <2>1 DEF Currents
  <2>3. m.cur = i
    BY StatesAre
  <2>4. t = IF s.uri[i] = u THEN m
            ELSE LET f == Forward(Deleted(m, m.cur), u)
                 IN  IF KeepUnhistory THEN CleanUnhistory(f) ELSE f
    BY <1>2, <2>3 DEF HistoryMove
  <2> HIDE DEF i, u
  <2>5. /\ m \in States /\ m.hist = s.hist /\ m.uri = s.uri /\ m.task = s.task
        /\ m.boxes = s.boxes /\ m.queries = s.queries /\ m.links = s.links /\ m.conn = s.conn
        /\ m.dl = s.dl
    BY <2>2, StatesAre
  <2> HIDE DEF m
  <2>6. History(m)
    <3>1. s.hist # <<>>
      BY <2>1 DEF Range
    <3> QED
      BY <2>1, <2>3, <2>5, <3>1 DEF History
  <2>7. Turned(s, m)
    BY <2>5, <2>6 DEF Turned
  <2>8. i # None /\ u \in Uris
    BY <2>1, SessionAssumption DEF u
  <2>9. CASE s.uri[i] = u
    <3>1. t = m
      BY <2>4, <2>9
    <3>2. FreeLoc(s) => FreeLoc(m)
      BY <2>5 DEF FreeLoc
    <3> QED
      BY <2>3, <2>5, <2>7, <2>8, <2>9, <3>1, <3>2 DEF MoveTo, i, u
  <2>10. CASE s.uri[i] # u
    <3> DEFINE d == Deleted(m, m.cur)
               f == Forward(d, u)
    <3>1. t = IF KeepUnhistory THEN CleanUnhistory(f) ELSE f
      BY <2>4, <2>10
    <3>2. DeleteGives(m, d)
      BY <2>3, <2>5, <2>6, <2>8, DeletedIs
    <3> HIDE DEF d
    <3>3. d \in States /\ History(d) /\ Range(d.hist) = Range(s.hist) \ {i}
      BY <2>3, <2>5, <3>2 DEF DeleteGives, Turned
    <3>4. FreeLoc(d)
      BY <2>1, <3>3 DEF FreeLoc
    <3>5. ForwardGives(d, u, f)
      BY <2>8, <3>3, <3>4, ForwardIs
    <3> HIDE DEF f
    <3>6. Turned(s, f) /\ f.cur # None /\ f.uri[f.cur] = u
      BY <2>7, <3>2, <3>5, SessionAssumption DEF ForwardGives, DeleteGives, Turned
    <3>7. ASSUME FreeLoc(s)
          PROVE  FreeLoc(f)
      <4>1. PICK j \in Locs : j \notin Range(s.hist)
        BY <3>7 DEF FreeLoc
      <4>2. j # i /\ j \notin Range(d.hist) /\ i \notin Range(d.hist)
        BY <2>1, <3>3, <4>1
      <4>3. Range(f.hist) \subseteq Range(d.hist) \cup {f.cur}
        BY <3>5 DEF ForwardGives
      <4>4. j \notin Range(f.hist) \/ i \notin Range(f.hist)
        BY <4>2, <4>3
      <4> QED
        BY <2>1, <4>4 DEF FreeLoc
    <3>8. MoveTo(s, f)
      BY <1>2, <2>10, <3>6, <3>7 DEF MoveTo, i, u
    <3>9. CASE KeepUnhistory
      <4> DEFINE c == CleanUnhistory(f)
      <4>1. f \in States /\ History(f)
        BY <3>6 DEF Turned
      <4>2. CleanGives(f, c)
        BY <3>6, <4>1, CleanUnhistoryIs
      <4>3. t = c
        BY <3>1, <3>9
      <4> HIDE DEF c, t
      <4>4. Turned(s, c) /\ c.cur # None /\ c.uri[c.cur] = u
        BY <3>6, <4>2 DEF CleanGives, Turned
      <4>5. FreeLoc(s) => FreeLoc(c)
        BY <3>7, <4>2 DEF CleanGives, FreeLoc
      <4> QED
        BY <1>2, <2>10, <4>3, <4>4, <4>5 DEF MoveTo, i, u, t
    <3>10. CASE ~KeepUnhistory
      BY <3>1, <3>8, <3>10
    <3> QED
      BY <3>9, <3>10
  <2> QED
    BY <2>9, <2>10
<1> QED
  BY <1>1, <1>2

-----------------------------------------------------------------------------
(* A task reaches its place.                                               *)

\* d is the one download that anybody waits for.
Only(d, u) == [e \in Downloads |-> IF e = d THEN u ELSE None]

\* Nobody has another.
LEMMA OnlyIs ==
    ASSUME NEW d \in Downloads, NEW u \in Uris
    PROVE  /\ Only(d, u) \in OwnerMaps /\ Only(d, u)[d] = u
           /\ \A e \in Downloads : e # d => Only(d, u)[e] = None
BY DEF Only, OwnerMaps, UriOrNone

\* Nothing is in the lists but the download of the task.
LEMMA TaskAlone ==
    ASSUME NEW s, Good(s), s.task.type # "none"
    PROVE  Placed(s, Only(Loading, s.task.uri))
<1> DEFINE u == s.task.uri
           W == Owners(s)
           V == Only(Loading, u)
<1>1. s \in States /\ Placed(s, W) /\ Alone(s) /\ u \in Uris
  BY DEF Good, Waits
<1>2. V \in OwnerMaps /\ V[Loading] = u /\ \A e \in Downloads : e # Loading => V[e] = None
  BY <1>1, DownloadsAre, OnlyIs
<1>3. /\ W \in OwnerMaps /\ W[Loading] = u
      /\ \A v \in Files : W[Query(v)] = None
      /\ \A i \in Locs : W[Loc(i)] # None /\ InProgress(s, Loc(i)) => FALSE
  BY <1>1, OwnersAre, SessionAssumption DEF Alone, Rests
<1> HIDE DEF V, W
<1>4. ASSUME NEW d \in Downloads
      PROVE  /\ (W[d] # None /\ InProgress(s, d)) <=> (V[d] # None /\ InProgress(s, d))
             /\ W[d] # None /\ InProgress(s, d) => V[d] = W[d]
  BY <1>2, <1>3, DownloadKinds, DownloadsDiffer
<1>5. Carries(s, W, s, V)
  BY <1>4 DEF Carries
<1> QED
  BY <1>1, <1>2, <1>3, <1>5, Carried DEF V, u

\* Moving about in the history leaves the one download where it is: nothing that
\* is destroyed there is in a list.
LEMMA TurnedPlaced ==
    ASSUME NEW s \in States, NEW t, Turned(s, t), NEW d \in Downloads, NEW u \in Uris,
           Placed(s, Only(d, u)), t.dl[d] = s.dl[d]
    PROVE  Placed(t, Only(d, u))
<1> DEFINE V == Only(d, u)
<1>1. V \in OwnerMaps /\ V[d] = u /\ \A e \in Downloads : e # d => V[e] = None
  BY OnlyIs
<1> HIDE DEF V
<1>2. Carries(s, V, t, V)
  BY <1>1 DEF Carries, Turned, InProgress
<1>3. Placed(s, V)
  BY DEF V
<1> QED
  BY <1>1, <1>2, <1>3, Carried DEF V, Turned

\* The end of do_move(): the page has its location, whose download takes over
\* from ses->loading.
LEMMA ShownKeeps ==
    ASSUME NEW s \in States, History(s), s.cur # None, s.boxes = {}, s.queries = {},
           Placed(s, Only(Loading, s.uri[s.cur]))
    PROVE  Good(Shown(s)) /\ Beside(s, Shown(s))
<1> DEFINE i == s.cur
           u == s.uri[i]
           W == Only(Loading, u)
           V == With(With(W, Loc(i), u), Loading, None)
           m == MoveDownload(s, Loading, Loc(i))
           r == Shown(s)
<1>1. i \in Locs /\ u \in Uris
  BY StatesAre DEF Currents, History
<1>2. /\ Loading \in Downloads /\ Loc(i) \in Downloads /\ Loc(i) # Loading
  BY <1>1, DownloadsAre, DownloadsDiffer
<1>3. W \in OwnerMaps /\ W[Loading] = u /\ \A e \in Downloads : e # Loading => W[e] = None
  BY <1>1, <1>2, OnlyIs
<1>4. r = FreeTask(m)
  BY DEF Shown, MoveDownload
<1>5. Placed(s, W)
  OBVIOUS
<1> HIDE DEF W, r, m
<1>6. MoveGives(s, Loading, Loc(i), u, m, W)
  BY <1>1, <1>2, <1>3, <1>5, MovePlaced DEF m
<1>7. /\ Beside(s, m) /\ Placed(m, V) /\ ~InProgress(m, Loading)
  BY <1>6 DEF MoveGives
<1>8. /\ V \in OwnerMaps /\ V[Loc(i)] = u
      /\ \A e \in Downloads : e # Loc(i) => V[e] = None
  BY <1>1, <1>2, <1>3, OwnersMove
<1> HIDE DEF V, i, u
<1>9. /\ Beside(m, r) /\ r.task.type = "none" /\ r.dl = m.dl /\ r.links = m.links /\ r.conn = m.conn
  BY <1>4, <1>7, FreeTaskIs DEF Beside
<1>10. Beside(s, r) /\ r \in States
  BY <1>7, <1>9 DEF Beside
<1>11. Placed(r, V) /\ ~InProgress(r, Loading)
  BY <1>7, <1>9 DEF Placed, InProgress
<1>12. /\ \A j \in Locs : V[Loc(j)] = Owners(r)[Loc(j)]
       /\ \A v \in Files : V[Query(v)] = Owners(r)[Query(v)]
  <2>1. ASSUME NEW j \in Locs
        PROVE  V[Loc(j)] = Owners(r)[Loc(j)]
    <3>1. Owners(r)[Loc(j)] = IF r.cur = j THEN r.uri[j] ELSE None
      BY <1>10, OwnersAre
    <3>2. r.cur = i /\ r.uri[i] = u
      BY <1>10 DEF Beside, i, u
    <3>3. Loc(j) \in Downloads /\ (Loc(j) = Loc(i) => j = i)
      BY DownloadsAre, DownloadsDiffer
    <3> QED
      BY <1>8, <3>1, <3>2, <3>3
  <2>2. ASSUME NEW v \in Files
        PROVE  V[Query(v)] = Owners(r)[Query(v)]
    <3>1. Owners(r)[Query(v)] = None
      BY <1>10, OwnersAre DEF Beside
    <3>2. Query(v) \in Downloads /\ Query(v) # Loc(i)
      BY DownloadsAre, DownloadsDiffer
    <3> QED
      BY <1>8, <3>1, <3>2
  <2> QED
    BY <2>1, <2>2
<1>13. Placed(r, Owners(r))
  BY <1>8, <1>10, <1>11, <1>12, Agreed
<1>14. History(r)
  BY <1>10 DEF History, Beside
<1>15. Waits(r)
  BY <1>9, <1>10 DEF Waits, Beside
<1> QED
  BY <1>10, <1>13, <1>14, <1>15 DEF Good, r

\* What happens to the history is what may.
Visits(s, r) == r.hist # s.hist /\ s.task.type # "reload" => Placement(s, r)

\* setup_download_handler(): the download goes to the query, and the page that
\* is shown is loaded again.
LEMMA QueriedKeeps ==
    ASSUME NEW s, Good(s), s.task.type = "forward", s.task.uri \in Files
    PROVE  Good(Queried(s)) /\ Queried(s).hist = s.hist
<1> DEFINE u == s.task.uri
           m == MoveDownload(s, Loading, Query(u))
           q == [m EXCEPT !.dl[Loading] = [state |-> "ok", conn |-> None], !.queries = @ \cup {u}]
           f == FreeTask(q)
           W == Owners(s)
           V == With(With(W, Query(u), u), Loading, None)
<1>1. s \in States /\ Placed(s, W) /\ Alone(s) /\ u \in Uris /\ History(s)
  BY DEF Good, Waits
<1>2. /\ W \in OwnerMaps /\ W[Loading] = u /\ W[Query(u)] = None
      /\ Loading \in Downloads /\ Query(u) \in Downloads /\ Loading # Query(u)
  BY <1>1, OwnersAre, DownloadsAre, DownloadsDiffer DEF Alone
<1>3. Queried(s) = Reload(f, "normal")
  BY <1>1 DEF Queried, Alone
<1> HIDE DEF W
<1>4. MoveGives(s, Loading, Query(u), u, m, W)
  BY <1>1, <1>2, MovePlaced
<1> HIDE DEF m
<1>5. /\ Beside(s, m) /\ m.task = s.task /\ Placed(m, V) /\ ~InProgress(m, Loading) /\ m \in States
      /\ \A i \in Locs : m.dl[Loc(i)] = s.dl[Loc(i)]
  BY <1>4, DownloadsAre, DownloadsDiffer DEF MoveGives, Beside
<1>6. /\ V \in OwnerMaps /\ V[Query(u)] = u /\ V[Loading] = None
      /\ \A e \in Downloads : e \notin {Loading, Query(u)} => V[e] = W[e]
  BY <1>1, <1>2, OwnersMove
<1> HIDE DEF V
<1>7. /\ q \in States /\ q.hist = s.hist /\ q.cur = s.cur /\ q.uri = s.uri /\ q.boxes = {}
      /\ q.queries = {u} /\ q.links = m.links /\ q.conn = m.conn
      /\ \A e \in Downloads : e # Loading => q.dl[e] = m.dl[e]
      /\ q.dl[Loading].state = "ok"
  <2> DEFINE dls == [m.dl EXCEPT ![Loading] = [state |-> "ok", conn |-> None]]
  <2>1. m.dl \in DlMaps /\ m.queries = {} /\ m.boxes = {}
    BY <1>1, <1>5, StatesAre DEF Beside, Alone
  <2>2. dls \in DlMaps /\ dls[Loading].state = "ok" /\ \A e \in Downloads : e # Loading => dls[e] = m.dl[e]
    BY <1>2, <2>1 DEF DlMaps, Results, UriOrNone
  <2>3. {u} \in QuerySets
    BY DEF QuerySets
  <2>4. q = [m EXCEPT !.dl = dls, !.queries = {u}]
    BY <1>5, <2>1, StatesAre
  <2> HIDE DEF dls, q
  <2>5. /\ q \in States /\ q.hist = m.hist /\ q.cur = m.cur /\ q.uri = m.uri /\ q.boxes = m.boxes
        /\ q.queries = {u} /\ q.links = m.links /\ q.conn = m.conn /\ q.dl = dls
    BY <1>5, <2>2, <2>3, <2>4, StatesAre
  <2> QED
    BY <1>5, <2>1, <2>2, <2>5 DEF Beside
<1> HIDE DEF q
<1>8. /\ Beside(q, f) /\ f.task.type = "none" /\ f.dl = q.dl /\ f.links = q.links /\ f.conn = q.conn
  BY <1>7, FreeTaskIs
<1> HIDE DEF f
<1>9. /\ f \in States /\ f.hist = s.hist /\ f.cur = s.cur /\ f.uri = s.uri /\ f.boxes = {}
      /\ f.queries = {u}
  BY <1>7, <1>8 DEF Beside
<1>10. History(f)
  BY <1>1, <1>9 DEF History
<1>11. Waits(f)
  BY <1>1, <1>8, <1>9 DEF Waits, Alone, FreeLoc
<1>12. Placed(f, V)
  <2>1. /\ \A e \in Downloads : e # Loading => f.dl[e] = m.dl[e]
        /\ ~InProgress(f, Loading)
    BY <1>7, <1>8 DEF InProgress, Results
  <2>2. Carries(m, V, f, V)
    BY <1>5, <1>6, <1>7, <1>8, <2>1 DEF Carries, InProgress
  <2> QED
    BY <1>5, <1>6, <1>9, <2>2, Carried
<1>13. Placed(f, Owners(f))
  <2>1. ~InProgress(f, Loading)
    BY <1>7, <1>8 DEF InProgress, Results
  <2>2. ASSUME NEW i \in Locs
        PROVE  V[Loc(i)] = Owners(f)[Loc(i)]
    <3>1. V[Loc(i)] = W[Loc(i)]
      BY <1>6, DownloadsAre, DownloadsDiffer
    <3> QED
      BY <1>1, <1>9, <3>1, OwnersAre DEF W
  <2>3. ASSUME NEW v \in Files
        PROVE  V[Query(v)] = Owners(f)[Query(v)]
    <3>1. Owners(f)[Query(v)] = IF v = u THEN v ELSE None
      BY <1>9, OwnersAre
    <3>2. CASE v = u
      BY <1>6, <3>1, <3>2
    <3>3. CASE v # u
      <4>1. Query(v) \in Downloads /\ Query(v) # Query(u) /\ Query(v) # Loading
        BY <3>3, DownloadsAre, DownloadsDiffer
      <4>2. W[Query(v)] = None
        BY <1>1, OwnersAre DEF W, Alone
      <4> QED
        BY <1>6, <3>1, <3>3, <4>1, <4>2
    <3> QED
      BY <3>2, <3>3
  <2> QED
    BY <1>6, <1>9, <1>12, <2>1, <2>2, <2>3, Agreed
<1>14. Good(f)
  BY <1>9, <1>10, <1>11, <1>13 DEF Good
<1> QED
  BY <1>3, <1>9, <1>14, ReloadKeeps DEF Beside

\* The end of do_move() leaves the history as ses_forward() has made it.
LEMMA ShownInPlace ==
    ASSUME NEW s \in States, NEW t, NEW u \in Uris, Turned(s, t), t.cur # None, t.uri[t.cur] = u,
           s.boxes = {}, s.queries = {}, Placed(s, Only(Loading, u))
    PROVE  Good(Shown(t)) /\ Beside(t, Shown(t))
<1>1. t \in States /\ History(t) /\ t.boxes = {} /\ t.queries = {} /\ t.dl[Loading] = s.dl[Loading]
  BY DEF Turned
<1>2. Placed(t, Only(Loading, u))
  BY <1>1, TurnedPlaced, DownloadsAre
<1> QED
  BY <1>1, <1>2, ShownKeeps

\* do_move(), for each type of task.
LEMMA MovedKeeps ==
    ASSUME NEW s, Good(s), s.task.type # "none"
    PROVE  Good(Moved(s)) /\ Visits(s, Moved(s))
<1> DEFINE u == s.task.uri
<1>1. /\ s \in States /\ History(s) /\ u \in Uris /\ Placed(s, Only(Loading, u))
      /\ s.boxes = {} /\ s.queries = {} /\ FreeLoc(s) /\ Aimed(s, s.task)
  BY TaskAlone DEF Good, Waits, Alone
<1>2. s.task.type \in {"forward", "history", "reload"}
  BY <1>1, StatesAre DEF Tasks, Types
<1>3. CASE s.task.type = "forward"
  <2>1. Moved(s) = IF u \in Files THEN Queried(s) ELSE Shown(Forward(s, u))
    BY <1>3 DEF Moved
  <2>2. CASE u \in Files
    BY <1>3, <2>1, <2>2, QueriedKeeps DEF Visits
  <2>3. CASE u \notin Files
    <3> DEFINE t == Forward(s, u)
               r == Shown(t)
    <3>1. ForwardGives(s, u, t)
      BY <1>1, ForwardIs
    <3> HIDE DEF t, r
    <3>2. Good(r) /\ Beside(t, r)
      BY <1>1, <3>1, ShownInPlace, SessionAssumption DEF ForwardGives, r
    <3>3. Placement(s, r)
      BY <3>1, <3>2 DEF ForwardGives, Placement, Beside
    <3> QED
      BY <2>1, <2>3, <3>2, <3>3 DEF Visits, r, t
  <2> QED
    BY <2>2, <2>3
<1>4. CASE s.task.type = "history"
  <2> DEFINE t == HistoryMove(s)
             r == Shown(t)
  <2>1. s.task.loc \in Range(s.hist) /\ s.uri[s.task.loc] = u /\ s.cur # None
    BY <1>1, <1>4 DEF Aimed
  <2>2. s.task.loc \notin {None, ListHead}
    <3>1. Range(s.hist) \subseteq Locs
      BY <1>1, StatesAre DEF Hists, Range
    <3> QED
      BY <2>1, <3>1, SessionAssumption
  <2>3. MoveTo(s, t)
    BY <1>1, <2>1, HistoryMoveIs
  <2>4. Moved(s) = r
    BY <1>4 DEF Moved
  <2> HIDE DEF t, r
  <2>5. Turned(s, t) /\ t.cur # None /\ t.uri[t.cur] = u /\ t.hist = s.hist
    BY <2>1, <2>2, <2>3 DEF MoveTo
  <2>6. Good(r) /\ Beside(t, r)
    BY <1>1, <2>5, ShownInPlace DEF r
  <2> QED
    BY <2>4, <2>5, <2>6 DEF Visits, Beside
<1>5. CASE s.task.type = "reload"
  <2> DEFINE k == Index(s, s.cur)
             loc == IF k > 1 THEN s.hist[k - 1] ELSE ListHead
             aim == [s.task EXCEPT !.loc = loc]
             n == [s EXCEPT !.task = aim]
             m == HistoryMove(n)
             t == Forward(m, u)
             r == Shown(t)
  <2>1. s.cur # None
    BY <1>1, <1>5 DEF Aimed
  <2>2. s.hist \in Seq(Locs) /\ k \in DOMAIN s.hist
    BY <1>1, <2>1, PositionIs DEF Position
  <2>3. loc \in {ListHead} \cup Range(s.hist) /\ loc \in Places
    <3>1. CASE k > 1
      <4>1. k - 1 \in DOMAIN s.hist
        BY <2>2, <3>1
      <4> QED
        BY <2>2, <3>1, <4>1 DEF Places, Range
    <3>2. CASE ~(k > 1)
      BY <3>2 DEF Places
    <3> QED
      BY <3>1, <3>2
  <2> HIDE DEF loc, k
  <2>4. s.task \in Tasks
    BY <1>1, StatesAre
  <2>5. aim \in Tasks /\ aim.type = s.task.type /\ aim.uri = u /\ aim.loc = loc
    BY <2>3, <2>4 DEF Tasks
  <2>6. [s EXCEPT !.task.loc = loc] = n
    BY <1>1, StatesAre
  <2> HIDE DEF aim, n
  <2>7. /\ n \in States /\ n.task = aim /\ n.hist = s.hist /\ n.cur = s.cur /\ n.uri = s.uri
        /\ n.boxes = s.boxes /\ n.queries = s.queries /\ n.links = s.links /\ n.conn = s.conn
        /\ n.dl = s.dl
    BY <1>1, <2>5, StatesAre DEF n
  <2>8. History(n) /\ FreeLoc(n)
    BY <1>1, <2>7 DEF History, FreeLoc
  <2>9. Placed(n, Only(Loading, u))
    BY <1>1, <2>7 DEF Placed, InProgress
  <2>10. MoveTo(n, m)
    BY <2>1, <2>3, <2>5, <2>7, <2>8, <1>1, HistoryMoveIs
  <2>11. Moved(s) = Shown(Forward(m, m.task.uri))
    BY <1>5, <2>6 DEF Moved, loc, k
  <2> HIDE DEF m
  <2>12. /\ m \in States /\ History(m) /\ FreeLoc(m) /\ m.task.uri = u
    BY <2>5, <2>7, <2>8, <2>10 DEF MoveTo, Turned
  <2>13. ForwardGives(m, u, t)
    BY <1>1, <2>12, ForwardIs
  <2> HIDE DEF t, r
  <2>14. Turned(n, t) /\ t.cur # None /\ t.uri[t.cur] = u
    BY <2>10, <2>13, SessionAssumption DEF ForwardGives, MoveTo, Turned
  <2>15. Good(r)
    BY <1>1, <2>7, <2>9, <2>14, ShownInPlace DEF r
  <2> QED
    BY <1>5, <2>11, <2>12, <2>15 DEF Visits, r, t
<1> QED
  BY <1>2, <1>3, <1>4, <1>5

\* loading_callback(), for each state of the download.
LEMMA LoadingCallbackKeeps ==
    ASSUME NEW s, Good(s)
    PROVE  Good(LoadingCallback(s)) /\ Visits(s, LoadingCallback(s))
<1>1. s.dl[Loading].state \in {"wait", "error", "interrupted", "trans", "ok"}
  <2>1. s.dl \in DlMaps
    BY StatesAre DEF Good
  <2> QED
    BY <2>1, DownloadsAre DEF DlMaps, Results
<1>2. CASE s.task.type = "none" \/ s.dl[Loading].state = "wait"
  BY <1>2 DEF LoadingCallback, Visits
<1>3. CASE s.task.type # "none" /\ s.dl[Loading].state \in {"error", "interrupted"}
  <2> DEFINE f == FreeTask(s)
  <2>1. LoadingCallback(s) = Reload(f, "normal")
    BY <1>3 DEF LoadingCallback
  <2>2. ~InProgress(s, Loading)
    BY <1>3 DEF InProgress, Results
  <2>3. Good(f) /\ Beside(s, f)
    BY <2>2, TaskFreed
  <2>4. f.boxes = {}
    BY <1>3, <2>3 DEF Good, Waits, Alone, Beside
  <2> HIDE DEF f
  <2>5. Good(Reload(f, "normal")) /\ Beside(f, Reload(f, "normal"))
    BY <2>3, <2>4, ReloadKeeps
  <2> QED
    BY <2>1, <2>3, <2>5 DEF Visits, Beside
<1>4. CASE s.task.type # "none" /\ s.dl[Loading].state \in {"trans", "ok"}
  <2>1. LoadingCallback(s) =
          IF s.entry[s.task.uri].to # None /\ s.cnt < MaxRedirects THEN Redirected(s) ELSE Moved(s)
    BY <1>4 DEF LoadingCallback
  <2>2. CASE s.entry[s.task.uri].to # None /\ s.cnt < MaxRedirects
    BY <1>4, <2>1, <2>2, RedirectedKeeps DEF Visits
  <2>3. CASE ~(s.entry[s.task.uri].to # None /\ s.cnt < MaxRedirects)
    BY <1>4, <2>1, <2>3, MovedKeeps
  <2> QED
    BY <2>2, <2>3
<1> QED
  BY <1>1, <1>2, <1>3, <1>4

-----------------------------------------------------------------------------
(* The actions.                                                            *)

\* The inductive invariant.
SessionInv == Good(Now) /\ asked \in 0 .. MaxAsked

\* A step that becomes s leads to s.
LEMMA BecomesIs ==
    ASSUME NEW s \in States, Becomes(s)
    PROVE  Now' = s
<1>1. s = [hist |-> s.hist, cur |-> s.cur, uri |-> s.uri, task |-> s.task, cnt |-> s.cnt,
           boxes |-> s.boxes, queries |-> s.queries, dl |-> s.dl, conn |-> s.conn,
           links |-> s.links, entry |-> s.entry, due |-> s.due, confirm |-> s.confirm]
  BY StatesAre
<1>2. Now' = [hist |-> hist', cur |-> cur', uri |-> uri', task |-> task', cnt |-> cnt',
              boxes |-> boxes', queries |-> queries', dl |-> dl', conn |-> conn',
              links |-> links', entry |-> entry', due |-> due', confirm |-> confirm']
  BY DEF Now
<1> QED
  BY <1>1, <1>2 DEF Becomes

\* What every step but the end of the session does.
Keeps == SessionInv' /\ Visits(Now, Now')

\* So it suffices that s keeps the invariant,
LEMMA BecomesGood ==
    ASSUME NEW s, Good(s), Becomes(s), asked' \in 0 .. MaxAsked
    PROVE  SessionInv'
<1>1. Now' = s
  BY BecomesIs DEF Good
<1>2. Good(Now')
  BY <1>1
<1> QED
  BY <1>2 DEF SessionInv

\* and the pages.
LEMMA BecomesKeeps ==
    ASSUME NEW s, Good(s), Visits(Now, s), Becomes(s), asked' \in 0 .. MaxAsked
    PROVE  Keeps
<1>1. Now' = s
  BY BecomesIs DEF Good
<1>2. Good(Now') /\ Visits(Now, Now')
  BY <1>1
<1> QED
  BY <1>2 DEF SessionInv, Keeps

\* The fields of the present state are the variables.
LEMMA NowIs ==
    /\ Now.hist = hist /\ Now.cur = cur /\ Now.uri = uri /\ Now.task = task /\ Now.cnt = cnt
    /\ Now.boxes = boxes /\ Now.queries = queries /\ Now.dl = dl /\ Now.conn = conn
    /\ Now.links = links /\ Now.entry = entry /\ Now.due = due /\ Now.confirm = confirm
BY DEF Now

\* Where there is room a location is free.
LEMMA RoomIsFree ==
    ASSUME Good(Now), Room, boxes = {}, queries = {}
    PROVE  FreeLoc(Now)
<1>1. hist \in Seq(Locs)
  BY NowIs, StatesAre DEF Good, Hists
<1>2. Len(hist) < Cardinality(Locs)
  <2>1. Cardinality({}) = 0
    BY FS_EmptySet
  <2>2. Len(hist) \in Nat
    BY <1>1
  <2>3. Len(hist) + 0 + 0 = Len(hist)
    BY <2>2
  <2> QED
    BY <2>1, <2>3 DEF Room
<1>3. DOMAIN hist = 1 .. Len(hist) /\ Len(hist) \in Nat
  BY <1>1
<1>4. IsFiniteSet(1 .. Len(hist)) /\ Cardinality(1 .. Len(hist)) = Len(hist)
  <2> DEFINE n == Len(hist)
  <2>1. n \in Int /\ 1 \in Int /\ n >= 0
    BY <1>3
  <2> HIDE DEF n
  <2>2. IsFiniteSet(1 .. n) /\ Cardinality(1 .. n) = IF 1 > n THEN 0 ELSE n - 1 + 1
    BY <2>1, FS_Interval
  <2>3. (IF 1 > n THEN 0 ELSE n - 1 + 1) = n
    BY <2>1
  <2> QED
    BY <2>2, <2>3 DEF n
<1>5. CASE Locs \subseteq Range(hist)
  <2>1. Range(hist) = Locs
    BY <1>1, <1>5 DEF Range
  <2>2. hist \in Surjection(1 .. Len(hist), Locs)
    BY <1>1, <1>3, <2>1 DEF Range, Surjection
  <2>3. Cardinality(Locs) <= Len(hist) /\ IsFiniteSet(Locs)
    BY <1>4, <2>2, FS_Surjection
  <2>4. Cardinality(Locs) \in Nat
    BY <2>3, FS_CardinalityType
  <2> QED
    BY <1>2, <1>3, <2>3, <2>4
<1>6. CASE ~(Locs \subseteq Range(hist))
  BY <1>6, NowIs DEF FreeLoc
<1> QED
  BY <1>5, <1>6

\* do_follow_url()
LEMMA FollowKeeps ==
    ASSUME SessionInv, Patient, NEW u \in Uris, Follow(u)
    PROVE  Keeps
<1> DEFINE a == AbortLoading(Now, FALSE)
           g == Goto(a, u, None, "normal", "forward", FALSE)
<1>1. Good(Now) /\ asked \in 0 .. MaxAsked
  BY DEF SessionInv
<1>2. boxes = {} /\ queries = {} /\ Room /\ asked < MaxAsked /\ asked' = asked + 1 /\ Becomes(g)
  BY DEF Follow, May, Asks, Answered
<1>3. FreeLoc(Now)
  BY <1>1, <1>2, RoomIsFree
<1>4. AbortGives(Now, a) /\ Rests(a)
  BY <1>1, AbortLoadingKeeps
<1> HIDE DEF a
<1>5. Ready(a)
  BY <1>2, <1>3, <1>4, NowIs DEF Ready, Alone, AbortGives, Beside, FreeLoc
<1>6. /\ None \in Places /\ "normal" \in Modes /\ "forward" \in Types
      /\ Aimed(a, [type |-> "forward", uri |-> u, loc |-> None])
  BY DEF Places, Modes, Types, Aimed
<1>7. Good(g) /\ g.hist = a.hist
  BY <1>5, <1>6, GotoKeeps
<1>8. Visits(Now, g)
  BY <1>4, <1>7 DEF Visits, AbortGives, Beside
<1>9. asked' \in 0 .. MaxAsked
  BY <1>1, <1>2, SessionAssumption
<1> QED
  BY <1>2, <1>7, <1>8, <1>9, BecomesKeeps

\* go_history()
LEMMA GoHistoryKeeps ==
    ASSUME SessionInv, Patient, NEW i \in Locs, GoHistory(i)
    PROVE  Keeps
<1> DEFINE a == AbortLoading(Now, FALSE)
           g == Goto(a, uri[i], i, "always", "history", FALSE)
           r == Reload(a, "normal")
<1>1. Good(Now) /\ asked \in 0 .. MaxAsked
  BY DEF SessionInv
<1>2. /\ boxes = {} /\ queries = {} /\ Room /\ asked < MaxAsked /\ asked' = asked + 1
      /\ i \in Range(hist) /\ (Becomes(r) \/ Becomes(g))
  BY DEF GoHistory, May, Asks, Answered
<1>3. FreeLoc(Now)
  BY <1>1, <1>2, RoomIsFree
<1>4. AbortGives(Now, a) /\ Rests(a)
  BY <1>1, AbortLoadingKeeps
<1> HIDE DEF a
<1>5. Ready(a)
  BY <1>2, <1>3, <1>4, NowIs DEF Ready, Alone, AbortGives, Beside, FreeLoc
<1>6. uri[i] \in Uris /\ a.uri[i] = uri[i] /\ i \in Range(a.hist) /\ a.cur # None
  <2>1. uri[i] \in Uris
    BY <1>1, <1>2, NowIs DEF Good, History
  <2>2. hist # <<>>
    BY <1>2 DEF Range
  <2>3. cur \in Range(hist) /\ Range(hist) \subseteq Locs
    BY <1>1, <2>2, NowIs, StatesAre DEF Good, History, Hists, Range
  <2> QED
    BY <1>2, <1>4, <2>1, <2>3, NowIs, SessionAssumption DEF AbortGives, Beside
<1>7. /\ i \in Places /\ "always" \in Modes /\ "history" \in Types
      /\ Aimed(a, [type |-> "history", uri |-> uri[i], loc |-> i])
  BY <1>6 DEF Places, Modes, Types, Aimed
<1>8. Good(g) /\ g.hist = a.hist
  BY <1>5, <1>6, <1>7, GotoKeeps
<1>9. Good(r) /\ r.hist = a.hist
  BY <1>5, ReloadKeeps DEF Ready, Alone, Beside
<1>10. Visits(Now, g) /\ Visits(Now, r)
  BY <1>4, <1>8, <1>9 DEF Visits, AbortGives, Beside
<1>11. asked' \in 0 .. MaxAsked
  BY <1>1, <1>2, SessionAssumption
<1> HIDE DEF g, r
<1> QED
  BY <1>2, <1>8, <1>9, <1>10, <1>11, BecomesKeeps

\* The Reload command.
LEMMA ReloadDocumentKeeps ==
    ASSUME SessionInv, Patient, ReloadDocument
    PROVE  Keeps
<1> DEFINE r == Reload(Now, "reload")
<1>1. Good(Now) /\ Now.boxes = {} /\ asked' \in 0 .. MaxAsked /\ Becomes(r)
  BY NowIs DEF SessionInv, ReloadDocument, May, Answered
<1> HIDE DEF r
<1>2. Good(r) /\ Beside(Now, r)
  BY <1>1, ReloadKeeps DEF r
<1>3. Visits(Now, r)
  BY <1>2 DEF Visits, Beside
<1> QED
  BY <1>1, <1>2, <1>3, BecomesKeeps

\* ACT_MAIN_ABORT_CONNECTION.
LEMMA StopKeeps ==
    ASSUME SessionInv, Stop
    PROVE  Keeps
<1> DEFINE a == AbortLoading(Now, TRUE)
<1>1. Good(Now) /\ asked' \in 0 .. MaxAsked /\ Becomes(a)
  BY DEF SessionInv, Stop
<1>2. AbortGives(Now, a)
  BY <1>1, AbortLoadingKeeps
<1> HIDE DEF a
<1>3. Good(a) /\ Visits(Now, a)
  BY <1>2 DEF Visits, AbortGives, Beside
<1> QED
  BY <1>1, <1>3, BecomesKeeps

\* A message box closes; there is no other.
LEMMA BoxCloses ==
    ASSUME NEW s, Good(s), NEW b \in s.boxes
    PROVE  LET n == [s EXCEPT !.boxes = @ \ {b}]
           IN  /\ Ready(n) /\ n.hist = s.hist /\ Aimed(n, b)
               /\ b.uri \in Uris /\ b.loc \in Places /\ b.mode \in Modes /\ b.type \in Types
<1> DEFINE n == [s EXCEPT !.boxes = @ \ {b}]
<1>1. /\ s \in States /\ s.boxes = {b} /\ s.queries = {} /\ FreeLoc(s) /\ Rests(s)
      /\ s.task.type = "none" /\ Aimed(s, b)
  BY DEF Good, Waits
<1>2. n = [s EXCEPT !.boxes = {}]
  BY <1>1, StatesAre
<1>3. {} \in Boxes
  BY DEF Boxes
<1> HIDE DEF n
<1>4. /\ n \in States /\ n.boxes = {} /\ n.hist = s.hist /\ n.cur = s.cur /\ n.uri = s.uri
      /\ n.queries = s.queries /\ n.task = s.task /\ n.dl = s.dl /\ n.links = s.links
      /\ n.conn = s.conn
  BY <1>1, <1>2, <1>3, StatesAre
<1>5. Owners(n) = Owners(s)
  BY <1>4 DEF Owners
<1>6. Placed(n, Owners(n)) /\ History(n)
  BY <1>4, <1>5 DEF Good, Placed, History, InProgress
<1>7. Alone(n) /\ Aimed(n, b)
  BY <1>1, <1>4 DEF Alone, FreeLoc, Rests, InProgress, Aimed
<1>8. Waits(n)
  BY <1>1, <1>4, <1>7 DEF Waits, Alone
<1>9. b.uri \in Uris /\ b.loc \in Places /\ b.mode \in Modes /\ b.type \in Types
  <2>1. s.boxes \in Boxes
    BY <1>1, StatesAre
  <2> QED
    BY <2>1 DEF Boxes
<1> QED
  BY <1>1, <1>4, <1>6, <1>7, <1>8, <1>9 DEF Ready, Good, n

\* post_yes(): the task of the box becomes that of the session.
LEMMA PostYesKeeps ==
    ASSUME SessionInv, NEW b \in boxes, PostYes(b)
    PROVE  Keeps
<1> DEFINE n == [Now EXCEPT !.boxes = @ \ {b}]
           l == SesLoad(n, b.uri, b.loc, b.mode, b.type)
<1>1. Good(Now) /\ asked' \in 0 .. MaxAsked
  BY DEF SessionInv, PostYes
<1>2. /\ Ready(n) /\ n.hist = Now.hist /\ Aimed(n, b)
      /\ b.uri \in Uris /\ b.loc \in Places /\ b.mode \in Modes /\ b.type \in Types
  BY <1>1, NowIs, BoxCloses
<1>3. AbortPreloading(n, FALSE) = n
  BY <1>2 DEF AbortPreloading, Ready
<1>4. Becomes(l)
  BY <1>3 DEF PostYes
<1> HIDE DEF n
<1>5. Aimed(n, [type |-> b.type, uri |-> b.uri, loc |-> b.loc])
  BY <1>2 DEF Aimed
<1>6. Good(l) /\ l.hist = n.hist
  BY <1>2, <1>5, SesLoadKeeps
<1>7. Visits(Now, l)
  BY <1>2, <1>6 DEF Visits
<1> QED
  BY <1>1, <1>4, <1>6, <1>7, BecomesKeeps

\* post_no(): the page that is shown is loaded again.
LEMMA PostNoKeeps ==
    ASSUME SessionInv, NEW b \in boxes, PostNo(b)
    PROVE  Keeps
<1> DEFINE n == [Now EXCEPT !.boxes = @ \ {b}]
           r == Reload(n, "normal")
<1>1. Good(Now) /\ asked' \in 0 .. MaxAsked /\ Becomes(r)
  BY DEF SessionInv, PostNo
<1>2. Ready(n) /\ n.hist = Now.hist
  BY <1>1, NowIs, BoxCloses
<1> HIDE DEF n
<1>3. Good(r) /\ Beside(n, r)
  BY <1>2, ReloadKeeps DEF Ready, Alone
<1>4. Visits(Now, r)
  BY <1>2, <1>3 DEF Visits, Beside
<1> QED
  BY <1>1, <1>3, <1>4, BecomesKeeps

\* A query goes, with its download.
LEMMA QueryGone ==
    ASSUME NEW m \in States, NEW u \in Files, NEW V \in OwnerMaps, Placed(m, V), V[Query(u)] = None
    PROVE  LET e == [m EXCEPT !.queries = @ \ {u}, !.dl[Query(u)] = Blank]
           IN  /\ e \in States /\ e.hist = m.hist /\ e.cur = m.cur /\ e.uri = m.uri /\ e.task = m.task
               /\ e.boxes = m.boxes /\ e.queries = m.queries \ {u} /\ Placed(e, V)
               /\ \A d \in Downloads : d # Query(u) => e.dl[d] = m.dl[d]
<1> DEFINE e == [m EXCEPT !.queries = @ \ {u}, !.dl[Query(u)] = Blank]
           dls == [m.dl EXCEPT ![Query(u)] = Blank]
           qs == m.queries \ {u}
<1>1. m.dl \in DlMaps /\ m.queries \in QuerySets /\ Query(u) \in Downloads
  BY StatesAre, DownloadsAre
<1>2. dls \in DlMaps /\ \A d \in Downloads : d # Query(u) => dls[d] = m.dl[d]
  <2>1. Blank \in [state : Results \cup {"wait", "trans"}, conn : UriOrNone]
    BY DEF Blank, UriOrNone
  <2> QED
    BY <1>1, <2>1 DEF DlMaps
<1>3. qs \in QuerySets
  BY <1>1 DEF QuerySets
<1>4. e = [m EXCEPT !.queries = qs, !.dl = dls]
  BY StatesAre
<1> HIDE DEF e, dls, qs
<1>5. /\ e \in States /\ e.hist = m.hist /\ e.cur = m.cur /\ e.uri = m.uri /\ e.task = m.task
      /\ e.boxes = m.boxes /\ e.queries = qs /\ e.links = m.links /\ e.conn = m.conn /\ e.dl = dls
  BY <1>2, <1>3, <1>4, StatesAre
<1>6. Carries(m, V, e, V)
  BY <1>2, <1>5 DEF Carries, InProgress
<1>7. Placed(e, V)
  BY <1>5, <1>6, Carried
<1> QED
  BY <1>2, <1>5, <1>7 DEF e, qs

\* What holds while the user is asked about a file.
QueryWaits(s, u) ==
    /\ s \in States /\ u \in Files /\ s.queries = {u} /\ s.boxes = {} /\ s.task.type = "none"
    /\ FreeLoc(s) /\ History(s) /\ Placed(s, Owners(s)) /\ Owners(s) \in OwnerMaps
    /\ u \in Uris /\ Query(u) \in Downloads /\ Owners(s)[Query(u)] = u /\ u # None

\* It is the one thing the session waits for.
LEMMA QueryIs ==
    ASSUME NEW s, Good(s), NEW u \in s.queries
    PROVE  QueryWaits(s, u)
<1>1. /\ s \in States /\ s.queries = {u} /\ FreeLoc(s) /\ History(s) /\ Placed(s, Owners(s))
  BY DEF Good, Waits
<1>2. s.task.type = "none" /\ s.boxes = {}
  BY DEF Good, Waits, Alone
<1>3. s.queries \in QuerySets
  BY <1>1, StatesAre
<1>4. u \in Files /\ u \in Uris /\ u # None
  BY <1>3, SessionAssumption DEF QuerySets
<1> QED
  BY <1>1, <1>2, <1>4, OwnersAre, DownloadsAre DEF QueryWaits

\* Once nothing in progress is a query's, the query can go.
LEMMA QueryEnds ==
    ASSUME NEW s, NEW u, QueryWaits(s, u), NEW m, Beside(s, m), m.task = s.task,
           Placed(m, With(Owners(s), Query(u), None))
    PROVE  LET e == [m EXCEPT !.queries = @ \ {u}, !.dl[Query(u)] = Blank]
           IN  Good(e) /\ e.hist = s.hist
<1> DEFINE e == [m EXCEPT !.queries = @ \ {u}, !.dl[Query(u)] = Blank]
           W == Owners(s)
           V == With(W, Query(u), None)
<1>1. m \in States /\ u \in Files /\ Query(u) \in Downloads /\ W \in OwnerMaps /\ s \in States
  BY DEF QueryWaits, Beside
<1>2. /\ V \in OwnerMaps /\ V[Query(u)] = None /\ \A d \in Downloads : d # Query(u) => V[d] = W[d]
  <2>1. None \in UriOrNone
    BY DEF UriOrNone
  <2> QED
    BY <1>1, <2>1, WithIs
<1>a. Placed(m, V)
  OBVIOUS
<1> HIDE DEF V
<1>3. /\ e \in States /\ e.hist = m.hist /\ e.cur = m.cur /\ e.uri = m.uri /\ e.task = m.task
      /\ e.boxes = m.boxes /\ e.queries = m.queries \ {u} /\ Placed(e, V)
  BY <1>1, <1>2, <1>a, QueryGone
<1> HIDE DEF e, W
<1>4. e.queries = {} /\ e.boxes = {} /\ e.task = s.task /\ e.task.type = "none"
      /\ e.cur = s.cur /\ e.uri = s.uri /\ e.hist = s.hist
  BY <1>3 DEF Beside, QueryWaits
<1>5. History(e) /\ Waits(e)
  BY <1>4 DEF QueryWaits, History, Waits
<1>6. V[Loading] = Owners(e)[Loading]
  BY <1>1, <1>2, <1>3, <1>4, OwnersAre, DownloadsAre, DownloadsDiffer DEF W
<1>7. ASSUME NEW i \in Locs
      PROVE  V[Loc(i)] = Owners(e)[Loc(i)]
  <2>1. V[Loc(i)] = W[Loc(i)]
    BY <1>2, DownloadsAre, DownloadsDiffer
  <2> QED
    BY <1>1, <1>3, <1>4, <2>1, OwnersAre DEF W
<1>8. ASSUME NEW v \in Files
      PROVE  V[Query(v)] = Owners(e)[Query(v)]
  <2>1. Owners(e)[Query(v)] = None
    BY <1>3, <1>4, OwnersAre
  <2>2. CASE v = u
    BY <1>2, <2>1, <2>2
  <2>3. CASE v # u
    <3>1. Query(v) \in Downloads /\ Query(v) # Query(u)
      BY <2>3, DownloadsAre, DownloadsDiffer
    <3>2. W[Query(v)] = None
      BY <1>1, <2>3, OwnersAre DEF W, QueryWaits
    <3> QED
      BY <1>2, <2>1, <3>1, <3>2
  <2> QED
    BY <2>2, <2>3
<1>9. Placed(e, Owners(e))
  BY <1>2, <1>3, <1>6, <1>7, <1>8, Agreed
<1> QED
  BY <1>3, <1>4, <1>5, <1>9 DEF Good, e

\* tp_cancel().
LEMMA CancelQueryKeeps ==
    ASSUME SessionInv, NEW u \in Files, CancelQuery(u)
    PROVE  Keeps
<1> DEFINE c == Cancelled(Now, Query(u), TRUE)
           e == [c EXCEPT !.queries = @ \ {u}, !.dl[Query(u)] = Blank]
           W == Owners(Now)
           V == With(W, Query(u), None)
<1>1. Good(Now) /\ asked' \in 0 .. MaxAsked /\ Becomes(e) /\ u \in Now.queries
  BY NowIs DEF SessionInv, CancelQuery
<1>2. QueryWaits(Now, u)
  BY <1>1, QueryIs
<1>3. /\ Now \in States /\ Query(u) \in Downloads /\ W \in OwnerMaps /\ Placed(Now, W)
      /\ W[Query(u)] # None
  BY <1>2 DEF QueryWaits
<1>4. CancelGives(Now, Query(u), c, W)
  BY <1>3, CancelledPlaced
<1> HIDE DEF c, W
<1>5. /\ c \in States /\ Beside(Now, c) /\ c.task = Now.task /\ Placed(c, W) /\ ~InProgress(c, Query(u))
  BY <1>4 DEF CancelGives, Beside
<1>6. /\ V \in OwnerMaps /\ V[Query(u)] = None /\ \A d \in Downloads : d # Query(u) => V[d] = W[d]
  <2>1. None \in UriOrNone
    BY DEF UriOrNone
  <2> QED
    BY <1>3, <2>1, WithIs
<1> HIDE DEF V
<1>7. Carries(c, W, c, V)
  BY <1>5, <1>6 DEF Carries
<1>8. Placed(c, V)
  BY <1>3, <1>5, <1>6, <1>7, Carried
<1>9. Good(e) /\ e.hist = Now.hist
  BY <1>2, <1>5, <1>8, QueryEnds DEF V, W
<1>10. Visits(Now, e)
  BY <1>9 DEF Visits
<1> QED
  BY <1>1, <1>9, <1>10, BecomesKeeps

\* continue_download(): the file takes over the place in the list.
LEMMA SaveKeeps ==
    ASSUME SessionInv, NEW u \in Files, Save(u)
    PROVE  Keeps
<1> DEFINE going == InProgress(Now, Query(u))
           lu == [d \in Linkable |->
                    CASE d = File(u) -> IF going THEN 1 ELSE 0
                      [] d = Query(u) -> IF going THEN 0 ELSE links[u][d]
                      [] OTHER -> links[u][d]]
           lks == [links EXCEPT ![u] = lu]
           m == [Now EXCEPT !.links = lks]
           e == [m EXCEPT !.queries = @ \ {u}, !.dl[Query(u)] = Blank]
           W == Owners(Now)
           V == With(W, Query(u), None)
<1>1. Good(Now) /\ asked' \in 0 .. MaxAsked /\ u \in Now.queries
  BY NowIs DEF SessionInv, Save
<1>2. QueryWaits(Now, u)
  BY <1>1, QueryIs
<1>3. /\ Now \in States /\ Query(u) \in Downloads /\ W \in OwnerMaps /\ Placed(Now, W)
      /\ W[Query(u)] = u /\ u # None /\ u \in Uris /\ links \in LinkMaps
  BY <1>2, NowIs, StatesAre DEF QueryWaits
<1>4. [Now EXCEPT !.links[u] = [d \in Linkable |->
          CASE d = File(u) -> IF going THEN 1 ELSE 0
            [] d = Query(u) -> IF going THEN 0 ELSE @[d]
            [] OTHER -> @[d]]] = m
  BY <1>3, NowIs, StatesAre DEF LinkMaps
<1>5. Becomes(e)
  BY <1>4 DEF Save
<1>6. lks \in LinkMaps
  <2>1. lu \in [Linkable -> Nat]
    BY <1>3 DEF LinkMaps
  <2> QED
    BY <1>3, <2>1 DEF LinkMaps
<1>7. \A v \in Uris : v # u => lks[v] = links[v]
  BY <1>3 DEF LinkMaps
<1>8. links[u][Query(u)] = IF going THEN 1 ELSE 0
  BY <1>3, NowIs DEF Placed
<1>9. lks[u][Query(u)] = 0
  <2>1. lks[u] = lu
    BY <1>3 DEF LinkMaps
  <2>2. Query(u) \in Linkable /\ Query(u) # File(u)
    BY <1>3, DownloadsAre, DownloadsDiffer
  <2> QED
    BY <1>8, <2>1, <2>2
<1>10. \A d \in Downloads : d # Query(u) => lks[u][d] = links[u][d]
  <2>1. lks[u] = lu
    BY <1>3 DEF LinkMaps
  <2> SUFFICES ASSUME NEW d \in Downloads, d # Query(u)
               PROVE  lks[u][d] = links[u][d]
    OBVIOUS
  <2>2. d \in Linkable /\ d # File(u)
    BY DownloadsAre, DownloadsDiffer
  <2> QED
    BY <2>1, <2>2
<1>11. conn[u] = "none" => lks[u] = Nothing
  <2> SUFFICES ASSUME conn[u] = "none"
               PROVE  lks[u] = Nothing
    OBVIOUS
  <2>1. links[u] = Nothing
    BY <1>3, NowIs DEF Placed
  <2>2. ~going
    BY <1>3, <1>8, <2>1, DownloadsAre DEF Nothing
  <2>3. lks[u] = lu
    BY <1>3 DEF LinkMaps
  <2>4. \A d \in Linkable : lu[d] = 0
    BY <2>1, <2>2 DEF Nothing
  <2>5. lu = [d \in Linkable |-> lu[d]]
    OBVIOUS
  <2> HIDE DEF lu
  <2> QED
    BY <2>3, <2>4, <2>5 DEF Nothing
<1> HIDE DEF lks, m
<1>12. /\ Beside(Now, m) /\ m.task = Now.task /\ m.links = lks /\ m.conn = conn /\ m.dl = dl
  BY <1>3, <1>6, NowIs, StatesAre DEF Beside, m
<1> HIDE DEF W
<1>13. /\ V \in OwnerMaps /\ V[Query(u)] = None /\ \A d \in Downloads : d # Query(u) => V[d] = W[d]
  <2>1. None \in UriOrNone
    BY DEF UriOrNone
  <2> QED
    BY <1>3, <2>1, WithIs
<1> HIDE DEF V
<1>14. Placed(m, V)
  <2>1. \A d \in Downloads : InProgress(m, d) <=> InProgress(Now, d)
    BY <1>12, NowIs DEF InProgress
  <2>2. ASSUME NEW d \in Downloads, NEW v \in Uris
        PROVE  m.links[v][d] = IF V[d] = v /\ InProgress(m, d) THEN 1 ELSE 0
    <3>1. links[v][d] = IF W[d] = v /\ InProgress(Now, d) THEN 1 ELSE 0
      BY <1>3, NowIs DEF Placed
    <3>2. CASE d = Query(u)
      <4>1. V[d] # v
        BY <1>13, <3>2, SessionAssumption
      <4>2. links[v][d] = 0 \/ v = u
        BY <1>3, <3>1, <3>2
      <4> QED
        BY <1>7, <1>9, <1>12, <3>2, <4>1, <4>2
    <3>3. CASE d # Query(u)
      BY <1>7, <1>10, <1>12, <1>13, <2>1, <3>1, <3>3
    <3> QED
      BY <3>2, <3>3
  <2>3. ASSUME NEW d \in Downloads, V[d] # None, InProgress(m, d)
        PROVE  m.dl[d].conn = V[d]
    <3>1. d # Query(u)
      BY <1>13, <2>3
    <3> QED
      BY <1>3, <1>12, <1>13, <2>1, <2>3, <3>1, NowIs DEF Placed
  <2>4. ASSUME NEW v \in Uris, m.conn[v] = "none"
        PROVE  m.links[v] = Nothing
    <3>1. conn[v] = "none" /\ (conn[v] = "none" => links[v] = Nothing)
      BY <1>3, <1>12, <2>4, NowIs DEF Placed
    <3> QED
      BY <1>7, <1>11, <1>12, <3>1
  <2> QED
    BY <2>2, <2>3, <2>4 DEF Placed
<1>15. Good(e) /\ e.hist = Now.hist
  BY <1>2, <1>12, <1>14, QueryEnds DEF V, W
<1>16. Visits(Now, e)
  BY <1>15 DEF Visits
<1> HIDE DEF e
<1> QED
  BY <1>1, <1>5, <1>15, <1>16, BecomesKeeps

\* Nothing but the query is in progress.
LEMMA QueryAlone ==
    ASSUME NEW s, NEW u, QueryWaits(s, u), Rests(s)
    PROVE  Placed(s, Only(Query(u), u))
<1> DEFINE W == Owners(s)
           V == Only(Query(u), u)
<1>1. /\ s \in States /\ Placed(s, W) /\ W \in OwnerMaps /\ u \in Uris /\ u # None
      /\ Query(u) \in Downloads /\ W[Query(u)] = u
  BY DEF QueryWaits
<1>2. V \in OwnerMaps /\ V[Query(u)] = u /\ \A e \in Downloads : e # Query(u) => V[e] = None
  BY <1>1, OnlyIs
<1>3. /\ W[Loading] = None
      /\ \A v \in Files : v # u => W[Query(v)] = None
      /\ \A i \in Locs : W[Loc(i)] # None /\ InProgress(s, Loc(i)) => FALSE
  BY <1>1, OwnersAre, SessionAssumption DEF QueryWaits, Rests
<1> HIDE DEF V, W
<1>4. ASSUME NEW d \in Downloads
      PROVE  /\ (W[d] # None /\ InProgress(s, d)) <=> (V[d] # None /\ InProgress(s, d))
             /\ W[d] # None /\ InProgress(s, d) => V[d] = W[d]
  <2>1. CASE d = Query(u)
    BY <1>1, <1>2, <2>1
  <2>2. CASE d # Query(u)
    BY <1>2, <1>3, <2>2, DownloadKinds
  <2> QED
    BY <2>1, <2>2
<1>5. Carries(s, W, s, V)
  BY <1>4 DEF Carries
<1> QED
  BY <1>1, <1>2, <1>5, Carried DEF V

\* tp_display()
LEMMA DisplayKeeps ==
    ASSUME SessionInv, Patient, NEW u \in Files, Display(u)
    PROVE  Keeps
<1> DEFINE t == Forward(Now, u)
           i == t.cur
           W == Only(Query(u), u)
           V == With(With(W, Loc(i), u), Query(u), None)
           m == MoveDownload(t, Query(u), Loc(i))
           e == [m EXCEPT !.queries = @ \ {u}, !.dl[Query(u)] = Blank]
<1>1. Good(Now) /\ asked' \in 0 .. MaxAsked /\ Becomes(e) /\ u \in Now.queries
  BY NowIs DEF SessionInv, Display
<1>2. QueryWaits(Now, u)
  BY <1>1, QueryIs
<1>3. Rests(Now)
  BY NowIs DEF Display, Rests
<1>4. /\ Now \in States /\ History(Now) /\ FreeLoc(Now) /\ u \in Uris /\ Query(u) \in Downloads
      /\ Now.queries = {u} /\ Now.boxes = {} /\ Now.task.type = "none" /\ u \in Files
  BY <1>2 DEF QueryWaits
<1>5. ForwardGives(Now, u, t)
  BY <1>4, ForwardIs
<1> HIDE DEF t
<1>6. /\ Turned(Now, t) /\ t \in States /\ History(t) /\ i \in Locs /\ t.uri[i] = u
      /\ t.dl[Query(u)] = Now.dl[Query(u)] /\ t.queries = {u} /\ t.boxes = {} /\ t.task.type = "none"
      /\ Placement(Now, t)
  BY <1>4, <1>5 DEF ForwardGives, Turned
<1>7. Placed(Now, W)
  BY <1>2, <1>3, QueryAlone
<1>8. Placed(t, W)
  BY <1>4, <1>6, <1>7, TurnedPlaced
<1>9. W \in OwnerMaps /\ W[Query(u)] = u /\ \A d \in Downloads : d # Query(u) => W[d] = None
  BY <1>4, OnlyIs
<1> HIDE DEF W, i
<1>10. /\ Loc(i) \in Downloads /\ Loc(i) # Query(u)
  BY <1>6, DownloadsAre, DownloadsDiffer
<1>11. MoveGives(t, Query(u), Loc(i), u, m, W)
  BY <1>4, <1>6, <1>8, <1>9, <1>10, MovePlaced
<1>12. /\ V \in OwnerMaps /\ V[Loc(i)] = u /\ V[Query(u)] = None
       /\ \A d \in Downloads : d # Loc(i) => V[d] = None
  BY <1>4, <1>9, <1>10, OwnersMove
<1> HIDE DEF m
<1>13. /\ Beside(t, m) /\ m \in States /\ m.task = t.task /\ Placed(m, V)
  BY <1>11 DEF MoveGives, Beside
<1> HIDE DEF V
<1>14. /\ e \in States /\ e.hist = m.hist /\ e.cur = m.cur /\ e.uri = m.uri /\ e.task = m.task
       /\ e.boxes = m.boxes /\ e.queries = m.queries \ {u} /\ Placed(e, V)
  <2>1. u \in Files /\ m \in States /\ V \in OwnerMaps /\ Placed(m, V) /\ V[Query(u)] = None
    BY <1>4, <1>12, <1>13
  <2> QED
    BY <2>1, QueryGone
<1> HIDE DEF e
<1>15. /\ e.hist = t.hist /\ e.cur = i /\ e.uri = t.uri /\ e.task.type = "none"
       /\ e.boxes = {} /\ e.queries = {}
  BY <1>6, <1>13, <1>14 DEF Beside, i
<1>16. History(e) /\ Waits(e)
  BY <1>6, <1>15 DEF History, Waits, i
<1>17. V[Loading] = Owners(e)[Loading]
  BY <1>12, <1>14, <1>15, OwnersAre, DownloadsAre, DownloadsDiffer
<1>18. ASSUME NEW j \in Locs
       PROVE  V[Loc(j)] = Owners(e)[Loc(j)]
  <2>1. Owners(e)[Loc(j)] = IF e.cur = j THEN e.uri[j] ELSE None
    BY <1>14, OwnersAre
  <2>2. Loc(j) \in Downloads /\ (Loc(j) = Loc(i) => j = i)
    BY DownloadsAre, DownloadsDiffer
  <2> QED
    BY <1>6, <1>12, <1>15, <2>1, <2>2
<1>19. ASSUME NEW v \in Files
       PROVE  V[Query(v)] = Owners(e)[Query(v)]
  <2>1. Owners(e)[Query(v)] = None
    BY <1>14, <1>15, OwnersAre
  <2>2. Query(v) \in Downloads /\ Query(v) # Loc(i)
    BY DownloadsAre, DownloadsDiffer
  <2> QED
    BY <1>12, <2>1, <2>2
<1>20. Placed(e, Owners(e))
  BY <1>12, <1>14, <1>17, <1>18, <1>19, Agreed
<1>21. Good(e)
  BY <1>14, <1>16, <1>20 DEF Good
<1>22. Visits(Now, e)
  BY <1>6, <1>15 DEF Visits, Placement, i
<1> QED
  BY <1>1, <1>21, <1>22, BecomesKeeps

\* destroy_session()
LEMMA CloseTabKeeps ==
    ASSUME SessionInv, Patient, CloseTab
    PROVE  SessionInv'
<1> DEFINE a == AbortLoading(Now, FALSE)
           ended == {Query(v) : v \in queries}
           free == [i \in Locs |-> None]
           lks == [u \in Uris |-> [d \in Linkable |-> IF d \in ended THEN 0 ELSE a.links[u][d]]]
           dls == [d \in Downloads |-> Blank]
           idle == [type |-> "none", uri |-> None, loc |-> None]
           e == [a EXCEPT !.hist = <<>>, !.cur = None, !.uri = free, !.cnt = 0, !.boxes = {},
                          !.queries = {}, !.links = lks, !.dl = dls, !.task = idle]
<1>1. Good(Now) /\ queries = {} /\ asked' \in 0 .. MaxAsked
  BY DEF SessionInv, CloseTab, May, Answered
<1>2. AbortGives(Now, a) /\ Rests(a)
  BY <1>1, AbortLoadingKeeps
<1>3. Becomes(e)
  BY <1>2, StatesAre DEF CloseTab
<1> HIDE DEF a
<1>4. /\ a \in States /\ Good(a) /\ a.task.type = "none" /\ a.queries = {} /\ Placed(a, Owners(a))
  BY <1>1, <1>2, NowIs DEF AbortGives, Beside, Good
<1>5. a.links \in LinkMaps
  BY <1>4, StatesAre
<1>6. /\ <<>> \in Hists /\ None \in Currents /\ free \in UriMaps /\ 0 \in Counts /\ {} \in Boxes
      /\ {} \in QuerySets /\ idle \in Tasks /\ idle.type = "none"
  BY SessionAssumption DEF Hists, Currents, UriMaps, UriOrNone, Counts, Boxes, QuerySets, Tasks, Types, Places
<1>7. lks \in LinkMaps
  BY <1>5 DEF LinkMaps
<1>8. dls \in DlMaps
  BY DEF DlMaps, Blank, UriOrNone
<1>9. \A u \in Uris : lks[u] = a.links[u]
  <2> SUFFICES ASSUME NEW u \in Uris
               PROVE  lks[u] = a.links[u]
    OBVIOUS
  <2>1. lks[u] = [d \in Linkable |-> a.links[u][d]]
    BY <1>1
  <2> HIDE DEF lks
  <2> QED
    BY <1>5, <2>1 DEF LinkMaps
<1>10. \A u \in Uris, d \in Downloads : a.links[u][d] = 0
  <2> SUFFICES ASSUME NEW u \in Uris, NEW d \in Downloads
               PROVE  a.links[u][d] = 0
    OBVIOUS
  <2>1. a.links[u][d] = IF Owners(a)[d] = u /\ InProgress(a, d) THEN 1 ELSE 0
    BY <1>4 DEF Placed
  <2>2. Owners(a)[Loading] = None /\ \A v \in Files : Owners(a)[Query(v)] = None
    BY <1>4, OwnersAre
  <2>3. \A i \in Locs : Owners(a)[Loc(i)] # None => ~InProgress(a, Loc(i))
    BY <1>2, <1>4, OwnersAre, SessionAssumption DEF Rests
  <2>4. Owners(a)[d] # None => ~InProgress(a, d)
    BY <2>2, <2>3, DownloadKinds
  <2> QED
    BY <2>1, <2>4, SessionAssumption
<1> HIDE DEF lks, dls, free, idle, e
<1>11. /\ e \in States /\ e.hist = <<>> /\ e.cur = None /\ e.uri = free /\ e.boxes = {} /\ e.queries = {}
       /\ e.links = lks /\ e.dl = dls /\ e.task = idle /\ e.conn = a.conn
  BY <1>4, <1>6, <1>7, <1>8, StatesAre DEF e
<1>12. /\ Owners(e) \in OwnerMaps /\ \A d \in Downloads : Owners(e)[d] = None
  <2>1. Owners(e)[Loading] = None /\ \A v \in Files : Owners(e)[Query(v)] = None
    BY <1>6, <1>11, OwnersAre
  <2>2. \A i \in Locs : Owners(e)[Loc(i)] = None
    BY <1>11, OwnersAre, SessionAssumption
  <2> QED
    BY <1>11, <2>1, <2>2, DownloadKinds, OwnersAre
<1>13. Placed(e, Owners(e))
  <2>1. ASSUME NEW d \in Downloads, NEW u \in Uris
        PROVE  e.links[u][d] = IF Owners(e)[d] = u /\ InProgress(e, d) THEN 1 ELSE 0
    BY <1>9, <1>10, <1>11, <1>12, SessionAssumption
  <2>2. ASSUME NEW u \in Uris, e.conn[u] = "none"
        PROVE  e.links[u] = Nothing
    BY <1>4, <1>9, <1>11, <2>2 DEF Placed
  <2> QED
    BY <1>12, <2>1, <2>2 DEF Placed
<1>14. History(e) /\ Waits(e)
  BY <1>6, <1>11 DEF History, Waits, IsInjective, Range
<1>15. Good(e)
  BY <1>11, <1>13, <1>14 DEF Good
<1> QED
  BY <1>1, <1>3, <1>15, BecomesGood

\* What the connections and the cache keep to themselves.
LEMMA Aside ==
    ASSUME NEW s, NEW t, Good(s), Beside(s, t), t.task = s.task, t.dl = s.dl, t.links = s.links,
           \A u \in Uris : t.conn[u] = "none" => s.conn[u] = "none"
    PROVE  Good(t)
<1>1. Placed(t, Owners(s))
  BY DEF Good, Placed, InProgress
<1>2. Rests(s) => Rests(t)
  BY DEF Rests, InProgress, Beside
<1> QED
  BY <1>1, <1>2, GoodBeside

\* A change of the cache is one of its own.
LEMMA EntryIs ==
    ASSUME NEW s \in States, NEW u \in Uris, NEW held \in {"none", "part", "whole"}, NEW to \in UriOrNone
    PROVE  LET t == [s EXCEPT !.entry[u] = [held |-> held, to |-> to]]
           IN  /\ Beside(s, t) /\ t.task = s.task /\ t.dl = s.dl /\ t.links = s.links /\ t.conn = s.conn
<1> DEFINE entries == [s.entry EXCEPT ![u] = [held |-> held, to |-> to]]
           t == [s EXCEPT !.entry[u] = [held |-> held, to |-> to]]
<1>1. s.entry \in EntryMaps
  BY StatesAre
<1>2. entries \in EntryMaps
  BY <1>1 DEF EntryMaps
<1>3. t = [s EXCEPT !.entry = entries]
  BY StatesAre
<1> HIDE DEF entries, t
<1> QED
  BY <1>2, <1>3, StatesAre DEF Beside, t

\* A connection of a state that goes on tells it.
LEMMA NotifiedKeeps ==
    ASSUME NEW s, Good(s), NEW u \in Uris, NEW state \in {"wait", "trans"}
    PROVE  Good(Notified(s, u, state)) /\ Notified(s, u, state).hist = s.hist
<1> DEFINE n == Notified(s, u, state)
<1>1. s \in States /\ Owners(s) \in OwnerMaps /\ Placed(s, Owners(s))
  BY OwnersAre DEF Good
<1>2. NotifyGives(s, n, Owners(s))
  BY <1>1, NotifiedPlaced
<1> HIDE DEF n
<1>3. Rests(s) => Rests(n)
  <2>1. s.cur # None => Loc(s.cur) \in Downloads
    BY CurrentIs
  <2> QED
    BY <1>2, <2>1 DEF Rests, NotifyGives, Beside
<1> QED
  BY <1>2, <1>3, GoodBeside DEF NotifyGives, Beside, n

\* A connection of a result ends, and its downloads with it.
LEMMA EndedKeeps ==
    ASSUME NEW s, Good(s), NEW u \in Uris, NEW state \in Results
    PROVE  Good(Ended(s, u, state)) /\ Ended(s, u, state).hist = s.hist
<1> DEFINE n == Ended(s, u, state)
<1>1. s \in States /\ Owners(s) \in OwnerMaps /\ Placed(s, Owners(s))
  BY OwnersAre DEF Good
<1>2. EndGives(s, n, Owners(s))
  BY <1>1, EndedPlaced
<1> HIDE DEF n
<1>3. Rests(s) => Rests(n)
  <2>1. s.cur # None => Loc(s.cur) \in Downloads
    BY CurrentIs
  <2> QED
    BY <1>2, <2>1 DEF Rests, EndGives, Beside
<1> QED
  BY <1>2, <1>3, GoodBeside DEF EndGives, Beside, n

\* The header arrives, wherever it redirects to.
LEMMA HeaderKeeps ==
    ASSUME SessionInv, NEW u \in Uris, Header(u)
    PROVE  Keeps
<1>1. Good(Now) /\ Now \in States /\ asked' \in 0 .. MaxAsked
  BY DEF SessionInv, Good, Header
<1>2. PICK to \in Answers[u] :
        Becomes(Notified([Now EXCEPT !.conn[u] = "trans",
                                     !.entry[u] = [held |-> "part", to |-> to]], u, "trans"))
  BY DEF Header
<1> DEFINE cns == [conn EXCEPT ![u] = "trans"]
           c == [Now EXCEPT !.conn = cns]
           n == [c EXCEPT !.entry[u] = [held |-> "part", to |-> to]]
           t == Notified(n, u, "trans")
<1>3. to \in UriOrNone
  BY SessionAssumption DEF UriOrNone
<1>4. conn \in ConnMaps
  BY <1>1, StatesAre, NowIs
<1>5. cns \in ConnMaps /\ \A v \in Uris : cns[v] = "none" => conn[v] = "none"
  BY <1>4 DEF ConnMaps
<1>6. n = [Now EXCEPT !.conn[u] = "trans", !.entry[u] = [held |-> "part", to |-> to]]
  BY <1>1, StatesAre, NowIs
<1> HIDE DEF cns
<1>7. Beside(Now, c) /\ c.task = Now.task /\ c.dl = Now.dl /\ c.links = Now.links /\ c.conn = cns
  BY <1>1, <1>5, StatesAre DEF Beside
<1> HIDE DEF c
<1>8. Good(c) /\ c \in States
  BY <1>1, <1>5, <1>7, NowIs, Aside DEF Beside
<1>9. Beside(c, n) /\ n.task = c.task /\ n.dl = c.dl /\ n.links = c.links /\ n.conn = c.conn
  BY <1>3, <1>8, EntryIs
<1>10. Becomes(t)
  BY <1>2, <1>6
<1> HIDE DEF n
<1>11. Good(n)
  BY <1>8, <1>9, Aside
<1>12. Good(t) /\ t.hist = n.hist
  BY <1>11, NotifiedKeeps
<1>13. Visits(Now, t)
  BY <1>7, <1>9, <1>12 DEF Visits, Beside
<1> QED
  BY <1>1, <1>10, <1>12, <1>13, BecomesKeeps

\* The page has arrived.
LEMMA FinishKeeps ==
    ASSUME SessionInv, NEW u \in Uris, Finish(u)
    PROVE  Keeps
<1> DEFINE to == entry[u].to
           n == [Now EXCEPT !.entry[u] = [held |-> "whole", to |-> to]]
           t == Ended(n, u, "ok")
<1>1. Good(Now) /\ Now \in States /\ asked' \in 0 .. MaxAsked
  BY DEF SessionInv, Good, Finish
<1>2. entry \in EntryMaps
  BY <1>1, StatesAre, NowIs
<1>3. to \in UriOrNone /\ [Now EXCEPT !.entry[u].held = "whole"] = n
  BY <1>1, <1>2, StatesAre, NowIs DEF EntryMaps
<1>4. Becomes(t)
  BY <1>3 DEF Finish
<1> HIDE DEF to
<1>5. Beside(Now, n) /\ n.task = Now.task /\ n.dl = Now.dl /\ n.links = Now.links /\ n.conn = Now.conn
  BY <1>1, <1>3, EntryIs
<1> HIDE DEF n
<1>6. Good(n)
  BY <1>1, <1>5, Aside
<1>7. Good(t) /\ t.hist = n.hist
  BY <1>6, EndedKeeps DEF Results
<1>8. Visits(Now, t)
  BY <1>5, <1>7 DEF Visits, Beside
<1> QED
  BY <1>1, <1>4, <1>7, <1>8, BecomesKeeps

\* The connection fails.
LEMMA FailsKeeps ==
    ASSUME SessionInv, NEW u \in Uris, Fails(u)
    PROVE  Keeps
<1> DEFINE t == Ended(Now, u, "error")
<1>1. Good(Now) /\ asked' \in 0 .. MaxAsked /\ Becomes(t)
  BY DEF SessionInv, Fails
<1>2. Good(t) /\ t.hist = Now.hist
  BY <1>1, EndedKeeps DEF Results
<1>3. Visits(Now, t)
  BY <1>2 DEF Visits
<1> QED
  BY <1>1, <1>2, <1>3, BecomesKeeps

\* The entry leaves the cache.
LEMMA ExpireKeeps ==
    ASSUME SessionInv, NEW u \in Uris, Expire(u)
    PROVE  Keeps
<1> DEFINE n == [Now EXCEPT !.entry[u] = [held |-> "none", to |-> None]]
<1>1. Good(Now) /\ Now \in States /\ asked' \in 0 .. MaxAsked /\ Becomes(n)
  BY DEF SessionInv, Good, Expire
<1>2. None \in UriOrNone
  BY DEF UriOrNone
<1>3. Beside(Now, n) /\ n.task = Now.task /\ n.dl = Now.dl /\ n.links = Now.links /\ n.conn = Now.conn
  BY <1>1, <1>2, EntryIs
<1> HIDE DEF n
<1>4. Good(n)
  BY <1>1, <1>3, Aside
<1>5. Visits(Now, n)
  BY <1>3 DEF Visits, Beside
<1> QED
  BY <1>1, <1>4, <1>5, BecomesKeeps

\* The callback that is due is made.
LEMMA CallbackKeeps ==
    ASSUME SessionInv, Callback
    PROVE  Keeps
<1> DEFINE n == [Now EXCEPT !.due = FALSE]
           t == LoadingCallback(n)
<1>1. Good(Now) /\ Now \in States /\ asked' \in 0 .. MaxAsked /\ Becomes(t)
  BY DEF SessionInv, Good, Callback
<1>2. Beside(Now, n) /\ n.task = Now.task /\ n.dl = Now.dl /\ n.links = Now.links /\ n.conn = Now.conn
  BY <1>1, StatesAre DEF Beside
<1> HIDE DEF n
<1>3. Good(n)
  BY <1>1, <1>2, Aside
<1>4. Good(t) /\ Visits(n, t)
  BY <1>3, LoadingCallbackKeeps
<1> HIDE DEF t
<1>5. Position(n) = Position(Now)
  BY <1>2 DEF Position, Index, Beside
<1>6. Visits(Now, t)
  BY <1>2, <1>4, <1>5 DEF Visits, Placement, Beside
<1> QED
  BY <1>1, <1>4, <1>6, BecomesKeeps

-----------------------------------------------------------------------------
(* The theorems.                                                           *)

\* A session that has just been opened.
LEMMA InitHolds == InitSession => SessionInv
<1> SUFFICES ASSUME InitSession
             PROVE  SessionInv
  OBVIOUS
<1>1. /\ hist \in Hists /\ cur \in Currents /\ uri \in UriMaps /\ cnt \in Counts /\ boxes \in Boxes
      /\ queries \in QuerySets /\ task \in Tasks
  BY SessionAssumption DEF InitSession, Hists, Currents, UriMaps, UriOrNone, Counts, Boxes, QuerySets,
     Tasks, Types, Places
<1>2. /\ dl \in DlMaps /\ conn \in ConnMaps /\ links \in LinkMaps /\ entry \in EntryMaps
      /\ due \in BOOLEAN /\ confirm \in BOOLEAN
  BY DEF InitSession, DlMaps, Blank, UriOrNone, ConnMaps, LinkMaps, Nothing, EntryMaps
<1>3. Now \in States
  BY <1>1, <1>2, StatesAre DEF Now
<1>4. /\ hist = <<>> /\ cur = None /\ boxes = {} /\ queries = {} /\ task.type = "none"
      /\ \A u \in Uris : links[u] = Nothing
  BY DEF InitSession
<1>5. History(Now) /\ Waits(Now)
  BY <1>4, NowIs DEF History, Waits, IsInjective, Range
<1>6. \A d \in Downloads : Owners(Now)[d] = None
  <2>1. Owners(Now)[Loading] = None /\ \A v \in Files : Owners(Now)[Query(v)] = None
    BY <1>3, <1>4, NowIs, OwnersAre
  <2>2. \A i \in Locs : Owners(Now)[Loc(i)] = None
    BY <1>3, <1>4, NowIs, OwnersAre, SessionAssumption
  <2> QED
    BY <2>1, <2>2, DownloadKinds
<1>7. Placed(Now, Owners(Now))
  <2>1. ASSUME NEW d \in Downloads, NEW u \in Uris
        PROVE  Now.links[u][d] = IF Owners(Now)[d] = u /\ InProgress(Now, d) THEN 1 ELSE 0
    <3>1. Now.links[u][d] = 0
      BY <1>4, NowIs, DownloadsAre DEF Nothing
    <3>2. Owners(Now)[d] # u
      BY <1>6, SessionAssumption
    <3> QED
      BY <3>1, <3>2
  <2> QED
    BY <1>4, <1>6, <2>1, NowIs DEF Placed
<1>8. asked \in 0 .. MaxAsked
  BY SessionAssumption DEF InitSession
<1> QED
  BY <1>3, <1>5, <1>7, <1>8 DEF SessionInv, Good

\* Every step keeps the invariant, and all but the end of the session keep the
\* pages that were visited.
LEMMA StepKeeps ==
    ASSUME SessionInv, Patient, NextSession
    PROVE  SessionInv' /\ (CloseTab \/ Visits(Now, Now'))
<1>1. CASE Callback
  BY <1>1, CallbackKeeps DEF Keeps
<1>2. ASSUME NEW u \in Uris, Header(u) \/ Finish(u) \/ Fails(u) \/ Expire(u)
      PROVE  Keeps
  BY <1>2, HeaderKeeps, FinishKeeps, FailsKeeps, ExpireKeeps
<1>3. ASSUME NEW u \in Uris, Follow(u)
      PROVE  Keeps
  BY <1>3, FollowKeeps
<1>4. ASSUME NEW i \in Locs, GoHistory(i)
      PROVE  Keeps
  BY <1>4, GoHistoryKeeps
<1>5. CASE ReloadDocument
  BY <1>5, ReloadDocumentKeeps DEF Keeps
<1>6. CASE Stop
  BY <1>6, StopKeeps DEF Keeps
<1>7. ASSUME NEW b \in boxes, PostYes(b) \/ PostNo(b)
      PROVE  Keeps
  BY <1>7, PostYesKeeps, PostNoKeeps
<1>8. ASSUME NEW u \in Files, Display(u) \/ Save(u) \/ CancelQuery(u)
      PROVE  Keeps
  BY <1>8, DisplayKeeps, SaveKeeps, CancelQueryKeeps
<1>9. CASE CloseTab
  BY <1>9, CloseTabKeeps
<1> QED
  BY <1>1, <1>2, <1>3, <1>4, <1>5, <1>6, <1>7, <1>8, <1>9 DEF NextSession, UserStep, Keeps

\* A step that changes nothing.
LEMMA StutterKeeps ==
    ASSUME SessionInv, UNCHANGED sessionVars
    PROVE  SessionInv' /\ hist' = hist
<1>1. Now' = Now /\ asked' = asked
  BY DEF sessionVars, Now
<1> QED
  BY <1>1 DEF SessionInv, sessionVars

\* The invariant implies what the run checks,
LEMMA PlacedAll ==
    ASSUME SessionInv
    PROVE  DownloadsPlaced
<1> DEFINE W == Owners(Now)
<1>1. /\ Now \in States /\ History(Now) /\ Waits(Now) /\ Placed(Now, W) /\ asked \in 0 .. MaxAsked
  BY DEF SessionInv, Good
<1>2. SessionTypeOK
  BY <1>1, NowIs DEF SessionTypeOK, History
<1>3. /\ W[Loading] = IF task.type = "none" THEN None ELSE task.uri
      /\ \A i \in Locs : W[Loc(i)] = IF cur = i THEN uri[i] ELSE None
      /\ \A v \in Files : W[Query(v)] = IF v \in queries THEN v ELSE None
  BY <1>1, NowIs, OwnersAre
<1>4. task.type # "none" => task.uri \in Uris
  BY <1>1, NowIs DEF Waits
<1>5. cur # None => uri[cur] \in Uris
  BY NowIs, CurrentIs DEF SessionInv
<1>6. queries \subseteq Uris
  BY <1>1, NowIs, StatesAre, SessionAssumption DEF QuerySets
<1> HIDE DEF W
<1>7. ASSUME NEW d \in Downloads
      PROVE  /\ Owned(d) <=> W[d] # None
             /\ Owned(d) => W[d] = CASE d = Loading -> task.uri
                                   [] d = Loc(cur) -> uri[cur]
                                   [] d[1] = "query" -> d[2]
  <2>1. CASE d = Loading
    <3>1. Owned(d) <=> task.type # "none"
      BY <2>1, DownloadKinds DEF Owned, Loading
    <3>2. d # Loc(cur) /\ d[1] # "query"
      BY <2>1, DownloadsDiffer DEF Loading
    <3> QED
      BY <1>3, <1>4, <2>1, <3>1, <3>2, SessionAssumption
  <2>2. ASSUME NEW i \in Locs, d = Loc(i)
        PROVE  /\ Owned(d) <=> W[d] # None
               /\ Owned(d) => W[d] = CASE d = Loading -> task.uri
                                     [] d = Loc(cur) -> uri[cur]
                                     [] d[1] = "query" -> d[2]
    <3>1. Owned(d) <=> Loc(i) = Loc(cur)
      BY <2>2, DownloadKinds DEF Owned, Loc
    <3>2. Loc(i) = Loc(cur) <=> i = cur
      BY DownloadsDiffer
    <3>3. d # Loading /\ d[1] # "query"
      BY <2>2, DownloadsDiffer DEF Loc
    <3> QED
      BY <1>3, <1>5, <2>2, <3>1, <3>2, <3>3, SessionAssumption
  <2>3. ASSUME NEW v \in Files, d = Query(v)
        PROVE  /\ Owned(d) <=> W[d] # None
               /\ Owned(d) => W[d] = CASE d = Loading -> task.uri
                                     [] d = Loc(cur) -> uri[cur]
                                     [] d[1] = "query" -> d[2]
    <3>1. d[1] = "query" /\ d[2] = v /\ d # Loading /\ d # Loc(cur)
      BY <2>3, DownloadKinds, DownloadsDiffer
    <3>2. Owned(d) <=> v \in queries
      BY <3>1 DEF Owned
    <3> QED
      BY <1>3, <1>6, <2>3, <3>1, <3>2, SessionAssumption
  <2> QED
    BY <2>1, <2>2, <2>3, DownloadKinds
<1>8. \A u \in Uris, d \in Downloads :
        links[u][d] = IF Owned(d) /\ InProgress(Now, d) /\ dl[d].conn = u THEN 1 ELSE 0
  <2> SUFFICES ASSUME NEW u \in Uris, NEW d \in Downloads
               PROVE  links[u][d] = IF Owned(d) /\ InProgress(Now, d) /\ dl[d].conn = u THEN 1 ELSE 0
    OBVIOUS
  <2>1. links[u][d] = IF W[d] = u /\ InProgress(Now, d) THEN 1 ELSE 0
    BY <1>1, NowIs DEF Placed
  <2>2. W[d] # None /\ InProgress(Now, d) => dl[d].conn = W[d]
    BY <1>1, NowIs DEF Placed
  <2>3. Owned(d) <=> W[d] # None
    BY <1>7
  <2> QED
    BY <2>1, <2>2, <2>3, SessionAssumption
<1>9. \A d \in Downloads :
         Owned(d) /\ InProgress(Now, d) =>
            dl[d].conn = CASE d = Loading -> task.uri
                           [] d = Loc(cur) -> uri[cur]
                           [] d[1] = "query" -> d[2]
  <2> SUFFICES ASSUME NEW d \in Downloads, Owned(d), InProgress(Now, d)
               PROVE  dl[d].conn = CASE d = Loading -> task.uri
                                     [] d = Loc(cur) -> uri[cur]
                                     [] d[1] = "query" -> d[2]
    OBVIOUS
  <2>1. dl[d].conn = W[d]
    BY <1>1, <1>7, NowIs DEF Placed
  <2> QED
    BY <1>7, <2>1
<1>10. \A u \in Uris : conn[u] = "none" => links[u] = Nothing
  BY <1>1, NowIs DEF Placed
<1>11. task.type = "history" => task.loc \in Range(hist)
  BY <1>1, NowIs DEF Waits, Aimed
<1>12. \A b \in boxes : b.type = "history" => b.loc \in Range(hist)
  BY <1>1, NowIs DEF Waits, Aimed
<1> QED
  BY <1>2, <1>8, <1>9, <1>10, <1>11, <1>12 DEF DownloadsPlaced

\* and so does what every step does to the history.
LEMMA VisitsAre ==
    ASSUME SessionInv, Visits(Now, Now')
    PROVE  hist' # hist /\ task.type # "reload" =>
         LET k == IF cur = None THEN 0 ELSE CHOOSE j \in DOMAIN hist : hist[j] = cur
             rest == IF task.type = "forward" THEN <<>> ELSE SubSeq(hist, k + 1, Len(hist))
         IN  /\ hist' = SubSeq(hist, 1, k) \o <<cur'>> \o rest
             /\ \A j \in 1 .. k : uri'[hist[j]] = uri[hist[j]]
<1>1. (IF cur = None THEN 0 ELSE CHOOSE j \in DOMAIN hist : hist[j] = cur) = Position(Now)
  BY NowIs DEF Position, Index
<1>2. Now'.hist = hist' /\ Now'.cur = cur' /\ Now'.uri = uri'
  BY DEF Now
<1>3. ASSUME hist' # hist, task.type # "reload"
      PROVE  Placement(Now, Now')
  BY <1>2, <1>3, NowIs DEF Visits
<1> QED
  BY <1>1, <1>2, <1>3, NowIs DEF Placement

\* The inductive invariant of a session whose user answers a question before
\* doing anything else: through links, moves, redirects, reloads, stops, queries
\* and the answers and failures of servers in any order, for any URIs, locations
\* and numbers of redirects.
THEOREM SessionKept ==
    ASSUME Patient
    PROVE  SpecSession => []SessionInv
<1>1. SessionInv /\ [NextSession]_sessionVars => SessionInv'
  BY StepKeeps, StutterKeeps
<1>2. SpecSession => InitSession /\ [][NextSession]_sessionVars
  BY PTL DEF SpecSession
<1> QED
  BY InitHolds, <1>1, <1>2, PTL

\* cancel_download(), move_download() and load_uri() are called so that every
\* download of the session is in the list of the connection its owner waits for,
\* once, exactly while it is in progress, and so that no location is destroyed
\* while a connection still has it.
THEOREM DownloadsAlwaysPlaced ==
    ASSUME Patient
    PROVE  SpecSession => []DownloadsPlaced
<1>1. SessionInv => DownloadsPlaced
  BY PlacedAll
<1> QED
  BY <1>1, SessionKept, PTL

\* ses_forward(), ses_history_move() and clean_unhistory() lose no page that was
\* visited: a new one is put right behind the current one, and nothing goes but
\* what followed it, with a link that is followed.
THEOREM VisitedStays ==
    ASSUME Patient
    PROVE  SpecSession => VisitedKept
<1>1. SessionInv /\ [NextSession]_sessionVars =>
        [hist' # hist /\ task.type # "reload" /\ ~CloseTab =>
         LET k == IF cur = None THEN 0 ELSE CHOOSE j \in DOMAIN hist : hist[j] = cur
             rest == IF task.type = "forward" THEN <<>> ELSE SubSeq(hist, k + 1, Len(hist))
         IN  /\ hist' = SubSeq(hist, 1, k) \o <<cur'>> \o rest
             /\ \A j \in 1 .. k : uri'[hist[j]] = uri[hist[j]]]_sessionVars
  BY StepKeeps, VisitsAre
<1>2. SpecSession => [][NextSession]_sessionVars
  BY PTL DEF SpecSession
<1> QED
  BY <1>1, <1>2, SessionKept, PTL DEF VisitedKept
=============================================================================
