------------------------------- MODULE Cookies -------------------------------
(***************************************************************************)
(* The cookies of cookies/cookies.c: the list cookies, the cookies waiting *)
(* for the user's answer, the counted servers they belong to, the index    *)
(* c_domains that send_cookies() looks at first, and the file, which a     *)
(* bottom half writes after a change.  How one file is written is the      *)
(* subject of SecureSave; here a save replaces it or fails.                *)
(***************************************************************************)
EXTENDS Naturals, Sequences, FiniteSetsExt, Functions

CONSTANTS
    Cookie,     \* the structures that can be allocated at once
    Kinds,      \* what servers send: [name, domain, server]
    Edits,      \* members the edit dialog changes: subset of {"expires", "domain"}
    MaxTime,    \* bounds the clock
    MaxAsked,   \* bounds the questions not yet put to the user
    MaxFaults,  \* bounds the failing saves
    MaxEnds     \* bounds the ends of the program

ASSUME CookiesAssumption ==
    /\ IsFiniteSet(Cookie)
    /\ \A k \in Kinds : DOMAIN k = {"name", "domain", "server"}
    /\ Edits \subseteq {"expires", "domain"}
    /\ MaxTime \in Nat /\ MaxAsked \in Nat /\ MaxFaults \in Nat /\ MaxEnds \in Nat

Domains == {k.domain : k \in Kinds}
Servers == {k.server : k \in Kinds}
Names == {k.name : k \in Kinds}
Expires == 0 .. MaxTime + 1             \* 0: at quit time

VARIABLES
    val,        \* what each structure holds
    jar,        \* the list cookies
    queries,    \* the list cookie_queries, newest first
    asked,      \* entries of accept_cookie_dialog in the questions queue
    boxes,      \* cookies held by the message boxes "Accept cookie?"
    locks,      \* object locks of the servers; 0: the server is not in its list
    domains,    \* c_domains
    dirty,      \* cookies_dirty
    half,       \* resave_cookies_bottom_half is registered
    failed,     \* saving failed since the last change
    file,       \* the cookies in the file
    now, up, faults, ends

cookieVars == <<val, jar, queries, asked, boxes, locks, domains>>
saveVars == <<dirty, half, failed, file, faults>>
vars == <<cookieVars, saveVars, now, up, ends>>

Value == [name : Names, domain : Domains, server : Servers, expires : Expires]

InUse == jar \cup Range(queries) \cup boxes
Free == Cookie \ InUse
New == CHOOSE c \in Free : TRUE          \* which memory is of no importance

\* What the structures in use hold, after f is stored into them.
Stored(f) == val' = Restrict(f, jar' \cup Range(queries') \cup boxes')
With(c, v) == [d \in InUse \cup {c} |-> IF d = c THEN v ELSE val[d]]

TypeOK ==
    /\ val \in [InUse -> Value]
    /\ jar \subseteq Cookie /\ boxes \subseteq Cookie
    /\ queries \in Seq(Cookie)
    /\ asked \in 0 .. MaxAsked
    /\ locks \in [Servers -> 0 .. Cardinality(Cookie)]
    /\ domains \subseteq Domains
    /\ dirty \in BOOLEAN /\ half \in BOOLEAN /\ failed \in BOOLEAN
    /\ file \subseteq Value
    /\ now \in 0 .. MaxTime /\ up \in BOOLEAN
    /\ faults \in 0 .. MaxFaults /\ ends \in 0 .. MaxEnds

Init ==
    /\ val = <<>> /\ jar = {} /\ queries = <<>> /\ asked = 0 /\ boxes = {}
    /\ locks = [s \in Servers |-> 0]
    /\ domains = {} /\ file = {}
    /\ dirty = FALSE /\ half = FALSE /\ failed = FALSE
    /\ now = 0 /\ up = TRUE /\ faults = 0 /\ ends = 0

-----------------------------------------------------------------------------
\* Helpers

Expired(v) == v.expires # 0 /\ v.expires <= now
Kept(v) == v.expires > now              \* written by save_cookies()

\* done_cookie() for each of a set, done_cookie_server() for its server.
Unlocked(l, cs) == [s \in Servers |-> l[s] - Cardinality({c \in cs : val[c].server = s})]
Locked(l, s) == [l EXCEPT ![s] = @ + 1]

\* set_cookies_dirty() registers the bottom half whatever dirty was before.
\*
\* mutant: only when nothing was dirty
SetCookiesDirtyOnce ==
    /\ dirty' = TRUE /\ failed' = FALSE
    /\ half' = (half \/ ~dirty)
SetCookiesDirty == dirty' = TRUE /\ half' = TRUE /\ failed' = FALSE

\* accept_cookie() weeds out what has the name and the domain of the new one.
Twins(v) == {c \in jar : val[c].name = v.name /\ val[c].domain = v.domain}

\* mutant: the server of what is weeded out stays locked
AcceptLocked(c, v, l) ==
    /\ locks' = l
    /\ jar' = (jar \ Twins(v)) \cup {c}
    /\ domains' = domains \cup {v.domain}
    /\ SetCookiesDirty
    /\ UNCHANGED <<file, faults>>

\* mutant: the index already has something, so it is left alone
AcceptUnindexed(c, v, l) ==
    /\ locks' = Unlocked(l, Twins(v))
    /\ jar' = (jar \ Twins(v)) \cup {c}
    /\ domains' = IF domains = {} THEN {v.domain} ELSE domains
    /\ SetCookiesDirty
    /\ UNCHANGED <<file, faults>>

\* accept_cookie() of c, which holds v, on locks l.
Accept(c, v, l) ==
    /\ locks' = Unlocked(l, Twins(v))
    /\ jar' = (jar \ Twins(v)) \cup {c}
    /\ domains' = domains \cup {v.domain}
    /\ SetCookiesDirty
    /\ UNCHANGED <<file, faults>>

-----------------------------------------------------------------------------
\* Cookies come and go

\* What the headers of answers make; a date in the past is possible, too.
Received == {[name |-> k.name, domain |-> k.domain, server |-> k.server, expires |-> e] :
                k \in Kinds, e \in Expires}

\* set_cookie() from the header of an answer, with the policy "accept".
SetCookie ==
    /\ up
    /\ Free # {}
    /\ \E v \in Received :
          /\ Accept(New, v, Locked(locks, v.server))
          /\ UNCHANGED <<queries, asked, boxes>>
          /\ Stored(With(New, v))
    /\ UNCHANGED <<now, up, ends>>

\* set_cookie() with the policy "ask": a question for the next user event.
QueryCookie ==
    /\ up
    /\ Free # {} /\ asked < MaxAsked
    /\ \E v \in Received :
          /\ locks' = Locked(locks, v.server)
          /\ queries' = <<New>> \o queries
          /\ UNCHANGED <<jar, boxes>>
          /\ Stored(With(New, v))
    /\ asked' = asked + 1
    /\ UNCHANGED <<domains, saveVars, now, up, ends>>

\* check_questions_queue() calls accept_cookie_dialog(), which looks whether
\* there still is a query: load_cookies() may have freed them.
AcceptCookieDialog ==
    /\ up /\ asked > 0
    /\ asked' = asked - 1
    /\ \/ queries = <<>> /\ UNCHANGED <<queries, boxes>>
       \/ /\ queries # <<>>
          /\ boxes' = boxes \cup {Head(queries)}
          /\ queries' = Tail(queries)
    /\ UNCHANGED <<val, jar, locks, domains, saveVars, now, up, ends>>

AcceptInBox ==
    /\ up
    /\ \E c \in boxes : Accept(c, val[c], locks) /\ boxes' = boxes \ {c}
    /\ UNCHANGED <<queries, asked, now, up, ends>>
    /\ Stored(val)

RejectInBox ==
    /\ up
    /\ \E c \in boxes : locks' = Unlocked(locks, {c}) /\ boxes' = boxes \ {c}
    /\ UNCHANGED <<jar, queries, asked, domains, saveVars, now, up, ends>>
    /\ Stored(val)

\* delete_cookie() of some of the list.
Delete(cs) ==
    /\ jar' = jar \ cs
    /\ locks' = Unlocked(locks, cs)

\* send_cookies() for a host: a look at the index, then expired cookies go.
SendCookies ==
    /\ up
    /\ \E d \in domains :
          LET old == {c \in jar : val[c].domain = d /\ Expired(val[c])}
          IN  old # {} /\ Delete(old) /\ SetCookiesDirty
    /\ UNCHANGED <<queries, asked, boxes, domains, file, faults, now, up, ends>>
    /\ Stored(val)

\* The cookie manager deletes a cookie, or the folder of a server.
DeleteCookieItem ==
    /\ up
    /\ \/ \E c \in jar : Delete({c})
       \/ \E s \in Servers : LET cs == {c \in jar : val[c].server = s}
                             IN  cs # {} /\ Delete(cs)
    /\ SetCookiesDirty
    /\ UNCHANGED <<queries, asked, boxes, domains, file, faults, now, up, ends>>
    /\ Stored(val)

\* ok_dialog() calls the handlers of the fields, for a cookie that is still in
\* the list: the dialog keeps a bare pointer, and what it does to a cookie that
\* went away under it is not modelled.
EditCookie ==
    /\ up
    /\ \E c \in jar :
          \/ /\ "expires" \in Edits
             /\ \E e \in Expires : val' = [val EXCEPT ![c].expires = e]
          \/ /\ "domain" \in Edits
             /\ \E d \in Domains : val' = [val EXCEPT ![c].domain = d]
    /\ SetCookiesDirty
    /\ UNCHANGED <<jar, queries, asked, boxes, locks, domains, file, faults, now, up, ends>>

-----------------------------------------------------------------------------
\* Saving and loading

\* mutant: the flag is cleared whatever secure_close() returns
SaveCleans ==
    /\ dirty' = FALSE /\ failed' = FALSE
    /\ \/ file' = {val[c] : c \in {c \in jar : Kept(val[c])}} /\ UNCHANGED faults
       \/ faults < MaxFaults /\ faults' = faults + 1 /\ UNCHANGED file

\* save_cookies(): the file is replaced, or stays as it is and so does dirty.
Save ==
    \/ /\ file' = {val[c] : c \in {c \in jar : Kept(val[c])}}
       /\ dirty' = FALSE /\ failed' = FALSE /\ UNCHANGED faults
    \/ /\ faults < MaxFaults /\ faults' = faults + 1
       /\ failed' = TRUE /\ UNCHANGED <<file, dirty>>

\* The button of the cookie manager saves whether anything changed or not.
PushSaveButton ==
    /\ up
    /\ Save
    /\ UNCHANGED <<cookieVars, half, now, up, ends>>

ResaveBottomHalf ==
    /\ up /\ half
    /\ half' = FALSE
    /\ IF dirty THEN Save ELSE UNCHANGED <<dirty, failed, file, faults>>
    /\ UNCHANGED <<cookieVars, now, up, ends>>

NoLine == [name |-> "", domain |-> "", server |-> "", expires |-> 0]
Reads(f, lines) == \A v \in lines : \E c \in DOMAIN f : f[c] = v /\ \A d \in DOMAIN f \ {c} : f[d] # v

\* load_cookies(): done_cookies() without saving, then every line of the file;
\* those that expired are dropped, and either way the list counts as changed.
\* Queries are freed, not what a message box holds.
LoadCookies ==
    LET lines == {v \in file : Kept(v)}
        room == Cookie \ boxes
    IN  /\ Cardinality(lines) <= Cardinality(room)
        /\ LET line == CHOOSE f \in [room -> lines \cup {NoLine}] : Reads(f, lines)
           IN  /\ jar' = {c \in room : line[c] # NoLine}
               /\ val' = [c \in jar' \cup boxes |-> IF c \in boxes THEN val[c] ELSE line[c]]
        /\ locks' = [s \in Servers |-> Cardinality({c \in boxes : val[c].server = s})
                                       + Cardinality({v \in lines : v.server = s})]
        /\ domains' = {v.domain : v \in lines}
        /\ queries' = <<>>
        /\ dirty' = (file # {})
        /\ half' = (half \/ file # {})
        /\ failed' = (failed /\ file = {})
        /\ UNCHANGED <<boxes, file, faults>>

\* ACT_MAIN_COOKIES_LOAD
Reload ==
    /\ up
    /\ LoadCookies
    /\ UNCHANGED <<asked, now, up, ends>>

\* The end of the process, of which only the file remains.
Gone ==
    /\ up' = FALSE
    /\ jar' = {} /\ queries' = <<>> /\ asked' = 0 /\ boxes' = {}
    /\ locks' = [s \in Servers |-> 0]
    /\ domains' = {} /\ half' = FALSE /\ val' = <<>>
    /\ UNCHANGED now

\* done_cookies() saves what is dirty before it frees everything.
Quit ==
    /\ up /\ ends < MaxEnds
    /\ ends' = ends + 1
    /\ IF dirty THEN Save ELSE UNCHANGED <<dirty, failed, file, faults>>
    /\ Gone

Killed ==
    /\ up /\ ends < MaxEnds
    /\ ends' = ends + 1
    /\ Gone
    /\ UNCHANGED <<dirty, failed, file, faults>>

\* init_cookies()
Start ==
    /\ ~up
    /\ up' = TRUE
    /\ LoadCookies
    /\ UNCHANGED <<asked, now, ends>>

Tick ==
    /\ now < MaxTime
    /\ now' = now + 1
    /\ UNCHANGED <<cookieVars, saveVars, up, ends>>

Next ==
    \/ SetCookie \/ QueryCookie \/ AcceptCookieDialog \/ AcceptInBox \/ RejectInBox
    \/ SendCookies \/ DeleteCookieItem \/ EditCookie
    \/ PushSaveButton \/ ResaveBottomHalf \/ Reload \/ Quit \/ Killed \/ Start \/ Tick

\* check_bottom_halves() runs before the loop waits again.
Spec == Init /\ [][Next]_vars /\ WF_vars(ResaveBottomHalf)

-----------------------------------------------------------------------------
\* Properties

\* As long as cookies_dirty is 0, the file holds the cookies of the list that
\* have to survive: every function that changes the list, by whatever way a
\* cookie comes or goes, says so, and a failed save is not forgotten.
CleanMeansSaved ==
    up /\ ~dirty => {v \in file : Kept(v)} = {val[c] : c \in {c \in jar : Kept(val[c])}}

\* A server is in its list with one lock per cookie that points to it, be it
\* in the list, waiting in cookie_queries or held by a message box: it is not
\* freed under any of them and is freed with the last.
ServersCounted ==
    /\ TypeOK
    /\ \A s \in Servers : locks[s] = Cardinality({c \in InUse : val[c].server = s})

\* send_cookies() finds every cookie through c_domains, the "list of domains
\* for which there may be cookies".
DomainsCoverCookies == \A c \in jar : val[c].domain \in domains

\* A change is saved, or saving fails, or the program ends: the bottom half
\* is registered by every change, also one after a save that failed.
ChangesSaved == up /\ dirty ~> ~dirty \/ failed \/ ~up
=============================================================================
