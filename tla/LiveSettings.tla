----------------------------- MODULE LiveSettings -----------------------------
(* Settings that are stored as one document each, changed by reading it,      *)
(* editing it and writing it back, and then put in force: the resolver        *)
(* settings (api.go, categories.go, config.go), the control plane's settings  *)
(* (cpsettings.go, metricsexport.go), the exporter's, the pause of blocking   *)
(* (lists.go) and the audit log they share.                                   *)
(*                                                                            *)
(* Nothing but the database locks a document, so two requests interleave at   *)
(* every read and write.  Each field has two values; what a field means and   *)
(* how it is validated is left out.                                           *)
EXTENDS Integers, Sequences

CONSTANTS
  Saves,     \* HTTP requests, each sent once (or, instead of one, a restart)
  AuditMax   \* entries the audit log keeps (200)

ASSUME LiveSettingsConstants == AuditMax \in Nat \ {0}

Bit == {0, 1}
\* 0 is what a field is without a stored document.
Document ==
  [settings |-> [privacy : Bit, blocked : Bit],
   cp       |-> [token : Bit, ttl : Bit, addr : Bit],
   export   |-> [password : Bit],
   pause    |-> [until : Bit]]
Docs  == DOMAIN Document
Blank == [settings |-> [privacy |-> 0, blocked |-> 0], cp |-> [token |-> 0, ttl |-> 0, addr |-> 0],
          export |-> [password |-> 0], pause |-> [until |-> 0]]

VARIABLES
  stored,   \* the documents in the database
  live,     \* what was last put in force of each
  mirror,   \* app_meta master_advertise_addr
  audit,    \* the audit log, oldest first
  saves,    \* what every request does: its document, fields and next step
  appended, \* history: the changes in the order they were logged
  excuses   \* history: documents whose saves overlapped or failed half way

lsVars == <<stored, live, mirror, audit, saves, appended, excuses>>

\* sent: the fields it sets; moved: the document was written since it was read;
\* blind: that read failed; log: the audit log as it read it.
Idle == [at |-> "idle", op |-> "none", doc |-> "pause", val |-> Blank["pause"], sent |-> {},
         moved |-> FALSE, blind |-> FALSE, log |-> <<>>]

LsInit ==
  /\ \E p \in Bit : stored = [Blank EXCEPT !.settings.privacy = p]
  /\ live = stored
  /\ mirror = 0 /\ audit = <<>> /\ appended = <<>> /\ excuses = {}
  /\ saves = [c \in Saves |-> Idle]

Been(c)     == saves' = [saves EXCEPT ![c] = [Idle EXCEPT !.at = "done"]]
Moves(c, s) == saves' = [saves EXCEPT ![c] = IF s = "log" THEN [Idle EXCEPT !.at = "log"] ELSE [@ EXCEPT !.at = s]]

\* A request arrives, reads document d and edits the fields it was sent.
Edits(c, op, d, sent, old, blind) ==
  /\ saves[c].at = "idle"
  /\ \E new \in Document[d] :
       saves' = [saves EXCEPT ![c] = [Idle EXCEPT !.at = "save", !.op = op, !.doc = d, !.sent = sent, !.blind = blind,
                                       !.val = [f \in DOMAIN new |-> IF f \in sent THEN new[f] ELSE old[f]]]]
  /\ UNCHANGED <<stored, live, mirror, audit, appended, excuses>>

\* Changed: what was not sent is not carried over.
PutAsSent(c) ==
  \E sent \in SUBSET {"privacy", "blocked"} : Edits(c, "put", "settings", sent, Blank["settings"], FALSE)

\* What a save does not mention is read from the stored settings; if that
\* fails it is what the body left it, nothing.
putSettings(c) ==
  \E sent \in SUBSET {"privacy", "blocked"}, blind \in BOOLEAN :
    Edits(c, "put", "settings", sent, IF blind THEN Blank["settings"] ELSE stored["settings"], blind)

putBlockedCategories(c) == Edits(c, "categories", "settings", {"blocked"}, stored["settings"], FALSE)

\* The last part of importConfig brings all settings.
importSettings(c) == Edits(c, "import", "settings", {"privacy", "blocked"}, stored["settings"], FALSE)

\* LoadCPSettings: the defaults if the document cannot be read.
LoadCPSettings(blind) == IF blind THEN Blank["cp"] ELSE stored["cp"]

putCPSettings(c) == \E blind \in BOOLEAN : Edits(c, "cp", "cp", {"ttl", "addr"}, LoadCPSettings(blind), blind)

generateMetricsToken(c) ==
  \E blind \in BOOLEAN :
    Edits(c, "token", "cp", {"token"}, LoadCPSettings(blind), blind) /\ saves'[c].val.token = 1

clearMetricsToken(c) ==
  /\ stored["cp"].token = 1
  /\ Edits(c, "token", "cp", {"token"}, stored["cp"], FALSE) /\ saves'[c].val.token = 0

\* An empty password keeps the stored one.
putMetricsExport(c) ==
  \E sent \in SUBSET {"password"}, blind \in BOOLEAN :
    Edits(c, "export", "export", sent, IF blind THEN Blank["export"] ELSE stored["export"], blind)

disableProtection(c) == Edits(c, "pause", "pause", {"until"}, stored["pause"], FALSE) /\ saves'[c].val.until = 1
enableProtection(c)  == Edits(c, "pause", "pause", {"until"}, stored["pause"], FALSE) /\ saves'[c].val.until = 0

\* A category override is a row of its own; only its audit entry is shared.
putCategoryOverride(c) ==
  /\ saves[c].at = "idle"
  /\ Moves(c, "log")
  /\ UNCHANGED <<stored, live, mirror, audit, appended, excuses>>

Saved(j) == CASE j.doc = "export" -> [Idle EXCEPT !.at = "done"]
              [] j.doc = "cp"     -> [j EXCEPT !.at = "mirror", !.sent = {}, !.moved = FALSE, !.blind = FALSE]
              [] OTHER            -> [j EXCEPT !.at = "apply", !.sent = {}, !.moved = FALSE, !.blind = FALSE]

\* The whole document is written, whatever is stored now.  Overlap: the same
\* document was written since it was read, or is yet to be put in force; a
\* document written back without being read (the defaults of LoadCPSettings)
\* counts as one.
SaveDoc(c) ==
  /\ saves[c].at = "save"
  /\ LET d == saves[c].doc
         overlaps == \/ saves[c].moved
                     \/ d = "cp" /\ saves[c].blind
                     \/ \E e \in Saves \ {c} : saves[e].doc = d /\ saves[e].at \in {"mirror", "apply"}
     IN /\ stored' = [stored EXCEPT ![d] = saves[c].val]
        /\ excuses' = IF overlaps THEN excuses \cup {d} ELSE excuses
        /\ saves' = [e \in Saves |-> IF e = c THEN Saved(saves[c])
                                     ELSE [saves[e] EXCEPT !.moved = @ \/ (saves[e].doc = d /\ saves[e].at = "save")]]
  /\ UNCHANGED <<live, mirror, audit, appended>>

SaveFails(c) ==
  /\ saves[c].at = "save" /\ Been(c)
  /\ UNCHANGED <<stored, live, mirror, audit, appended, excuses>>

\* SaveCPSettings then copies the address to where enrollment reads it; if that
\* fails, nothing is put in force.
SetMasterAdvertiseAddr(c) ==
  /\ saves[c].at = "mirror"
  /\ \/ /\ mirror' = saves[c].val.addr /\ UNCHANGED excuses
        /\ Moves(c, IF saves[c].op = "cp" THEN "apply" ELSE "log")
     \/ UNCHANGED mirror /\ excuses' = excuses \cup {"cp", "mirror"} /\ Been(c)
  /\ UNCHANGED <<stored, live, audit, appended>>

\* Changed: a running resolver keeps its settings.
ApplyNothing(c) ==
  /\ saves[c].at = "apply"
  /\ IF saves[c].op \in {"cp", "categories"} THEN Moves(c, "log") ELSE Been(c)
  /\ UNCHANGED <<stored, live, mirror, audit, appended, excuses>>

\* What was saved is put in force: ApplySettings, applyCPSettings,
\* SetBlockPausedUntil.  A new sign-in provider that cannot be reached ends
\* putCPSettings before its audit entry.
ApplyDoc(c) ==
  /\ saves[c].at = "apply"
  /\ live' = [live EXCEPT ![saves[c].doc] = saves[c].val]
  /\ \/ saves[c].op \in {"cp", "categories"} /\ Moves(c, "log")
     \/ saves[c].op # "categories" /\ Been(c)
  /\ UNCHANGED <<stored, mirror, audit, appended, excuses>>

\* AppendAudit reads the log, a failing read as an empty one ...
ListAudit(c) ==
  /\ saves[c].at = "log"
  /\ \E blind \in BOOLEAN :
       saves' = [saves EXCEPT ![c].at = "append", ![c].log = IF blind THEN <<>> ELSE audit, ![c].blind = blind, ![c].moved = FALSE]
  /\ UNCHANGED <<stored, live, mirror, audit, appended, excuses>>

Logged(c, entries) ==
  /\ saves[c].at = "append"
  /\ audit' = entries
  /\ appended' = Append(appended, c)
  /\ excuses' = IF saves[c].moved \/ saves[c].blind THEN excuses \cup {"audit"} ELSE excuses
  /\ saves' = [e \in Saves |-> IF e = c THEN [Idle EXCEPT !.at = "done"]
                                ELSE [saves[e] EXCEPT !.moved = @ \/ saves[e].at = "append"]]
  /\ UNCHANGED <<stored, live, mirror>>

Newest(log) == SubSeq(log, 1 + (IF Len(log) > AuditMax THEN Len(log) - AuditMax ELSE 0), Len(log))

\* ... and writes its newest entries back with the new one.
AppendAudit(c) == Logged(c, Newest(Append(saves[c].log, c)))

\* The control plane dies and starts again: what is stored is put in force
\* (LoadOrSeedSettings, ApplyCPSettings); the copied address stays as it is.
Restart(c) ==
  /\ saves[c].at = "idle"
  /\ saves' = [e \in Saves |-> IF e # c /\ saves[e].at = "idle" THEN Idle ELSE [Idle EXCEPT !.at = "done"]]
  /\ live' = stored
  /\ excuses' = (excuses \cap {"mirror", "audit"}) \cup (IF \E e \in Saves : saves[e].at = "mirror" THEN {"mirror"} ELSE {})
                  \cup (IF "cp" \in excuses THEN {"mirror"} ELSE {})
  /\ UNCHANGED <<stored, mirror, audit, appended>>

Arrive(c) ==
  \/ putSettings(c) \/ putBlockedCategories(c) \/ importSettings(c) \/ putCPSettings(c)
  \/ generateMetricsToken(c) \/ clearMetricsToken(c) \/ putMetricsExport(c)
  \/ disableProtection(c) \/ enableProtection(c) \/ putCategoryOverride(c) \/ Restart(c)

LsNext ==
  \E c \in Saves :
    \/ Arrive(c) \/ SaveDoc(c) \/ SaveFails(c) \/ SetMasterAdvertiseAddr(c) \/ ApplyDoc(c)
    \/ ListAudit(c) \/ AppendAudit(c)

LsSpec == LsInit /\ [][LsNext]_lsVars

-----------------------------------------------------------------------------
\* Documents have their fields, and the audit log its bound.
LsTypeOK ==
  /\ \A d \in Docs : stored[d] \in Document[d] /\ live[d] \in Document[d]
  /\ mirror \in Bit /\ audit \in Seq(Saves) /\ Len(audit) <= AuditMax
  /\ \A c \in Saves : saves[c].val \in Document[saves[c].doc] /\ saves[c].sent \subseteq DOMAIN saves[c].val

\* Between the write of document d and what follows it.
Settling(d) == \E c \in Saves : saves[c].doc = d /\ saves[c].at \in {"mirror", "apply"}

\* putSettings, putBlockedCategories, importConfig, putCPSettings and the pause
\* handlers: what runs is what is stored, so a restart changes nothing, unless
\* two saves of one document overlapped.
LiveIsStored ==
  /\ \A d \in {"settings", "pause"} : d \in excuses \/ Settling(d) \/ live[d] = stored[d]
  /\ "cp" \in excuses \/ Settling("cp") \/ live["cp"].ttl = stored["cp"].ttl

\* SaveCPSettings: enrollment is given the stored address, unless a copy
\* failed, was cut off by a crash, or overlapped another.
MirrorInStep == {"cp", "mirror"} \cap excuses # {} \/ Settling("cp") \/ mirror = stored["cp"].addr

\* A save leaves what it does not mention as it is (the privacy level, the
\* scrape token, a password), however many requests are under way, unless the
\* document was written since it was read, or the read failed.
UnmentionedStays ==
  [][\A c \in Saves : SaveDoc(c) /\ ~saves[c].moved /\ ~saves[c].blind =>
       LET d == saves[c].doc IN \A f \in DOMAIN stored[d] \ saves[c].sent : stored'[d][f] = stored[d][f]]_lsVars

\* The audit log is the newest entries, in order, of all changes that were
\* logged, unless two appends overlapped or the log could not be read.
AuditComplete == "audit" \in excuses \/ audit = Newest(appended)

\* The parts above: what runs and what enrollment is given is what is stored,
\* and the audit log is the newest entries.
SettingsInv == LsTypeOK /\ LiveIsStored /\ MirrorInStep /\ AuditComplete
===============================================================================
