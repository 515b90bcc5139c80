------------------------------- MODULE Policy -------------------------------
(***************************************************************************)
(* The decisions of the policy engine (policy/index.ts) on one intercepted *)
(* request, and the rules they consult: the consumer's allowlist, the      *)
(* origination boundary, the egress filter.  A host is the sequence of its *)
(* labels, after the case and the trailing dot are folded; an IP address   *)
(* is a host of one label.  A path is the word a deny pattern looks for,   *)
(* how many times it is percent-encoded, and whether matrix parameters     *)
(* follow it.                                                              *)
(***************************************************************************)
EXTENDS Naturals, Sequences

CONSTANTS
    AllowRule,       \* the consumer's allowlist: [kind, host]
    DenyHost,        \* hosts of the origination boundary
    DenyWord,        \* path words of the origination boundary
    PrivateAddress,  \* IP addresses in a private, loopback or link-local range
    ProbeHost        \* hosts a diagnostics probe may reach

endsWith(host, suffix) ==
    /\ Len(suffix) <= Len(host)
    /\ SubSeq(host, Len(host) - Len(suffix) + 1, Len(host)) = suffix

hostMatchesAnySuffix(host, suffixes) == \E s \in suffixes : endsWith(host, s)

\* The last label decides for a name below a private zone.
isBlockedEgressHost(host) ==
    /\ host # <<>>
    /\ \/ endsWith(host, <<"localhost">>)
       \/ host \in {<<"metadata">>, <<"metadata", "goog">>}
       \/ Len(host) > 1 /\ hostMatchesAnySuffix(host, {<<"internal">>, <<"local">>})
       \/ host \in {<<a>> : a \in PrivateAddress}

\* normalizeHost: a leading www. makes no difference to an exact rule.
normalizeHost(host) == IF Len(host) > 1 /\ host[1] = "www" THEN Tail(host) ELSE host

allows(host) ==
    /\ host # <<>>
    /\ \E r \in AllowRule :
          \/ r.kind = "all"
          \/ r.kind = "exact" /\ normalizeHost(r.host) = normalizeHost(host)
          \/ r.kind = "suffix" /\ endsWith(host, r.host)

\* The path as it stands and decoded up to three times, each also as a
\* server sees it that drops matrix parameters.
pathCandidates(p) ==
    {[word |-> p.word, depth |-> d, params |-> q] :
        d \in (IF p.depth > 3 THEN p.depth - 3 ELSE 0)..p.depth, q \in {p.params, FALSE}}

originationDenies(a) ==
    \/ a.host \in DenyHost
    \/ \E p \in pathCandidates(a.path) : p.word \in DenyWord /\ p.depth = 0 /\ ~p.params

(***************************************************************************)
(* The guards.  Each answers "allow" or the reason it blocks; nav tells a  *)
(* document from a subresource.                                            *)
(***************************************************************************)
guardFor(a, nav) ==
    IF ~a.http THEN "scheme"
    ELSE IF isBlockedEgressHost(a.host) THEN "egress"
    ELSE IF nav /\ originationDenies(a) THEN "origination"
    ELSE IF ~allows(a.host) THEN "allowlist" ELSE "allow"

\* Fault: a warm session may navigate wherever its consumer may.
AllowlistOnly(a, nav, owner) ==
    IF ~a.http THEN "scheme"
    ELSE IF isBlockedEgressHost(a.host) THEN "egress"
    ELSE IF nav /\ originationDenies(a) THEN "origination"
    ELSE IF ~allows(a.host) THEN "allowlist" ELSE "allow"

guardForCredentialHost(a, nav, owner) ==
    IF ~a.http THEN "scheme"
    ELSE IF isBlockedEgressHost(a.host) THEN "egress"
    ELSE IF nav /\ originationDenies(a) THEN "origination"
    ELSE IF nav /\ ~(a.host = owner /\ allows(a.host)) THEN "credential-scope"
    ELSE IF ~allows(a.host) THEN "allowlist" ELSE "allow"

guardForDiagnostics(a) ==
    IF ~a.http THEN "scheme"
    ELSE IF isBlockedEgressHost(a.host) THEN "egress"
    ELSE IF a.host \notin ProbeHost THEN "probe-scope" ELSE "allow"
=============================================================================
