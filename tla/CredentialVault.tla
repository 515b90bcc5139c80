-------------------------- MODULE CredentialVault --------------------------
(***************************************************************************)
(* The credential vault: the encrypted entries of security/vault-store.ts, *)
(* the on-host commands of cli/vault-host.ts that write them (import,      *)
(* revoke and the assisted login of mcp/gateway-login-runner.ts and        *)
(* verbs/assisted-login.ts), the offline rotation of the master key, and   *)
(* the gateway that boots on the vault and opens warm sessions from it     *)
(* (mcp/vault-login.ts).  Host commands run beside the gateway in its      *)
(* container and may be killed between any two steps; the container may    *)
(* stop at any time and be started again with other proxy settings.        *)
(* Encryption is abstract: a record opens under the key that sealed it.    *)
(***************************************************************************)
EXTENDS Integers, FiniteSets

CONSTANTS
    Slot,          \* (consumer, host) pairs an entry can be stored for
    Cmd,           \* bound: the host commands an operator runs, each once
    Posture,       \* proxy settings a container is started with
    OpenAttempts   \* PROXY_OPEN_ATTEMPTS: exits a capture may try

ASSUME VaultAssumption ==
    /\ OpenAttempts \in Nat \ {0}
    /\ Posture \subseteq [proxy : {"none", "open", "password"}, onDatacenterIp : BOOLEAN,
                          suffix : BOOLEAN, forced : BOOLEAN, freshExit : BOOLEAN]

VARIABLES
    file,      \* the entry of each slot: a sealed record, NoFile if there is none
    temp,      \* keys of the temporaries interrupted writes left behind
    stray,     \* keys of *.vault.json files an operator copied to another name
    keyFile,   \* the key BGW_VAULT_KEY_FILE holds, "none" when there is no such file
    posture,   \* the container's proxy settings
    gw,        \* the container: its gateway is up, and the key it loaded
    cmd,       \* per host command: where it stands
    rot,       \* the rotation: where it stands and what is left to write
    kept       \* history: the login each slot should hold, None if revoked or never stored

vaultVars == <<file, temp, stray, keyFile, posture, gw, cmd, rot, kept>>

NoFile == [none |-> TRUE]
None == "none"
Key == {"old", "new"}
\* Exits: none chosen, the container's own, an unpinned one, a fresh one, and
\* pinned ones <<command, attempt>>.
NoExit == <<>>
Rotating == <<"rotating">>
Fresh == <<"fresh">>

sealJson(value, key) == [key |-> key, value |-> value]
opens(record, key) == record.key = key

(***************************************************************************)
(* Exits.  A sticky exit id pins an exit only through the proxy password.  *)
(***************************************************************************)
proxyConfigured(p) == p.proxy # "none" /\ p.onDatacenterIp
canPin(p) == proxyConfigured(p) /\ p.suffix
\* The exit a proxied session really leaves from.
mintStickyProxy(p, id) == IF p.suffix /\ p.proxy = "password" THEN id ELSE Rotating
verifiedHeldExit(p, id) ==
    IF p.onDatacenterIp /\ p.suffix /\ p.proxy = "password" THEN id ELSE NoExit

(***************************************************************************)
(* Boot: openVault refuses entries without a key and dormant otherwise.    *)
(***************************************************************************)
Entries == {s \in Slot : file[s] # NoFile}
vaultKeyBootError == (Entries # {} \/ stray # {}) /\ keyFile = None

IdleCmd == [pc |-> "idle", op |-> None, slot |-> None, attempt |-> 0, open |-> NoExit,
            value |-> NoFile, kek |-> None]

IdleRotation == [pc |-> "idle", left |-> {}, at |-> None]

VaultInit ==
    /\ file = [s \in Slot |-> NoFile] /\ temp = {} /\ stray = {}
    /\ keyFile \in {"none", "old"} /\ posture \in Posture
    /\ gw = [up |-> FALSE, kek |-> None]
    /\ cmd = [c \in Cmd |-> IdleCmd]
    /\ rot = IdleRotation
    /\ kept = [s \in Slot |-> NoFile]

BootGateway ==
    /\ ~gw.up /\ rot.pc = "idle" /\ ~vaultKeyBootError
    /\ gw' = [up |-> TRUE, kek |-> keyFile]
    /\ UNCHANGED <<file, temp, stray, keyFile, posture, cmd, rot, kept>>

\* The container stops: every process in it dies where it stands.
StopContainer ==
    /\ gw.up
    /\ gw' = [up |-> FALSE, kek |-> None]
    /\ temp' = temp \cup {cmd[c].kek : c \in {d \in Cmd : cmd[d].pc = "rename"}}
    /\ cmd' = [c \in Cmd |-> IF cmd[c].pc = "idle" THEN cmd[c] ELSE [IdleCmd EXCEPT !.pc = "over"]]
    /\ UNCHANGED <<file, stray, keyFile, posture, rot, kept>>

\* External: what an operator does to a stopped gateway's settings and files.
Reconfigure(p) ==
    /\ ~gw.up /\ rot.pc = "idle"
    /\ posture' = p
    /\ UNCHANGED <<file, temp, stray, keyFile, gw, cmd, rot, kept>>
InstallKey ==
    /\ keyFile = None /\ ~gw.up
    /\ keyFile' = "old"
    /\ UNCHANGED <<file, temp, stray, posture, gw, cmd, rot, kept>>
CopyAside(s) ==
    /\ file[s] # NoFile /\ stray = {} /\ rot.pc = "idle"
    /\ stray' = {file[s].key}
    /\ UNCHANGED <<file, temp, keyFile, posture, gw, cmd, rot, kept>>
Tidy ==
    /\ ~gw.up /\ rot.pc = "idle" /\ (temp # {} \/ stray # {})
    /\ temp' = {} /\ stray' = {}
    /\ UNCHANGED <<file, keyFile, posture, gw, cmd, rot, kept>>

(***************************************************************************)
(* Host commands.                                                          *)
(***************************************************************************)
\* The command is over; what it opened is closed on the way out.
End(c) == cmd' = [cmd EXCEPT ![c] = [IdleCmd EXCEPT !.pc = "over"]]
Goes(c, pc) == cmd' = [cmd EXCEPT ![c].pc = pc]

\* Every command runs in the container; arguments, payload, manifest and seed
\* are checked before anything happens, and the vault must open.
Begins(c, op, s, pc, value) ==
    /\ gw.up /\ cmd[c].pc = "idle" /\ keyFile # None
    /\ cmd' = [cmd EXCEPT ![c] = [IdleCmd EXCEPT !.op = op, !.slot = s, !.kek = keyFile,
                                                 !.pc = pc, !.value = value]]
    /\ UNCHANGED <<file, temp, stray, keyFile, posture, gw, rot, kept>>

\* A session the operator brings, with the exit he says it is bound to.
importLoginToVault(exit) == [via |-> exit, exit |-> exit]
StartImport(c, s) ==
    \E exit \in {NoExit, <<c, 0>>} : Begins(c, "import", s, "put", importLoginToVault(exit))
StartRevoke(c, s) == Begins(c, "revoke", s, "remove", NoFile)
\* login builds the whole runtime, and is refused where it must use a proxy
\* that cannot pin.
StartLogin(c, s) ==
    /\ posture.forced => canPin(posture)
    /\ Begins(c, "login", s, IF posture.forced THEN "pinned" ELSE "direct", NoFile)

Remove(c) ==
    /\ cmd[c].pc = "remove"
    /\ file' = [file EXCEPT ![cmd[c].slot] = NoFile]
    /\ kept' = [kept EXCEPT ![cmd[c].slot] = NoFile]
    /\ End(c)
    /\ UNCHANGED <<temp, stray, keyFile, posture, gw, rot>>

\* The direct session: lands, is blocked in a way another exit may clear, or
\* fails (and the finally closes it).
TryDirect(c) ==
    /\ cmd[c].pc = "direct"
    /\ \/ End(c)
       \/ cmd' = [cmd EXCEPT ![c] = [@ EXCEPT !.pc = "login", !.open = <<"direct">>]]
       \/ canPin(posture) /\ Goes(c, "pinned")
    /\ UNCHANGED <<file, temp, stray, keyFile, posture, gw, rot, kept>>

\* One pinned attempt on a fresh id: promoted, closed and tried again, or
\* terminal.  The entry records the id, the session leaves from the exit.
TryPinned(c) ==
    /\ cmd[c].pc = "pinned"
    /\ LET next == cmd[c].attempt + 1
           exit == mintStickyProxy(posture, <<c, next>>)
       IN  \/ End(c)
           \/ /\ cmd[c].attempt < OpenAttempts
              /\ cmd' = [cmd EXCEPT ![c] =
                            [@ EXCEPT !.pc = "login", !.attempt = next, !.open = exit]]
           \/ /\ cmd[c].attempt < OpenAttempts
              /\ cmd' = [cmd EXCEPT ![c].attempt = next]
    /\ UNCHANGED <<file, temp, stray, keyFile, posture, gw, rot, kept>>

\* assistedLogin: fill the two fields when they render, submit, and wait for
\* the success condition or the second factor; without a seed, or with no
\* success in time, the login fails.  The session is closed either way, and
\* only a login that reached the authenticated page is stored.
AssistedLogin(c) ==
    /\ cmd[c].pc = "login"
    /\ \/ End(c)
       \/ Goes(c, "twofa")
       \/ Goes(c, "captured")
    /\ UNCHANGED <<file, temp, stray, keyFile, posture, gw, rot, kept>>
SecondFactor(c) ==
    /\ cmd[c].pc = "twofa"
    /\ End(c) \/ Goes(c, "captured")
    /\ UNCHANGED <<file, temp, stray, keyFile, posture, gw, rot, kept>>

\* captureLoginToVault: the entry records the id of the session that landed.
captureLoginToVault(c) ==
    IF cmd[c].open = <<"direct">> THEN [via |-> NoExit, exit |-> NoExit]
    ELSE [via |-> cmd[c].open, exit |-> <<c, cmd[c].attempt>>]

CloseCaptured(c) ==
    /\ cmd[c].pc = "captured"
    /\ cmd' = [cmd EXCEPT ![c] = [@ EXCEPT !.pc = "put", !.open = NoExit,
                                           !.value = captureLoginToVault(c)]]
    /\ UNCHANGED <<file, temp, stray, keyFile, posture, gw, rot, kept>>

\* put: a sealed temporary (at "rename"), then an atomic rename over the entry.
WriteTemp(c) ==
    /\ cmd[c].pc = "put"
    /\ Goes(c, "rename")
    /\ UNCHANGED <<file, temp, stray, keyFile, posture, gw, rot, kept>>

Rename(c) ==
    /\ cmd[c].pc = "rename"
    /\ file' = [file EXCEPT ![cmd[c].slot] = sealJson(cmd[c].value, cmd[c].kek)]
    /\ kept' = [kept EXCEPT ![cmd[c].slot] = cmd[c].value]
    /\ Goes(c, "verify")
    /\ UNCHANGED <<temp, stray, keyFile, posture, gw, rot>>

\* Fault: a verification that reads another entry back removes it.
VerifyCleansUp(c) ==
    /\ cmd[c].pc = "verify"
    /\ file' = IF file[cmd[c].slot] # NoFile /\ file[cmd[c].slot].value # cmd[c].value
               THEN [file EXCEPT ![cmd[c].slot] = NoFile] ELSE file
    /\ End(c)
    /\ UNCHANGED <<temp, stray, keyFile, posture, gw, rot, kept>>

\* freshDecryptVerify re-reads the entry with a fresh store; it reports, and
\* changes nothing.
Verify(c) ==
    /\ cmd[c].pc = "verify"
    /\ End(c)
    /\ UNCHANGED <<file, temp, stray, keyFile, posture, gw, rot, kept>>

\* The ssh session or the process is killed; its temporary stays behind.
KillCommand(c) ==
    /\ cmd[c].pc \notin {"idle", "over"}
    /\ temp' = temp \cup (IF cmd[c].pc = "rename" THEN {cmd[c].kek} ELSE {})
    /\ End(c)
    /\ UNCHANGED <<file, stray, keyFile, posture, gw, rot, kept>>

(***************************************************************************)
(* Rotation of the master key, with the gateway stopped.  Every file is    *)
(* read and decrypted, under the new key or else the old, before the first *)
(* is rewritten.                                                           *)
(***************************************************************************)
\* Fault: what interrupted writes left behind is not looked for.
IgnoresTemps == stray # {} \/ \E t \in Entries : ~\E k \in Key : opens(file[t], k)

rotationRefuses ==
    \/ temp # {} \/ stray # {}
    \/ \E t \in Entries : ~\E k \in Key : opens(file[t], k)

StartRotation ==
    /\ ~gw.up /\ rot.pc = "idle" /\ keyFile = "old" /\ ~rotationRefuses
    /\ rot' = [IdleRotation EXCEPT !.pc = "write", !.left = {<<s, file[s].value>> : s \in Entries}]
    /\ UNCHANGED <<file, temp, stray, keyFile, posture, gw, cmd, kept>>
RotateTemp(s) ==
    /\ rot.pc = "write" /\ \E e \in rot.left : e[1] = s
    /\ rot' = [rot EXCEPT !.pc = "rename", !.at = s]
    /\ UNCHANGED <<file, temp, stray, keyFile, posture, gw, cmd, kept>>
RotateRename ==
    /\ rot.pc = "rename"
    /\ \E e \in rot.left :
          /\ e[1] = rot.at
          /\ file' = [file EXCEPT ![rot.at] = sealJson(e[2], "new")]
          /\ rot' = [pc |-> "write", left |-> rot.left \ {e}, at |-> None]
    /\ UNCHANGED <<temp, stray, keyFile, posture, gw, cmd, kept>>
\* It returns, and the operator points the key file at the new key.
FinishRotation ==
    /\ rot.pc = "write" /\ rot.left = {}
    /\ rot' = IdleRotation /\ keyFile' = "new"
    /\ UNCHANGED <<file, temp, stray, posture, gw, cmd, kept>>
KillRotation ==
    /\ rot.pc # "idle"
    /\ temp' = temp \cup (IF rot.pc = "rename" THEN {"new"} ELSE {})
    /\ rot' = IdleRotation
    /\ UNCHANGED <<file, stray, keyFile, posture, gw, cmd, kept>>

(***************************************************************************)
(* buildWarmOverride: the entry's session, from the exit its login used or *)
(* from a fresh one where the host is configured so; anything else is      *)
(* refused.                                                                *)
(***************************************************************************)
\* Fault: an exit that cannot be pinned again falls back to the direct one.
FallsBackDirect(s) ==
    LET bound == file[s].value.exit
    IN  IF file[s] = NoFile \/ ~opens(file[s], gw.kek) THEN [refused |-> TRUE]
        ELSE [exit |-> IF bound = NoExit THEN NoExit ELSE verifiedHeldExit(posture, bound)]

buildWarmOverride(s) ==
    LET bound == file[s].value.exit
        exit == verifiedHeldExit(posture, IF posture.freshExit THEN Fresh ELSE bound)
    IN  IF file[s] = NoFile \/ ~opens(file[s], gw.kek) THEN [refused |-> TRUE]
        ELSE IF ~posture.freshExit /\ bound = NoExit THEN [exit |-> NoExit]
        ELSE IF exit = NoExit THEN [refused |-> TRUE] ELSE [exit |-> exit]

VaultNext ==
    \/ BootGateway \/ StopContainer \/ InstallKey \/ Tidy
    \/ StartRotation \/ RotateRename \/ FinishRotation \/ KillRotation
    \/ \E p \in Posture : Reconfigure(p)
    \/ \E s \in Slot : CopyAside(s) \/ RotateTemp(s)
    \/ \E c \in Cmd :
          \/ \E s \in Slot : StartImport(c, s) \/ StartRevoke(c, s) \/ StartLogin(c, s)
          \/ Remove(c) \/ TryDirect(c) \/ TryPinned(c) \/ AssistedLogin(c) \/ SecondFactor(c)
          \/ CloseCaptured(c) \/ WriteTemp(c) \/ Rename(c) \/ Verify(c) \/ KillCommand(c)

-----------------------------------------------------------------------------
(***************************************************************************)
(* Properties.                                                             *)
(***************************************************************************)

(* No crash, race or interrupted rotation loses or resurrects a login      *)
(* (vault-store.ts:176-224, 286-366): every slot holds exactly the last    *)
(* login published for it and not revoked since, sealed under the key in   *)
(* use, or under one of the two keys of a rotation still to be finished.   *)
EntriesSurvive ==
    \A s \in Slot :
        /\ kept[s] = NoFile => file[s] = NoFile
        /\ kept[s] # NoFile =>
              /\ file[s] # NoFile /\ file[s].value = kept[s]
              /\ keyFile = "new" => file[s].key = "new"
              /\ rot.pc # "idle" /\ (\A e \in rot.left : e[1] # s) => file[s].key = "new"

(* Once a rotation has returned, nothing in the vault directory is sealed  *)
(* under the old key (vault-store.ts:256-284): no entry, no copy, and no   *)
(* temporary of a write that was interrupted before it.                    *)
OldKeyGone ==
    keyFile = "new" => /\ \A s \in Entries : file[s].key = "new"
                       /\ "old" \notin temp \cup stray

(* A warm session leaves from the exit its login was captured on           *)
(* (vault-login.ts:215-287): direct for a direct login, the same pinned    *)
(* exit for a pinned one, whatever the proxy settings became meanwhile;    *)
(* except for hosts configured for a fresh exit, and for a login captured  *)
(* through a proxy without a password, which pins nothing.                 *)
WarmFromLoginExit ==
    \A s \in Slot :
        LET override == buildWarmOverride(s)
        IN  /\ gw.up /\ gw.kek # None /\ ~posture.freshExit
            /\ "exit" \in DOMAIN override /\ file[s].value.via # Rotating
            => override.exit = file[s].value.via
=============================================================================
