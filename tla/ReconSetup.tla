------------------------------ MODULE ReconSetup ------------------------------
(***************************************************************************)
(* The credentials of Recon: the flat file the sidecar writes, the keychain   *)
(* the host moves them to once, the setup wizard's form, the dashboard's two   *)
(* gates, which read one store each, and the launch that merges both stores.   *)
(*                                                                         *)
(* A save reads the file, writes a temporary file and renames it; saves of    *)
(* different keys run at the same time and share the temporary file.  The     *)
(* wizard's third step is left out: the second cannot be passed.              *)
(*                                                                         *)
(* The pages give credentials_save and launch_recon other argument names than *)
(* the commands have (CredentialForm.tsx:130, commands.rs:162;                *)
(* ReconDashboard.tsx:134, recon.rs:73), which the host rejects.  The model   *)
(* is of calls that name them as the commands do.                            *)
(***************************************************************************)
EXTENDS Naturals

CONSTANTS
    Fields,       \* CREDENTIAL_FIELDS and REQUIRED_CREDENTIAL_KEYS
    OtherKeys,    \* keys of CREDENTIAL_ALLOWLIST without a field
    Verifiable,   \* fields whose service is asked
    ReadyKeys,    \* fields the readiness matrix requires
    Blanks,       \* where the values that are saved have blanks around them
    MaxSaves, MaxStarts   \* bounds

ASSUME SetupAssumption ==
    /\ Verifiable \subseteq Fields /\ ReadyKeys \subseteq Fields /\ OtherKeys \cap Fields = {}
    /\ Blanks \subseteq SUBSET {"before", "after"}
    /\ {MaxSaves, MaxStarts} \subseteq Nat

(* A value and the blanks around it: value 1 was there before, save i brings *)
(* value i + 1.                                                              *)
NoValue == [of |-> 0, blanks |-> {}]
Values == [of : 1..(MaxSaves + 1), blanks : SUBSET {"before", "after"}]
Empty == [k \in Fields |-> NoValue]
SetIn(store) == {k \in Fields : store[k] # NoValue}
Slots == {1, 2}               \* saves under way

VARIABLES
    keychain,   \* keychain[k]: the entry of key k
    file,       \* file[k]: its line in credentials.env; no lines, no file
    tmp,        \* credentials.env.tmp
    save,       \* save[c]: a credentials.save under way
    saved,      \* history: the value of k that was saved last, if no other save overlapped
    saves,      \* number of saves so far
    starts,     \* number of starts of the desktop so far
    shown,      \* the page
    claude,     \* the wizard's first step is passed
    form,       \* the wizard's second step: the calls its form waits for, and whether it is passed
    listed,     \* keys that useReconSetup found set
    canLaunch,  \* the readiness matrix found nothing blocking
    launched    \* history: keys a launch gave another value than the one saved last, trimmed

stores == <<keychain, file, tmp>>
pages == <<shown, claude, form, listed, canLaunch>>
setupVars == <<stores, save, saved, saves, starts, pages, launched>>

NoSave == [at |-> "none", key |-> "", value |-> NoValue, map |-> Empty, clash |-> FALSE,
           mine |-> TRUE]
NewForm == [saving |-> {}, verifying |-> FALSE, passed |-> FALSE]

SetupInit ==
    /\ keychain = Empty /\ tmp = Empty
    /\ file \in [Fields -> {NoValue} \cup {[of |-> 1, blanks |-> b] : b \in Blanks}]
    /\ save = [c \in Slots |-> NoSave]
    /\ saved = file /\ saves = 0 /\ starts = 0
    /\ shown = "off" /\ claude = FALSE /\ listed = {} /\ canLaunch = FALSE
    /\ form = NewForm
    /\ launched = {}

-----------------------------------------------------------------------------
(* The host trims the values it reads; the sidecar trims the lines, and so the  *)
(* ends of the values, although its comment says that it keeps them.          *)

Trimmed(v) == [v EXCEPT !.blanks = {}]
LineTrimmed(v) == [v EXCEPT !.blanks = @ \ {"after"}]

-----------------------------------------------------------------------------
(* The host. *)

ListStoredKeys == SetIn(keychain)

(* store_credential of each of the keys. *)
StoredOf(keys) == [k \in Fields |-> IF k \in keys THEN Trimmed(file[k]) ELSE keychain[k]]

(* migrate_from_flat_file, in the host's setup and so before any page's call: *)
(* a keychain that gives nothing counts as empty, and the file goes only when *)
(* every key of it was stored.                                               *)
Migrate ==
    \/ SetIn(file) = {} /\ UNCHANGED <<keychain, file>>
    \/ ListStoredKeys # {} /\ UNCHANGED <<keychain, file>>
    \/ /\ SetIn(file) # {}
       /\ \E stored \in SUBSET SetIn(file) :
             /\ keychain' = StoredOf(stored)
             /\ file' \in {file} \cup {Empty : s \in {stored} \cap {SetIn(file)}}

StartDesktop ==
    /\ shown = "off" /\ starts < MaxStarts /\ starts' = starts + 1
    /\ Migrate
    /\ shown' = "away"
    /\ UNCHANGED <<tmp, save, saved, saves, claude, form, listed, canLaunch, launched>>

(* Saves that are under way end with the sidecar. *)
QuitDesktop ==
    /\ shown # "off" /\ shown' = "off"
    /\ save' = [c \in Slots |-> NoSave]
    /\ claude' = FALSE /\ canLaunch' = FALSE /\ listed' = {}
    /\ form' = NewForm
    /\ UNCHANGED <<stores, saved, saves, starts, launched>>

-----------------------------------------------------------------------------
(* credentials.save: handleSave in the form, and the sidecar's steps.  The     *)
(* form passes key and value where the host's command wants one argument       *)
(* params; calls are taken to arrive, and one that is refused is SaveFails.    *)

SaveAt(c, step) == save' = [save EXCEPT ![c].at = step]

HandleSave(k, c) ==
    /\ shown = "credentials" /\ k \notin form.saving
    /\ save[c] = NoSave /\ \A d \in Slots : d < c => save[d] # NoSave
    /\ saves < MaxSaves /\ saves' = saves + 1
    /\ LET clash == \E d \in Slots : save[d] # NoSave
       IN  \E b \in Blanks :
           save' = [d \in Slots |->
                      IF d = c
                      THEN [NoSave EXCEPT !.at = "read", !.key = k, !.value = [of |-> saves + 2, blanks |-> b],
                                          !.clash = clash]
                      ELSE IF save[d] = NoSave THEN NoSave ELSE [save[d] EXCEPT !.clash = TRUE]]
    /\ saved' = [saved EXCEPT ![k] = NoValue]
    /\ form' = [form EXCEPT !.saving = @ \cup {k}]
    /\ UNCHANGED <<stores, starts, shown, claude, listed, canLaunch, launched>>

(* The other lines of the file are written as they were read. *)
SaveReads(c) ==
    /\ save[c].at = "read"
    /\ save' = [save EXCEPT ![c].at = "write",
                            ![c].map = [k \in Fields |-> IF k = save[c].key THEN save[c].value
                                                         ELSE LineTrimmed(file[k])]]
    /\ UNCHANGED <<stores, saved, saves, starts, pages, launched>>

SaveWrites(c) ==
    /\ save[c].at = "write"
    /\ tmp' = save[c].map
    /\ SaveAt(c, "rename")
    /\ UNCHANGED <<keychain, file, saved, saves, starts, pages, launched>>

SaveRenames(c) ==
    /\ save[c].at = "rename" /\ tmp # Empty
    /\ file' = tmp /\ tmp' = Empty
    /\ SaveAt(c, "chmod")
    /\ UNCHANGED <<keychain, saved, saves, starts, pages, launched>>

SaveEnds(c) ==
    /\ save' = [save EXCEPT ![c] = NoSave]
    /\ form' = [form EXCEPT !.saving = IF save[c].mine THEN @ \ {save[c].key} ELSE @]
    /\ UNCHANGED <<stores, saves, starts, shown, claude, listed, canLaunch, launched>>

SaveAnswered(c) ==
    /\ save[c].at = "chmod"
    /\ saved' = [saved EXCEPT ![save[c].key] = IF save[c].clash THEN NoValue ELSE save[c].value]
    /\ SaveEnds(c)

(* Any step may fail; a rename does when another save renamed the file. *)
SaveFails(c) ==
    /\ save[c] # NoSave
    /\ SaveEnds(c)
    /\ UNCHANGED saved

-----------------------------------------------------------------------------
(* The wizard. *)

Detected ==
    /\ shown = "detect" /\ claude' \in BOOLEAN
    /\ UNCHANGED <<stores, save, saved, saves, starts, shown, form, listed, canLaunch, launched>>

(* A new form does not know of the saves of the last, and may save their keys *)
(* again meanwhile.                                                          *)
HandleNext ==
    /\ shown = "detect" /\ claude
    /\ shown' = "credentials"
    /\ form' = NewForm
    /\ save' = [c \in Slots |-> IF save[c] = NoSave THEN NoSave ELSE [save[c] EXCEPT !.mine = FALSE]]
    /\ UNCHANGED <<stores, saved, saves, starts, claude, listed, canLaunch, launched>>

HandleBack ==
    /\ shown = "credentials"
    /\ shown' = "detect"
    /\ UNCHANGED <<stores, save, saved, saves, starts, claude, form, listed, canLaunch, launched>>

HandleVerifyAll ==
    /\ shown = "credentials" /\ ~form.verifying
    /\ form' = [form EXCEPT !.verifying = TRUE]
    /\ UNCHANGED <<stores, save, saved, saves, starts, shown, claude, listed, canLaunch, launched>>

(* The answers of the services; a request that takes too long or does not    *)
(* get through is one for not valid.                                         *)
ServiceAnswers == SUBSET Verifiable

(* Keys no service is asked about come back as not valid.  The step is passed *)
(* when the results are as many as the fields, none of another key, and all   *)
(* of them valid.  The call may also have no answer.                         *)
Verified ==
    /\ form.verifying
    /\ \E valid \in ServiceAnswers :
          form' = [form EXCEPT !.verifying = FALSE,
                               !.passed = @ \/ (valid = Fields /\ OtherKeys = {})]
    /\ UNCHANGED <<stores, save, saved, saves, starts, shown, claude, listed, canLaunch, launched>>

-----------------------------------------------------------------------------
(* The dashboard. *)

(* credentials_list reads the file, or answers nothing. *)
OpenRecon ==
    /\ shown = "away"
    /\ shown' = "guard"
    /\ listed' \in {SetIn(file), {}}
    /\ UNCHANGED <<stores, save, saved, saves, starts, claude, form, canLaunch, launched>>

(* The skill file is there or not. *)
SetupChecked ==
    /\ shown = "guard"
    /\ \/ listed = Fields /\ shown' = "dashboard"
       \/ shown' = "detect"
    /\ listed' = {}
    /\ UNCHANGED <<stores, save, saved, saves, starts, claude, form, canLaunch, launched>>

(* keychain_list, whose answer has five seconds, and the skill file again. *)
Preflight ==
    /\ shown = "dashboard"
    /\ canLaunch' \in {FALSE, ReadyKeys \subseteq ListStoredKeys}
    /\ UNCHANGED <<stores, save, saved, saves, starts, shown, claude, form, listed, launched>>

LeaveDashboard ==
    /\ shown = "dashboard"
    /\ shown' = "away" /\ canLaunch' = FALSE
    /\ UNCHANGED <<stores, save, saved, saves, starts, claude, form, listed, launched>>

(* Mutated form of Merged: the keychain is the primary store. *)
KeychainFirst(chain, lines) ==
    [k \in Fields |-> IF chain[k] # NoValue THEN chain[k] ELSE lines[k]]

Merged(chain, lines) ==
    [k \in Fields |-> IF lines[k] # NoValue THEN lines[k] ELSE chain[k]]

(* Both stores are taken to answer. *)
(* The host reads the file by itself, not through the sidecar. *)
ReadCredentials == [k \in Fields |-> Trimmed(file[k])]
Launched == Merged(keychain, ReadCredentials)

LaunchRecon ==
    /\ shown = "dashboard" /\ canLaunch
    /\ launched' = launched \cup {k \in Fields : saved[k] # NoValue /\ Launched[k] # Trimmed(saved[k])}
    /\ UNCHANGED <<stores, save, saved, saves, starts, pages>>

-----------------------------------------------------------------------------
SetupNext ==
    \/ StartDesktop \/ QuitDesktop
    \/ \E k \in Fields, c \in Slots : HandleSave(k, c)
    \/ \E c \in Slots :
        SaveReads(c) \/ SaveWrites(c) \/ SaveRenames(c) \/ SaveAnswered(c) \/ SaveFails(c)
    \/ Detected \/ HandleNext \/ HandleBack
    \/ HandleVerifyAll \/ Verified
    \/ OpenRecon \/ SetupChecked \/ Preflight \/ LeaveDashboard
    \/ LaunchRecon

SetupSpec == SetupInit /\ [][SetupNext]_setupVars

SetupTypeOK ==
    LET Store == [Fields -> {NoValue} \cup Values]
    IN  /\ keychain \in Store /\ file \in Store /\ tmp \in Store /\ saved \in Store
        /\ save \in [Slots -> [at : {"none", "read", "write", "rename", "chmod"}, key : Fields \cup {""},
                               value : {NoValue} \cup Values, map : Store,
                               clash : BOOLEAN, mine : BOOLEAN]]
        /\ saves \in 0..MaxSaves /\ starts \in 0..MaxStarts
        /\ shown \in {"off", "away", "guard", "detect", "credentials", "dashboard"}
        /\ claude \in BOOLEAN /\ canLaunch \in BOOLEAN /\ listed \subseteq Fields
        /\ form \in [saving : SUBSET Fields, verifying : BOOLEAN, passed : BOOLEAN]
        /\ launched \subseteq Fields

(* The value of a key that was saved last is the one a launch gives to        *)
(* claude, but for the blanks around it, which every launch takes away: the   *)
(* keychain keeps what the migration stored and every save writes all keys,   *)
(* and none is lost to a save of another key, a failed migration or a restart, *)
(* unless two saves overlapped (recon.rs:46-56, 108-128, keychain.rs:55-115,   *)
(* credentials.ts:148-191).                                                  *)
SavedIsUsed ==
    /\ launched = {}
    /\ \A k \in Fields : saved[k] # NoValue => Launched[k] = Trimmed(saved[k])
=============================================================================
