------------------------------ MODULE NodeBoot ------------------------------
(***************************************************************************)
(* Start-up: load_or_generate of keys.rs, load and save of token.rs, and   *)
(* the boot order of main.rs that ties them together.                      *)
(*                                                                         *)
(* A file is absent, torn (opened for writing, which truncates it, and not *)
(* written to the end) or holds a key.  Keys are numbered as they are      *)
(* drawn; the public key of a secret has its number.  Every read and write *)
(* may fail, the process may end between any two steps, and while it is    *)
(* down an operator may remove a file.  Neither keys.rs nor token.rs calls *)
(* fsync: what a power failure leaves of a file is not modelled.           *)
(***************************************************************************)
EXTENDS Integers, Sequences, FiniteSets

CONSTANTS
    CertSizes,       \* lengths of cert.bin an operator may install, 0 for none
    CaDirs,          \* contents of ca/: sequences of key lengths, 0 for a missing label
    MAX_CERT, KEY_LEN,
    MaxDrawn         \* bound: keys drawn

Absent == 0
TornFile == -1
KeyFiles == {"secret", "pub", "sig"}
Files == KeyFiles \cup {"token"}

VARIABLES
    file,      \* Files -> Absent, TornFile or a key
    bootPc,    \* the next step of main: a file, or what its name says
    open,      \* the file of that step is open for writing, and truncated
    keys,      \* what this process has in memory
    drawn,     \* keys drawn so far
    known,     \* history: the keys and the token the node has used, 0 for none
    excused,   \* history: the files removed, and the token when it could not be read
    outcome    \* how the last boot ended

bootVars == <<file, bootPc, open, keys, drawn, known, excused, outcome>>

NoKeys == [f \in Files |-> Absent]

BootInit ==
    /\ file = NoKeys /\ keys = NoKeys /\ known = NoKeys
    /\ bootPc = "down" /\ open = FALSE /\ drawn = 0 /\ excused = {} /\ outcome = "none"

-----------------------------------------------------------------------------
\* The step after the one on key file f.
After(f) == CASE f = "secret" -> "pub" [] f = "pub" -> "sig" [] f = "sig" -> "rest"

\* Mutant: any error of the read passes for a missing file.
MissingOrUnreadable(f, err) == err \/ file[f] = Absent

\* read_key_file returns None: ErrorKind::NotFound only.
Missing(f, err) == ~err /\ file[f] = Absent

\* read_key_file, and the cross-check of the stored public key.
ReadKeyFile(f, err) ==
    IF Missing(f, err) THEN "None"
    ELSE IF err THEN "DiskError"
    ELSE IF file[f] = TornFile THEN "KeyFileCorrupt"
    ELSE IF f = "pub" /\ file[f] # keys["secret"] THEN "PubMismatch"
    ELSE "Some"

\* fatal: the process ends.
Fatal(error) ==
    /\ bootPc' = "down" /\ open' = FALSE /\ keys' = NoKeys /\ outcome' = error
    /\ UNCHANGED <<file, drawn, known, excused>>

\* main begins; ensure_dir, whose failure leaves the node down.
Start ==
    /\ bootPc = "down"
    /\ bootPc' = "secret" /\ outcome' = "none"
    /\ UNCHANGED <<file, open, keys, drawn, known, excused>>

LoadKey(f) ==
    /\ bootPc = f /\ ~open /\ ReadKeyFile(f, FALSE) = "Some"
    /\ keys' = [keys EXCEPT ![f] = file[f]]
    /\ bootPc' = After(f)
    /\ UNCHANGED <<file, open, drawn, known, excused, outcome>>

\* A missing key is drawn (the public one derived), and write_private opens its file.
DrawKey(f) ==
    /\ bootPc = f /\ ~open /\ \E err \in BOOLEAN : ReadKeyFile(f, err) = "None"
    /\ drawn < MaxDrawn
    /\ drawn' = IF f = "pub" THEN drawn ELSE drawn + 1
    /\ keys' = [keys EXCEPT ![f] = IF f = "pub" THEN keys["secret"] ELSE drawn + 1]
    /\ file' = [file EXCEPT ![f] = TornFile]
    /\ open' = TRUE
    /\ UNCHANGED <<bootPc, known, excused, outcome>>

\* write_private gets to its end.
WriteKey(f) ==
    /\ bootPc = f /\ open
    /\ file' = [file EXCEPT ![f] = keys[f]]
    /\ bootPc' = After(f) /\ open' = FALSE
    /\ UNCHANGED <<keys, drawn, known, excused, outcome>>

\* load_or_generate gives up on a key file it cannot take, or cannot open for writing.
KeyRefused(f) ==
    /\ bootPc = f /\ ~open
    /\ \E err \in BOOLEAN :
           LET read == ReadKeyFile(f, err)
           IN  read # "Some" /\ Fatal(IF read = "None" THEN "DiskError" ELSE read)

\* write_all fails, with the file torn, or set_permissions, with it whole; token::save
\* has set them when it opened the file.
WriteFails(f) ==
    /\ bootPc = f /\ open
    /\ \E v \in {TornFile} \cup (IF f = "token" THEN {} ELSE {keys[f]}) :
           file' = [file EXCEPT ![f] = v]
    /\ bootPc' = "down" /\ open' = FALSE /\ keys' = NoKeys /\ outcome' = "DiskError"
    /\ UNCHANGED <<drawn, known, excused>>

-----------------------------------------------------------------------------
\* The CA keys of ca0.pub, ca1.pub and so on up to the first missing label; a label
\* that is there with a wrong size is corruption.
CaPubs(dir) ==
    LET gaps   == {k \in DOMAIN dir : dir[k] = 0}
        prefix == {k \in DOMAIN dir : \A g \in gaps : k < g}
    IN  IF \A k \in prefix : dir[k] = KEY_LEN THEN Cardinality(prefix) ELSE -1

\* cert.bin and the CA keys are taken, and main prints the identity.
Announce ==
    /\ bootPc = "rest"
    /\ \E size \in CertSizes, dir \in CaDirs : size <= MAX_CERT /\ CaPubs(dir) >= 0
    /\ known' = [known EXCEPT !["secret"] = keys["secret"], !["pub"] = keys["pub"],
                              !["sig"] = keys["sig"]]
    /\ bootPc' = "ledger"
    /\ excused' = excused \ KeyFiles
    /\ UNCHANGED <<file, open, keys, drawn, outcome>>

RestRefused ==
    /\ bootPc = "rest"
    /\ \E size \in CertSizes, dir \in CaDirs :
           \/ size > MAX_CERT /\ Fatal("CertTooLarge")
           \/ size <= MAX_CERT /\ CaPubs(dir) < 0 /\ Fatal("KeyFileCorrupt")
           \/ Fatal("DiskError")

\* attach_ledger, add_resource and, for a node that is to have a control plane,
\* attach_control, each fatal when it fails.
Attach ==
    /\ bootPc = "ledger"
    /\ bootPc' \in {"token", "running"}
    /\ UNCHANGED <<file, open, keys, drawn, known, excused, outcome>>

AttachFails == bootPc = "ledger" /\ Fatal("Attach")

\* token::load finds a whole token.
LoadToken ==
    /\ bootPc = "token" /\ ~open /\ file["token"] > 0
    /\ keys' = [keys EXCEPT !["token"] = file["token"]]
    /\ known' = [known EXCEPT !["token"] = file["token"]]
    /\ bootPc' = "running" /\ excused' = {}
    /\ UNCHANGED <<file, open, drawn, outcome>>

\* token::load returns None: no file, a short one, or one that cannot be read.  main
\* draws a token and token::save opens, and truncates, the file.
DrawToken(err) ==
    /\ bootPc = "token" /\ ~open /\ (err \/ file["token"] \in {Absent, TornFile})
    /\ drawn < MaxDrawn
    /\ drawn' = drawn + 1
    /\ keys' = [keys EXCEPT !["token"] = drawn + 1]
    /\ file' = [file EXCEPT !["token"] = TornFile]
    /\ open' = TRUE
    /\ excused' = IF file["token"] > 0 THEN excused \cup {"token"} ELSE excused
    /\ UNCHANGED <<bootPc, known, outcome>>

\* token::load returns None and token::save cannot open the file.
TokenRefused == bootPc = "token" /\ ~open /\ Fatal("DiskError")

\* token::save gets to its end, and main prints the token.
SaveToken ==
    /\ bootPc = "token" /\ open
    /\ file' = [file EXCEPT !["token"] = keys["token"]]
    /\ known' = [known EXCEPT !["token"] = keys["token"]]
    /\ bootPc' = "running" /\ open' = FALSE /\ excused' = {}
    /\ UNCHANGED <<keys, drawn, outcome>>

\* The process ends, wherever it is.
Crash == bootPc # "down" /\ Fatal("none")

\* An operator removes a file of a node that is down.
RemoveFile(f) ==
    /\ bootPc = "down" /\ file[f] # Absent
    /\ file' = [file EXCEPT ![f] = Absent]
    /\ excused' = excused \cup {f}
    /\ UNCHANGED <<bootPc, open, keys, drawn, known, outcome>>

BootNext ==
    \/ Start \/ Announce \/ RestRefused \/ Attach \/ AttachFails
    \/ \E f \in KeyFiles :
           LoadKey(f) \/ DrawKey(f) \/ WriteKey(f) \/ KeyRefused(f) \/ WriteFails(f)
    \/ LoadToken \/ SaveToken \/ TokenRefused \/ WriteFails("token")
    \/ \E err \in BOOLEAN : DrawToken(err)
    \/ \E f \in Files : RemoveFile(f)
    \/ Crash

BootSpec == BootInit /\ [][BootNext]_bootVars

-----------------------------------------------------------------------------
\* D-018, "first run generates, second reloads byte-identical": through crashes, failed
\* reads and failed writes at any step, a node announces the keys it announced before
\* unless an operator removed them; and a node is only told that its public key was
\* tampered with when somebody did remove the secret.  The control token is kept as
\* well (specs/token.md, "No silent rotation"), except that a token file that exists
\* and cannot be read is replaced.
BootStable ==
    [][/\ \A f \in Files :
             known[f] # Absent /\ known'[f] # known[f] =>
                 (IF f = "pub" THEN "secret" ELSE f) \in excused
       /\ outcome' = "PubMismatch" => "secret" \in excused]_bootVars
=============================================================================
