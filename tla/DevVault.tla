------------------------------ MODULE DevVault ------------------------------
(***************************************************************************)
(* The file vault (cdp-vault file.rs) and the Gate that opens it when it   *)
(* starts.  create_dev_vault truncates the file and writes salt, nonce and *)
(* ciphertext over it, with no lock and no rename; it may be cut short, it *)
(* may overlap with another, and a Gate may read meanwhile.  A text is a   *)
(* sequence of cells, the first of which is the salt and the nonce.  That  *)
(* ciphertext changed in any place, or opened with another key, fails its  *)
(* authentication is what ChaCha20-Poly1305 promises.                      *)
(***************************************************************************)
EXTENDS Integers, Sequences

CONSTANTS
    Maker,         \* the calls of create_dev_vault
    Size,          \* the cells of each one's text
    Stored,        \* the references each one stores a credential under
    DevRef,        \* references a credential may be asked for by
    Password,      \* the passwords a vault may be made with
    GatePassword,  \* CDP_DEV_VAULT_PASSWORD of the Gate
    Nobody         \* no maker, no file

ASSUME VaultFileAssumption ==
    /\ Size \in [Maker -> Nat \ {0}] /\ Stored \in [Maker -> SUBSET DevRef]
    /\ GatePassword \in Password /\ Nobody \notin Maker

VARIABLES
    blob,      \* the file: its cells, or Nobody
    maker,     \* each call: step, password, cells written
    backend,   \* the Gate's FileBackend: step, cells read, whose credentials it has
    served,    \* what fetch last returned: the reference and whose credential
    disturbed  \* a create was cut short, or overlapped with another or with a read

fileVars == <<blob, maker, backend, served, disturbed>>

Nothing == [ref |-> Nobody, of |-> Nobody]
Zero == [of |-> Nobody, at |-> 0]

FileInit ==
    /\ blob = Nobody
    /\ maker = [m \in Maker |-> [step |-> "new", password |-> GatePassword, written |-> 0]]
    /\ backend = [step |-> "new", got |-> <<>>, of |-> Nobody]
    /\ served = Nothing
    /\ disturbed = FALSE

Writing(m) == maker[m].step = "write"

-----------------------------------------------------------------------------
(* create_dev_vault *)

\* The file is opened and truncated.
CreateDevVault(m, p) ==
    /\ maker[m].step = "new"
    /\ maker' = [maker EXCEPT ![m].step = "write", ![m].password = p]
    /\ blob' = <<>>
    /\ disturbed' = (disturbed \/ backend.step = "read" \/ \E n \in Maker : Writing(n))
    /\ UNCHANGED <<backend, served>>

\* write_all goes on where this call stopped, wherever the file now ends.
WriteCell(m) ==
    LET k == maker[m].written + 1
        end == IF k > Len(blob) THEN k ELSE Len(blob)
    IN
    /\ Writing(m)
    /\ blob' = [i \in 1..end |-> IF i = k THEN [of |-> m, at |-> k]
                                 ELSE IF i \in DOMAIN blob THEN blob[i] ELSE Zero]
    /\ maker' = [maker EXCEPT ![m].written = k, ![m].step = IF k = Size[m] THEN "done" ELSE "write"]
    /\ UNCHANGED <<backend, served, disturbed>>

CutShort(m) ==
    /\ Writing(m)
    /\ maker' = [maker EXCEPT ![m].step = "cut"]
    /\ disturbed' = TRUE
    /\ UNCHANGED <<blob, backend, served>>

-----------------------------------------------------------------------------
(* The Gate *)

\* Without a file the Gate goes on without credentials; otherwise open begins.
FindVault ==
    /\ backend.step = "new"
    /\ backend' = [backend EXCEPT !.step = IF blob = Nobody THEN "none" ELSE "read"]
    /\ disturbed' = (disturbed \/ \E m \in Maker : Writing(m))
    /\ UNCHANGED <<blob, maker, served>>

ReadCell ==
    /\ backend.step = "read"
    /\ Len(backend.got) < Len(blob)
    /\ backend' = [backend EXCEPT !.got = Append(@, blob[Len(@) + 1])]
    /\ UNCHANGED <<blob, maker, served, disturbed>>

\* Mutant: the key stream is applied without a look at the tag.
ChachaDecryptBare(text, p) == {m \in Maker : text[1].of = m /\ maker[m].password = p}

\* derive_key and chacha_decrypt: the text of a maker, its salt and nonce with all of
\* its ciphertext, opens with that maker's password.
ChachaDecrypt(text, p) ==
    {m \in Maker : /\ text = [k \in 1..Size[m] |-> [of |-> m, at |-> k]]
                   /\ maker[m].password = p}

\* open at the end of the file: too short, not authentic, or parsed.  An error ends
\* the Gate's start.
OpenVault ==
    LET found == IF backend.got = <<>> THEN {} ELSE ChachaDecrypt(backend.got, GatePassword) IN
    /\ backend.step = "read"
    /\ Len(backend.got) >= Len(blob)
    /\ \/ found = {} /\ backend' = [backend EXCEPT !.step = "failed"]
       \/ \E m \in found : backend' = [backend EXCEPT !.step = "open", !.of = m]
    /\ UNCHANGED <<blob, maker, served, disturbed>>

\* fetch: NotFound, or the credential in memory, encrypted with the session's key that
\* VaultCredentialProvider decrypts it with.
FetchDev(r) ==
    /\ backend.step = "open"
    /\ served' = IF r \in Stored[backend.of] THEN [ref |-> r, of |-> backend.of] ELSE Nothing
    /\ UNCHANGED <<blob, maker, backend, disturbed>>

FileNext ==
    \/ \E m \in Maker, p \in Password : CreateDevVault(m, p)
    \/ \E m \in Maker : WriteCell(m) \/ CutShort(m)
    \/ FindVault \/ ReadCell \/ OpenVault
    \/ \E r \in DevRef : FetchDev(r)

FileSpec == FileInit /\ [][FileNext]_fileVars

-----------------------------------------------------------------------------
(* Properties *)

\* Whoever wrote the file at the same time or was cut short, a Gate serves only what
\* one call of create_dev_vault wrote in full, with the Gate's own password, under
\* the reference asked for; and if nobody was cut short or overlapped, it fails to
\* start only over a vault with another password (create_dev_vault, open, fetch).
ServesWholeVault ==
    /\ served # Nothing =>
          /\ maker[served.of].step = "done" /\ maker[served.of].password = GatePassword
          /\ served.ref \in Stored[served.of]
    /\ backend.step = "failed" /\ ~disturbed =>
          backend.got # <<>> /\ maker[backend.got[1].of].password # GatePassword

=============================================================================
