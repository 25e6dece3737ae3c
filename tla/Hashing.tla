------------------------------ MODULE Hashing ------------------------------
(***************************************************************************)
(* A password's digest on its way to the database file and back: printed   *)
(* in hexadecimal by db_update_db (src/src/server/server_db.c), scanned    *)
(* two characters at a time by hex_char_to_byte_array, and compared by     *)
(* hash_hash_t_match (src/src/server/server_crypto.c).  One turn of either *)
(* loop is one step.                                                       *)
(*                                                                         *)
(* A character is the hexadecimal digit it shows, 0 to 15.  Others are not *)
(* modelled: the file is loaded only if it is what was written.            *)
(***************************************************************************)
EXTENDS Integers, Sequences

CONSTANT Digests    \* what hash_byte_array may return

ASSUME HashingAssumption ==
    /\ \A d \in Digests : d \in Seq(0..255) /\ d # <<>>
    /\ \A d, e \in Digests : Len(d) = Len(e)

NULL == <<>>        \* in place of a hash_t
-----------------------------------------------------------------------------
VARIABLES
    hashing,    \* "rest", "print", "scan", "done"
    digest,     \* p_hash of the account
    pw_hash,    \* the characters that are saved
    idx,        \* how many bytes are printed
    str_idx,    \* how many characters are scanned
    bytes       \* p_byte_array, up to barr_idx

hashVars == <<hashing, digest, pw_hash, idx, str_idx, bytes>>

HashInit ==
    /\ hashing = "rest" /\ digest = NULL /\ pw_hash = <<>>
    /\ idx = 0 /\ str_idx = 0 /\ bytes = NULL

\* db_update_db comes to an account.
Account ==
    /\ hashing = "rest" /\ hashing' = "print"
    /\ digest' \in Digests
    /\ UNCHANGED <<pw_hash, idx, str_idx, bytes>>
-----------------------------------------------------------------------------
\* Mutant: "%x", which leaves a leading zero out.
ShortHex(b) == IF b < 16 THEN <<b>> ELSE <<b \div 16, b % 16>>

\* sprintf "%02x".
Hex(b) == <<b \div 16, b % 16>>

\* sscanf "%2hhx".
Scanned(s, at) == 16 * s[at + 1] + s[at + 2]

PrintByte ==
    /\ hashing = "print" /\ idx < Len(digest)
    /\ pw_hash' = pw_hash \o Hex(digest[idx + 1])
    /\ idx' = idx + 1
    /\ UNCHANGED <<hashing, digest, str_idx, bytes>>

\* hex_char_to_byte_array returns NULL at once.
Refused(s) == Len(s) = 0 \/ Len(s) % 2 # 0

\* The line is saved, and populate_htable comes to it.
Load ==
    /\ hashing = "print" /\ idx >= Len(digest)
    /\ hashing' = IF Refused(pw_hash) THEN "done" ELSE "scan"
    /\ UNCHANGED <<digest, pw_hash, idx, str_idx, bytes>>

ScanByte ==
    /\ hashing = "scan" /\ str_idx < Len(pw_hash)
    /\ bytes' = Append(bytes, Scanned(pw_hash, str_idx))
    /\ str_idx' = str_idx + 2
    /\ UNCHANGED <<hashing, digest, pw_hash, idx>>

ScanEnds ==
    /\ hashing = "scan" /\ str_idx >= Len(pw_hash)
    /\ hashing' = "done"
    /\ UNCHANGED <<digest, pw_hash, idx, str_idx, bytes>>

HashNext == Account \/ PrintByte \/ Load \/ ScanByte \/ ScanEnds

HashSpec == HashInit /\ [][HashNext]_hashVars
-----------------------------------------------------------------------------
\* hash_hash_t_match, with hash_compare.
Matches(l, r) ==
    /\ l # NULL /\ r # NULL
    /\ Len(l) = Len(r)
    /\ \A k \in 1..Len(l) : l[k] = r[k]
-----------------------------------------------------------------------------
(***************************************************************************)
(* Properties.                                                             *)
(***************************************************************************)

\* db_update_db, populate_htable and hash_hash_t_match: the hash that is loaded
\* lets in whoever the saved one let in, and nobody else.
HashReloads ==
    hashing = "done" => \A d \in Digests : Matches(bytes, d) <=> Matches(digest, d)
=============================================================================
