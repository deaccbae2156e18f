------------------------------ MODULE HashChain ------------------------------
(***************************************************************************)
(* The hash chain of a table of billing records, as pure operators.        *)
(*                                                                         *)
(* A SHA-256 digest is modelled by what it covers: the sequence of the     *)
(* invoice numbers digested so far.  Digest is then injective in both      *)
(* arguments, which is what the code relies on.  The digest of a           *)
(* cancellation strips the "_ANUL" suffix, so that it covers the number of *)
(* the invoice it cancels, exactly like that invoice's own digest: only    *)
(* the previous digest tells the two apart.                                *)
(***************************************************************************)
EXTENDS Naturals, Sequences

\* No previous record: prev_hash is NULL and the digest covers "".
Genesis == <<>>

\* calculate_invoice_hash(invoice_data, prev_hash)
Digest(inv, prev) == Append(prev, inv)

\* current_hash of the last row of a table, in the order of the row ids.
LastHash(table) == IF table = <<>> THEN Genesis ELSE table[Len(table)].hash

\* The digest the row at position i has to be linked to.
HashBefore(table, i) == IF i = 1 THEN Genesis ELSE table[i - 1].hash

(***************************************************************************)
(* Every row is linked to the row before it and carries the digest of its  *)
(* own data: the two tests verificar_integridad_cadena makes on each row.  *)
(***************************************************************************)
Linked(table) ==
    \A i \in DOMAIN table :
        /\ table[i].prev = HashBefore(table, i)
        /\ table[i].hash = Digest(table[i].inv, table[i].prev)
=============================================================================
