------------------------------ MODULE MCObjDb ------------------------------
EXTENDS ObjDb

CONSTANTS k1, k2, k3

zero == <<0, 4>>
one == <<1, 1>>
two == <<2, 1>>
twoB == <<2, 2>>

MCOid == {zero, one, two, twoB}
MCWritten == {twoB}

Raw(oid) == [kind |-> "raw", base |-> None, source |-> None, data |-> oid]

Ofs(source, oid) == [kind |-> "ofs", base |-> 1, source |-> source, data |-> oid]
Ref(source, oid) == [kind |-> "ref", base |-> source, source |-> source, data |-> oid]

\* A chain of deltas, by distance and by name, with an empty bucket before its
\* objects; one object; and a base that is not before.
MCEntry ==
    [k \in {k1, k2, k3} |->
        CASE k = k1 -> <<Raw(two), Ofs(two, one), Ref(one, twoB)>>
          [] k = k2 -> <<Raw(zero)>>
          [] k = k3 -> <<Ref(one, twoB)>>]

=============================================================================
