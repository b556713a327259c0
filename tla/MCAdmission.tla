------------------------------ MODULE MCAdmission ------------------------------
(* Each budget at its limit, with one request more than fits.              *)
EXTENDS Admission

CONSTANTS u1, u2, u3, i1, i2, i3, n1, n2, a1, a2, a3, a4, k1, k2, k3, f1, f2, f3, d1, d2, d3, d4

MCUploads == {u1, u2, u3}
MCImages == {i1, i2, i3, n1, n2}
MCAssets == {a1, a2, a3, a4}
MCDownloads == {d1, d2, d3, d4}

MCKeyOf == [r \in MCImages |-> IF r \in {i1, i3, n1} THEN k1 ELSE IF r = i2 THEN k2 ELSE k3]
MCFileOf == [r \in MCAssets |-> IF r \in {a1, a4} THEN f1 ELSE IF r = a2 THEN f2 ELSE f3]

(* The route behind the first image asks for that image again, the one     *)
(* behind the second for another.                                          *)
MCParent == [r \in MCImages |-> IF r = n1 THEN i1 ELSE IF r = n2 THEN i2 ELSE None]

(* Two requests for one small file, a second that displaces it, and one    *)
(* too large to be cached.                                                 *)
MCAssetOf == [r \in MCDownloads |-> IF r \in {d1, d2} THEN f1 ELSE IF r = d3 THEN f2 ELSE f3]
MCSizeOf == [f \in {f1, f2, f3} |-> IF f = f1 THEN 1 ELSE IF f = f2 THEN 2 ELSE 3]

MCWorkloads == {{u1, u2, u3}, {i1, i2, i3}, {i1, i2, n1, n2}, {a1, a2, a3, a4},
                {d1, d2, d3}, {d1, d4}}
================================================================================
