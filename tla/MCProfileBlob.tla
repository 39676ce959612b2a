--------------------------- MODULE MCProfileBlob ---------------------------
(* Instances of ProfileBlob: three interests, one of them also written in   *)
(* capitals, and one place.                                                 *)
EXTENDS ProfileBlob, TLC

CONSTANTS tea, Tea, chess, jazz, rome, extract, edit, correct

MCKind == [w \in Writers |-> IF w = extract THEN "extract"
                             ELSE IF w = edit THEN "edit" ELSE "correct"]
MCInterests == {tea, Tea, chess, jazz}
MCFold == tea :> tea @@ Tea :> tea @@ chess :> chess @@ jazz :> jazz
MCPartials ==
  { [place |-> NoPlace, interests |-> <<chess, tea, Tea, jazz>>],
    [place |-> rome, interests |-> <<Tea>>] }
=============================================================================
