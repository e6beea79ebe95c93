------------------------------ MODULE MCFixtures ------------------------------
EXTENDS Migrations, TLC

\* Flamengo keeps its name; Cruzeiro has a second spelling that another feed writes.
MCNormal == [s \in Spellings |-> s]
MCReports ==
  {[source |-> 1, comp |-> "Brasil", home |-> "Cruzeiro", away |-> "Flamengo", day |-> 4, goals |-> <<1, 0>>, game |-> 1],
   [source |-> 2, comp |-> "Brasil", home |-> "CruzeiroEC", away |-> "Flamengo", day |-> 5, goals |-> <<1, 0>>, game |-> 1],
   [source |-> 1, comp |-> "Brasil", home |-> "Cruzeiro", away |-> "Flamengo", day |-> 12, goals |-> <<1, 0>>, game |-> 2]}
MCDraws == [s \in {"media", "progol"} |->
  IF s = "media" THEN [pairs |-> <<<<"CruzeiroEC", "Flamengo">>>>, cierre |-> 4]
  ELSE [pairs |-> <<<<"Cruzeiro", "Flamengo">>, <<"Flamengo", "Cruzeiro">>>>, cierre |-> 3]]

Row(home, away, comp, day) == [comp |-> comp, home |-> home, away |-> away, day |-> day, marked |-> FALSE]
Result(i, day) ==
  LET r == CHOOSE x \in MCReports : x.day = day
  IN [match |-> i, source |-> r.source, day |-> day, goals |-> r.goals, game |-> r.game]
Linking(f) == [slot \in Slots |-> IF slot \in DOMAIN f THEN f[slot] ELSE 0]

\* Two feeds wrote one game under two spellings, and two slates took a row each.
Duplicated ==
  [Empty EXCEPT
     !.teams = {"Cruzeiro", "CruzeiroEC", "Flamengo"},
     !.alias = [n \in Spellings |-> IF n \in {"Cruzeiro", "CruzeiroEC", "Flamengo"} THEN n ELSE Nobody],
     !.matches = <<Row("Cruzeiro", "Flamengo", "Brasil", 4), Row("CruzeiroEC", "Flamengo", "Brasil", 5),
                   Row("Cruzeiro", "Flamengo", "Brasil", 12)>>,
     !.results = {Result(1, 4), Result(2, 5), Result(3, 12)},
     !.links = Linking(<<"media", 1>> :> 2 @@ <<"progol", 1>> :> 1)]

\* A slate placed on invented kickoffs under its own name, beside what a feed reported
\* of one of its games for another spelling, and a namesake's row in the cup.
Invented ==
  [Empty EXCEPT
     !.teams = {"Cruzeiro", "Flamengo", "FlamengoRJ"},
     !.alias = [n \in Spellings |-> IF n \in {"Cruzeiro", "Flamengo"} THEN n ELSE Nobody],
     !.matches = <<Row("Cruzeiro", "Flamengo", "Concurso", 5), Row("Flamengo", "Cruzeiro", "Concurso", 6),
                   Row("Cruzeiro", "FlamengoRJ", "Brasil", 4), Row("Cruzeiro", "Flamengo", "Copa", 9)>>,
     !.results = {Result(3, 4)},
     !.links = Linking(<<"progol", 1>> :> 1 @@ <<"progol", 2>> :> 2)]
MCLegacy == {Duplicated, Invented}
MCProgram ==
  <<[version |-> 2, kind |-> "relink", comp |-> "Brasil"],
    [version |-> 3, kind |-> "split", from |-> "Cruzeiro", comp |-> "Copa", into |-> "CruzeiroRS"],
    [version |-> 4, kind |-> "alias", from |-> "FlamengoRJ", into |-> "FlamengoRJ"],
    [version |-> 5, kind |-> "mark"],
    [version |-> 6, kind |-> "correct", slot |-> <<"progol", 2>>, comp |-> "Copa"],
    [version |-> 7, kind |-> "merge", from |-> "FlamengoRJ", into |-> "Flamengo"],
    [version |-> 8, kind |-> "fold", from |-> "CruzeiroEC", into |-> "Cruzeiro"],
    [version |-> 9, kind |-> "consolidate"]>>
MCReleases == <<5, 9>>
===============================================================================
