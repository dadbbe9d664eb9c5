------------------------------ MODULE Pathnames ------------------------------
(***************************************************************************)
(* src/src/classes/Pathname.c: path names as text.  A path keeps the text  *)
(* that is left of what it was made from, and is appended to, rooted       *)
(* elsewhere and shortened as text.  The file system is not asked.         *)
(***************************************************************************)
EXTENDS Integers, Sequences, SequencesExt, FiniteSets, FiniteSetsExt

CONSTANTS PathTexts,   \* what a path is made from
          PathTails,   \* what is appended to it, and the roots it gets
          MaxPathCalls

VARIABLES path,
          trail,     \* history: the segments that lead there
          pathCalls

pathVars == <<path, trail, pathCalls>>

SLASH_MARK == "/"
UP == <<".", ".">>
HERE == <<".">>
Path(absolute, text) == [made |-> TRUE, absolute |-> absolute, text |-> text]
Refused == [made |-> FALSE, absolute |-> FALSE, text |-> <<>>]
BeginsWith(text, mark) == text # <<>> /\ Head(text) = mark

(* What lies between slashes. *)
Segments(text) ==
  LET runs == FoldLeft(LAMBDA r, m : IF m = SLASH_MARK THEN Append(r, <<>>)
                                     ELSE [r EXCEPT ![Len(r)] = Append(@, m)], <<<<>>>>, text)
  IN SelectSeq(runs, LAMBDA run : run # <<>> /\ run # HERE)

(* A step up takes the name before it, if one is left. *)
Entered(kept, segment) ==
  IF segment = UP /\ kept # <<>> /\ Last(kept) # UP THEN Front(kept) ELSE Append(kept, segment)

SlashedText(segments) == FoldLeft(LAMBDA t, s : IF t = <<>> THEN s ELSE t \o <<SLASH_MARK>> \o s, <<>>, segments)
NormalizedText(absolute, segments) ==
  CASE absolute -> <<SLASH_MARK>> \o SlashedText(segments)
    [] ~absolute /\ segments = <<>> -> HERE
    [] ~absolute /\ BeginsWith(segments, UP) -> SlashedText(segments)
    [] OTHER -> HERE \o <<SLASH_MARK>> \o SlashedText(segments)

NormalizedPath(text, absolute) ==
  LET segments == FoldLeft(Entered, <<>>, Segments(text))
  IN IF absolute /\ BeginsWith(segments, UP) THEN Refused
     ELSE Path(absolute, NormalizedText(absolute, segments))

PathClasses == {"Pathname", "RelativePathname", "AbsolutePathname"}
PathFromString(class, text) ==
  LET slashed == BeginsWith(text, SLASH_MARK)
  IN IF Contains(text, "NUL") \/ (class = "RelativePathname" /\ slashed) THEN Refused
     ELSE NormalizedPath(text, class = "AbsolutePathname" \/ (class = "Pathname" /\ slashed))
PathNew(text) == PathFromString("Pathname", text)

----------------------------------------------------------------------------
AppendedSuffix(text) ==
  CASE text = HERE -> <<>>
    [] IsPrefix(HERE \o <<SLASH_MARK>>, text) -> SubSeq(text, 3, Len(text))
    [] OTHER -> text
PathAppend(left, right) ==
  LET suffix == AppendedSuffix(right.text)
  IN CASE right.absolute -> Refused
       [] ~right.absolute /\ left.text = HERE -> PathNew(IF suffix = <<>> THEN HERE ELSE suffix)
       [] OTHER -> PathNew(left.text \o <<SLASH_MARK>> \o suffix)

PathParent(p) ==
  LET slashes == {k \in DOMAIN p.text : p.text[k] = SLASH_MARK}
      before == SubSeq(p.text, 1, Max(slashes \cup {0}) - 1)
  IN CASE p.text = HERE \/ p.text = <<SLASH_MARK>> -> Refused
       [] p.text # HERE /\ (slashes = {} \/ before = HERE) -> PathNew(HERE)
       [] p.text # <<SLASH_MARK>> /\ slashes # {} /\ before = <<>> -> PathNew(<<SLASH_MARK>>)
       [] OTHER -> PathNew(before)

RootedAt(p, root) ==
  LET suffix == Tail(p.text)
  IN PathAppend(root, PathFromString("RelativePathname", IF suffix = <<>> THEN HERE ELSE suffix))

----------------------------------------------------------------------------
(* Where a trail of segments leads, without taking its steps: how far up   *)
(* it ever is, and the names that no step up takes away later.             *)
Rise(segments, i, j) ==
  2 * Cardinality({k \in i..j : segments[k] = UP}) - (j + 1 - i)
StepsUp(segments) == Max({0} \cup {Rise(segments, 1, j) : j \in DOMAIN segments})
NamesLeft(segments) ==
  [i \in DOMAIN segments |-> segments[i] # UP /\ \A j \in i..Len(segments) : Rise(segments, i, j) # 0]
LeadsTo(segments) ==
  LET left == NamesLeft(segments)
      names == {i \in DOMAIN segments : left[i]}
      nth(n) == CHOOSE i \in names : Cardinality({j \in names : j <= i}) = n
  IN [n \in 1..StepsUp(segments) |-> UP] \o [n \in 1..Cardinality(names) |-> segments[nth(n)]]

----------------------------------------------------------------------------
PathInit ==
  /\ pathCalls = 0
  /\ \E class \in PathClasses, text \in PathTexts :
       /\ path = PathFromString(class, text) /\ path.made
       /\ trail = Segments(text)
PathIdle == /\ path = Path(FALSE, HERE) /\ trail = <<>> /\ pathCalls = 0

PathCall(result, leads) ==
  /\ pathCalls < MaxPathCalls /\ pathCalls' = pathCalls + 1
  /\ result.made /\ path' = result /\ trail' = leads

AppendPath == \E text \in PathTails :
  LET tail == PathNew(text) IN
    tail.made /\ PathCall(PathAppend(path, tail), trail \o Segments(text))

(* The parent of a path is without its last segment, a step up included. *)
ToParent == PathParent(path).made /\ PathCall(PathParent(path), Front(LeadsTo(trail)))

RootPath == \E text \in PathTails :
  LET root == PathNew(text) IN
    path.absolute /\ root.made /\ PathCall(RootedAt(path, root), Segments(text) \o LeadsTo(trail))

PathNext == AppendPath \/ ToParent \/ RootPath

----------------------------------------------------------------------------
(* Whatever it was made from and moved by, a path has the one text of the  *)
(* place its segments lead to, so that equal places are equal paths, and   *)
(* reads back as itself; and it is refused only above the root             *)
(* (Pathname.c:78, :692).                                                  *)
PathsSound ==
  /\ path = Path(path.absolute, NormalizedText(path.absolute, LeadsTo(trail)))
  /\ PathNew(path.text) = path
  /\ PathParent(path).made <=> LeadsTo(trail) # <<>>
  /\ \A text \in PathTails :
       LET tail == PathNew(text) IN
         tail.made => (PathAppend(path, tail).made <=>
                         ~tail.absolute /\ (path.absolute => StepsUp(trail \o Segments(text)) = 0))
=============================================================================
