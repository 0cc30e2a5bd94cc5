---------------------------- MODULE AccessProofs ----------------------------
(* Proofs about what guards access to the platform, for any number of concurrent requests,
   tokens, keys and versions: sessions, signing keys, hard risk limits, prompt versions and
   the skill registry.  Each part gives the inductive invariant of its component, a lemma
   for every action that could break it, and the theorem. *)
EXTENDS Sessions, TransitKeys, RiskLimits, PromptRegistry, SkillCatalog, FiniteSetTheorems, TLAPS

-----------------------------------------------------------------------------
(* Sessions: refresh tokens under racing refreshes *)

TokenRow == [family : Nat, parent : Nat, used : BOOLEAN, revoked : BOOLEAN,
             overlapped : BOOLEAN, late : BOOLEAN]
RefreshState == [phase : {"idle", "rotate", "reuse"}, row : Nat, overlapped : BOOLEAN, late : BOOLEAN]

TokensTypeOK ==
  /\ token \in Seq(TokenRow) /\ refresher \in [Refreshers -> RefreshState]
  /\ \A r \in Refreshers : refresher[r].phase # "idle" => refresher[r].row \in DOMAIN token

(* A family is named by its first row, a row comes after the one it replaced, which is
   marked as used; only families that exist were killed. *)
LineageOK ==
  /\ \A i \in DOMAIN token :
       /\ token[i].family \in 1 .. i /\ token[i].parent \in 0 .. (i - 1)
       /\ token[i].parent # 0 => token[token[i].parent].used
  /\ killed \subseteq 1 .. Len(token)

(* Exchanges of one row that are under way together know of each other, and of every
   successor handed out since they read the row. *)
RivalsKnow ==
  \A r \in Refreshers : refresher[r].phase = "rotate" =>
    /\ \A o \in Refreshers \ {r} :
         refresher[o].phase = "rotate" /\ refresher[o].row = refresher[r].row => refresher[r].overlapped
    /\ \A j \in DOMAIN token : token[j].parent = refresher[r].row =>
         refresher[r].overlapped /\ token[j].overlapped

(* An exchange within a killed family was under way when it was killed, or is of a row
   that descends from such an exchange. *)
KilledIsLate ==
  \A r \in Refreshers : refresher[r].phase = "rotate" /\ token[refresher[r].row].family \in killed =>
    refresher[r].late \/ token[refresher[r].row].late

SessionsInv == TokensTypeOK /\ LineageOK /\ RivalsKnow /\ KilledIsLate /\ RotationHolds

(* What no step undoes in a row. *)
KeepsRow(j) ==
  /\ token'[j].family = token[j].family /\ token'[j].parent = token[j].parent
  /\ token'[j].overlapped = token[j].overlapped /\ token'[j].late = token[j].late
  /\ token[j].used => token'[j].used
  /\ token[j].revoked => token'[j].revoked

LEMMA NewRowType ==
    ASSUME TokensTypeOK, NEW f \in Nat, NEW p \in Nat, p # 0 => p \in DOMAIN token, NEW r \in RefreshState
    PROVE  /\ NewRow(f, p, r) \in TokenRow
           /\ NewRow(f, p, r).family = f /\ NewRow(f, p, r).parent = p
           /\ NewRow(f, p, r).overlapped = r.overlapped
           /\ ~NewRow(f, p, r).revoked
           /\ NewRow(f, p, r).late <=> r.late \/ (p # 0 /\ token[p].late)
<1>1. ASSUME NEW o \in BOOLEAN, NEW l \in BOOLEAN
      PROVE  LET row == [family |-> f, parent |-> p, used |-> FALSE, revoked |-> FALSE,
                         overlapped |-> o, late |-> l]
             IN /\ row \in TokenRow /\ row.family = f /\ row.parent = p /\ row.overlapped = o
                /\ ~row.revoked /\ row.late = l
  BY DEF TokenRow
<1>2. r.overlapped \in BOOLEAN
  BY DEF RefreshState
<1>3. (r.late \/ (p # 0 /\ token[p].late)) \in BOOLEAN
  OBVIOUS
<1> QED BY <1>1, <1>2, <1>3, Zenon DEF NewRow

(* A step that creates no row, starts or ends no exchange and kills no family. *)
LEMMA MarkingKeeps ==
    ASSUME SessionsInv, token' \in Seq(TokenRow), Len(token') = Len(token),
           \A j \in DOMAIN token : KeepsRow(j), UNCHANGED <<refresher, killed>>
    PROVE  SessionsInv'
<1> USE DEF SessionsInv
<1>1. DOMAIN token' = DOMAIN token
  BY DEF TokensTypeOK
<1>2. TokensTypeOK'
  BY <1>1 DEF TokensTypeOK
<1>3. LineageOK'
  <2>1. \A i \in DOMAIN token : token[i].parent # 0 => token[i].parent \in DOMAIN token
    BY DEF LineageOK, TokensTypeOK
  <2> QED BY <1>1, <2>1 DEF LineageOK, KeepsRow
<1>4. RivalsKnow'
  BY <1>1 DEF RivalsKnow, KeepsRow
<1>5. KilledIsLate'
  BY <1>1 DEF KilledIsLate, KeepsRow, TokensTypeOK
<1>6. RotationHolds'
  BY <1>1 DEF RotationHolds, SuccessorsOverlap, KilledFamilyStaysDead, KeepsRow
<1> QED BY <1>2, <1>3, <1>4, <1>5, <1>6

LEMMA IssueSessionKeeps ==
    ASSUME SessionsInv, IssueSession, UNCHANGED <<refresher, killed>>
    PROVE  SessionsInv'
<1> USE DEF SessionsInv
<1> DEFINE n == Len(token) + 1
           new == NewRow(n, 0, NoRefresh)
<1>1. NoRefresh \in RefreshState /\ ~NoRefresh.late
  BY DEF NoRefresh, RefreshState
<1>2. n \in Nat /\ DOMAIN token = 1 .. Len(token) /\ Len(token) \in Nat
  BY DEF TokensTypeOK
<1>3. /\ new \in TokenRow /\ new.family = n /\ new.parent = 0 /\ ~new.revoked
  BY <1>1, <1>2, NewRowType
<1>4. token' = Append(token, new)
  BY DEF IssueSession
<1> HIDE DEF new
<1>5. /\ token' \in Seq(TokenRow) /\ Len(token') = n /\ DOMAIN token' = 1 .. n /\ token'[n] = new
      /\ \A j \in DOMAIN token : token'[j] = token[j]
  BY <1>3, <1>4 DEF TokensTypeOK
<1>6. TokensTypeOK'
  BY <1>2, <1>5 DEF TokensTypeOK
<1>7. LineageOK'
  <2>1. \A i \in DOMAIN token : token[i].parent # 0 => token[i].parent \in DOMAIN token
    BY <1>2 DEF LineageOK
  <2>2. \A i \in DOMAIN token' : i = n \/ i \in DOMAIN token
    BY <1>2, <1>5
  <2>3. ASSUME NEW i \in DOMAIN token'
        PROVE  /\ token'[i].family \in 1 .. i /\ token'[i].parent \in 0 .. (i - 1)
               /\ token'[i].parent # 0 => token'[token'[i].parent].used
    BY <1>2, <1>3, <1>5, <2>1, <2>2 DEF LineageOK
  <2> QED BY <1>2, <1>5, <2>3 DEF LineageOK
<1>8. RivalsKnow'
  <2>1. \A r \in Refreshers : refresher[r].phase = "rotate" => refresher[r].row # 0
    BY <1>2 DEF TokensTypeOK
  <2> QED BY <1>2, <1>3, <1>5, <2>1 DEF RivalsKnow
<1>9. KilledIsLate'
  BY <1>5 DEF KilledIsLate, TokensTypeOK
<1>10. RotationHolds'
  <2>1. n \notin killed
    BY <1>2 DEF LineageOK
  <2>2. \A i \in DOMAIN token' : i = n \/ i \in DOMAIN token
    BY <1>2, <1>5
  <2>3. SuccessorsOverlap'
    BY <1>3, <1>5, <2>2 DEF RotationHolds, SuccessorsOverlap
  <2>4. KilledFamilyStaysDead'
    BY <1>3, <1>5, <2>1, <2>2 DEF RotationHolds, KilledFamilyStaysDead
  <2> QED BY <2>3, <2>4 DEF RotationHolds
<1> QED BY <1>6, <1>7, <1>8, <1>9, <1>10

LEMMA RefreshReadKeeps ==
    ASSUME SessionsInv, NEW r \in Refreshers, NEW i \in DOMAIN token, RefreshRead(r, i)
    PROVE  SessionsInv'
<1> USE DEF SessionsInv
<1> DEFINE rivals == {o \in Refreshers : refresher[o].phase = "rotate" /\ refresher[o].row = i}
<1>1. UNCHANGED <<token, killed>> /\ i \in Nat
  BY DEF RefreshRead, TokensTypeOK
<1>2. CASE ~Live(i)
  <2>1. refresher' = [refresher EXCEPT ![r] = [NoRefresh EXCEPT !.phase = "reuse", !.row = i]]
    BY <1>2 DEF RefreshRead
  <2>2. [NoRefresh EXCEPT !.phase = "reuse", !.row = i] \in RefreshState
    BY <1>1 DEF NoRefresh, RefreshState
  <2>3. /\ refresher' \in [Refreshers -> RefreshState]
        /\ refresher'[r].phase = "reuse" /\ refresher'[r].row = i
        /\ \A o \in Refreshers \ {r} : refresher'[o] = refresher[o]
    BY <2>1, <2>2 DEF TokensTypeOK, NoRefresh
  <2>4. TokensTypeOK'
    BY <1>1, <2>3 DEF TokensTypeOK
  <2>5. LineageOK' /\ RivalsKnow' /\ KilledIsLate'
    BY <1>1, <2>3 DEF LineageOK, RivalsKnow, KilledIsLate
  <2> QED BY <1>1, <2>4, <2>5 DEF RotationHolds, SuccessorsOverlap, KilledFamilyStaysDead
<1>3. CASE Live(i)
  <2>0. refresher[r].phase = "idle"
    BY DEF RefreshRead
  <2>1. refresher' = [o \in Refreshers |->
            IF o = r THEN [phase |-> "rotate", row |-> i, overlapped |-> rivals # {}, late |-> FALSE]
            ELSE IF o \in rivals THEN [refresher[o] EXCEPT !.overlapped = TRUE] ELSE refresher[o]]
    BY <1>3 DEF RefreshRead
  <2>2. /\ refresher'[r] \in RefreshState
        /\ refresher'[r].phase = "rotate" /\ refresher'[r].row = i
        /\ rivals # {} => refresher'[r].overlapped
    <3>1. ASSUME NEW o \in BOOLEAN
          PROVE  LET s == [phase |-> "rotate", row |-> i, overlapped |-> o, late |-> FALSE]
                 IN s \in RefreshState /\ s.phase = "rotate" /\ s.row = i /\ s.overlapped = o
      BY <1>1 DEF RefreshState
    <3>2. (rivals # {}) \in BOOLEAN
      OBVIOUS
    <3>3. refresher'[r] = [phase |-> "rotate", row |-> i, overlapped |-> rivals # {}, late |-> FALSE]
      BY <2>1
    <3> HIDE DEF rivals
    <3> QED BY <3>1, <3>2, <3>3, Zenon
  <2>3. ASSUME NEW o \in Refreshers \ {r}
        PROVE  /\ refresher'[o] \in RefreshState
               /\ refresher'[o].phase = refresher[o].phase /\ refresher'[o].row = refresher[o].row
               /\ refresher'[o].late = refresher[o].late
               /\ refresher[o].overlapped \/ o \in rivals => refresher'[o].overlapped
    <3>1. refresher'[o] = IF o \in rivals THEN [refresher[o] EXCEPT !.overlapped = TRUE] ELSE refresher[o]
      BY <2>1
    <3>2. refresher[o] \in RefreshState
      BY DEF TokensTypeOK
    <3> HIDE DEF rivals
    <3> QED BY <3>1, <3>2 DEF RefreshState
  <2>4. TokensTypeOK'
    <3>1. refresher' \in [Refreshers -> RefreshState]
      BY <2>1, <2>2, <2>3
    <3> QED BY <1>1, <2>2, <2>3, <3>1 DEF TokensTypeOK
  <2>5. LineageOK'
    BY <1>1 DEF LineageOK
  <2>6. \A j \in DOMAIN token : token[j].parent # i
    <3>1. i # 0
      BY DEF TokensTypeOK
    <3> QED BY <1>3, <3>1 DEF LineageOK, Live
  <2>7. RivalsKnow'
    <3> SUFFICES ASSUME NEW p \in Refreshers, refresher'[p].phase = "rotate"
                 PROVE  /\ \A o \in Refreshers \ {p} :
                             refresher'[o].phase = "rotate" /\ refresher'[o].row = refresher'[p].row
                               => refresher'[p].overlapped
                        /\ \A j \in DOMAIN token : token[j].parent = refresher'[p].row =>
                             refresher'[p].overlapped /\ token[j].overlapped
      BY <1>1 DEF RivalsKnow
    <3>1. CASE p = r
      <4>1. \A o \in Refreshers \ {r} :
              refresher'[o].phase = "rotate" /\ refresher'[o].row = i => o \in rivals
        BY <2>3
      <4> QED BY <2>2, <2>6, <3>1, <4>1
    <3>2. CASE p # r
      <4>1. refresher[p].phase = "rotate" /\ refresher'[p].row = refresher[p].row
        BY <2>3, <3>2
      <4>2. ASSUME NEW o \in Refreshers \ {p}, refresher'[o].phase = "rotate",
                   refresher'[o].row = refresher'[p].row
            PROVE  refresher'[p].overlapped
        <5>1. CASE o = r
          <6>1. p \in rivals
            BY <2>2, <4>1, <4>2, <5>1
          <6> QED BY <2>3, <3>2, <6>1
        <5>2. CASE o # r
          BY <2>3, <3>2, <4>1, <4>2, <5>2 DEF RivalsKnow
        <5> QED BY <5>1, <5>2
      <4> QED BY <2>3, <3>2, <4>1, <4>2 DEF RivalsKnow
    <3> QED BY <3>1, <3>2
  <2>8. KilledIsLate'
    <3>1. token[i].family \in killed => token[i].late
      BY <1>3 DEF RotationHolds, KilledFamilyStaysDead, Live
    <3> QED BY <1>1, <2>2, <2>3, <3>1 DEF KilledIsLate
  <2> QED BY <1>1, <2>4, <2>5, <2>7, <2>8 DEF RotationHolds, SuccessorsOverlap, KilledFamilyStaysDead
<1> QED BY <1>2, <1>3

LEMMA RevokeFamilyKeeps ==
    ASSUME SessionsInv, NEW r \in Refreshers, RevokeFamily(r)
    PROVE  SessionsInv'
<1> USE DEF SessionsInv
<1> DEFINE fam == token[refresher[r].row].family
<1>1. /\ refresher[r].row \in DOMAIN token /\ killed' = killed \cup {fam}
      /\ token' = [i \in DOMAIN token |->
           IF token[i].family = fam THEN [token[i] EXCEPT !.revoked = TRUE] ELSE token[i]]
      /\ refresher' = [o \in Refreshers |->
           IF o = r THEN NoRefresh ELSE
           [refresher[o] EXCEPT !.late = @ \/ (refresher[o].phase = "rotate" /\ token[refresher[o].row].family = fam)]]
  BY DEF RevokeFamily, TokensTypeOK
<1>2. fam \in 1 .. Len(token)
  BY <1>1 DEF LineageOK, TokensTypeOK
<1> HIDE DEF fam
<1>3. ASSUME NEW j \in DOMAIN token
      PROVE  /\ token'[j] \in TokenRow /\ KeepsRow(j)
             /\ token[j].family = fam => token'[j].revoked
  <2>1. token[j] \in TokenRow
    BY DEF TokensTypeOK
  <2>2. token'[j] = IF token[j].family = fam THEN [token[j] EXCEPT !.revoked = TRUE] ELSE token[j]
    BY <1>1
  <2> QED BY <2>1, <2>2 DEF TokenRow, KeepsRow
<1>4. DOMAIN token' = DOMAIN token /\ Len(token') = Len(token) /\ token' \in Seq(TokenRow)
  <2>1. DOMAIN token = 1 .. Len(token) /\ Len(token) \in Nat /\ DOMAIN token' = DOMAIN token
    BY <1>1 DEF TokensTypeOK
  <2>2. token' \in [1 .. Len(token) -> TokenRow]
    BY <1>1, <1>3, <2>1
  <2> QED BY <2>1, <2>2
<1>5. ASSUME NEW o \in Refreshers \ {r}
      PROVE  /\ refresher'[o] \in RefreshState
             /\ refresher'[o].phase = refresher[o].phase /\ refresher'[o].row = refresher[o].row
             /\ refresher'[o].overlapped = refresher[o].overlapped
             /\ refresher[o].late => refresher'[o].late
             /\ refresher[o].phase = "rotate" /\ token[refresher[o].row].family = fam => refresher'[o].late
  <2>1. refresher[o] \in RefreshState
    BY DEF TokensTypeOK
  <2>2. ASSUME NEW l \in BOOLEAN
        PROVE  LET s == [refresher[o] EXCEPT !.late = l]
               IN /\ s \in RefreshState /\ s.phase = refresher[o].phase /\ s.row = refresher[o].row
                  /\ s.overlapped = refresher[o].overlapped /\ s.late = l
    BY <2>1 DEF RefreshState
  <2>3. refresher'[o] = [refresher[o] EXCEPT !.late =
          refresher[o].late \/ (refresher[o].phase = "rotate" /\ token[refresher[o].row].family = fam)]
    BY <1>1
  <2>4. (refresher[o].late \/ (refresher[o].phase = "rotate" /\ token[refresher[o].row].family = fam)) \in BOOLEAN
    OBVIOUS
  <2> QED BY <2>2, <2>3, <2>4, Zenon
<1>6. refresher'[r].phase = "idle" /\ refresher'[r] \in RefreshState
  BY <1>1 DEF NoRefresh, RefreshState
<1>7. TokensTypeOK'
  <2>1. refresher' \in [Refreshers -> RefreshState]
    BY <1>1, <1>5, <1>6
  <2> QED BY <1>4, <1>5, <1>6, <2>1 DEF TokensTypeOK
<1>8. LineageOK'
  <2>1. \A i \in DOMAIN token : token[i].parent # 0 => token[i].parent \in DOMAIN token
    BY DEF LineageOK, TokensTypeOK
  <2> QED BY <1>1, <1>2, <1>3, <1>4, <2>1 DEF LineageOK, KeepsRow
<1>9. RivalsKnow'
  BY <1>3, <1>4, <1>5, <1>6 DEF RivalsKnow, KeepsRow
<1>10. KilledIsLate'
  <2> SUFFICES ASSUME NEW o \in Refreshers, refresher'[o].phase = "rotate",
                      token'[refresher'[o].row].family \in killed'
               PROVE  refresher'[o].late \/ token'[refresher'[o].row].late
    BY DEF KilledIsLate
  <2>1. o # r /\ refresher'[o].row = refresher[o].row /\ refresher[o].phase = "rotate"
    BY <1>5, <1>6
  <2>2. /\ token'[refresher[o].row].family = token[refresher[o].row].family
        /\ token'[refresher[o].row].late = token[refresher[o].row].late
    BY <1>3, <2>1 DEF KeepsRow, TokensTypeOK
  <2>3. CASE token[refresher[o].row].family = fam
    BY <1>5, <2>1, <2>3
  <2>4. CASE token[refresher[o].row].family \in killed
    <3>1. refresher[o].late \/ token[refresher[o].row].late
      BY <2>1, <2>4 DEF KilledIsLate
    <3> QED BY <1>5, <2>1, <2>2, <3>1
  <2> QED BY <1>1, <2>1, <2>2, <2>3, <2>4
<1>11. RotationHolds'
  <2>1. SuccessorsOverlap'
    BY <1>3, <1>4 DEF RotationHolds, SuccessorsOverlap, KeepsRow
  <2>2. KilledFamilyStaysDead'
    BY <1>1, <1>3, <1>4 DEF RotationHolds, KilledFamilyStaysDead, KeepsRow
  <2> QED BY <2>1, <2>2 DEF RotationHolds
<1> QED BY <1>7, <1>8, <1>9, <1>10, <1>11

LEMMA RotateKeeps ==
    ASSUME SessionsInv, NEW r \in Refreshers, Rotate(r)
    PROVE  SessionsInv'
<1> USE DEF SessionsInv
<1> DEFINE i == refresher[r].row
           n == Len(token) + 1
           new == NewRow(token[i].family, i, refresher[r])
           marked == [token EXCEPT ![i].used = TRUE]
<1>1. /\ refresher[r].phase = "rotate" /\ token' = Append(marked, new)
      /\ refresher' = [refresher EXCEPT ![r] = NoRefresh] /\ killed' = killed
  BY DEF Rotate
<1>2. /\ i \in DOMAIN token /\ n \in Nat /\ Len(token) \in Nat /\ DOMAIN token = 1 .. Len(token)
      /\ token[i] \in TokenRow /\ refresher[r] \in RefreshState /\ i \in Nat /\ i # 0
  BY <1>1 DEF TokensTypeOK
<1>3. /\ new \in TokenRow /\ new.family = token[i].family /\ new.parent = i
      /\ new.overlapped = refresher[r].overlapped
      /\ refresher[r].late \/ token[i].late => new.late
  <2>1. token[i].family \in Nat
    BY <1>2 DEF TokenRow
  <2> QED BY <1>2, <2>1, NewRowType
<1>4. marked \in Seq(TokenRow) /\ Len(marked) = Len(token) /\ marked[i].used
  <2>1. marked = [token EXCEPT ![i] = [token[i] EXCEPT !.used = TRUE]]
    BY <1>2
  <2>2. [token[i] EXCEPT !.used = TRUE] \in TokenRow /\ [token[i] EXCEPT !.used = TRUE].used
    BY <1>2 DEF TokenRow
  <2> QED BY <1>2, <2>1, <2>2 DEF TokensTypeOK
<1>5. \A j \in DOMAIN token :
        /\ marked[j].family = token[j].family /\ marked[j].parent = token[j].parent
        /\ marked[j].overlapped = token[j].overlapped /\ marked[j].late = token[j].late
        /\ token[j].used => marked[j].used
        /\ token[j].revoked = marked[j].revoked
  <2> TAKE j \in DOMAIN token
  <2>1. token[j] \in TokenRow
    BY DEF TokensTypeOK
  <2> QED BY <1>2, <2>1 DEF TokenRow
<1> HIDE DEF marked, new
<1>6. /\ token' \in Seq(TokenRow) /\ Len(token') = n /\ DOMAIN token' = 1 .. n /\ token'[n] = new
      /\ \A j \in DOMAIN token : token'[j] = marked[j]
  BY <1>1, <1>2, <1>3, <1>4
<1>7. /\ \A j \in DOMAIN token : KeepsRow(j) /\ token'[j].revoked = token[j].revoked
      /\ token'[i].used
  BY <1>2, <1>4, <1>5, <1>6 DEF KeepsRow
<1>8. \A j \in DOMAIN token' : j = n \/ j \in DOMAIN token
  BY <1>2, <1>6
<1>9. /\ refresher'[r].phase = "idle" /\ refresher' \in [Refreshers -> RefreshState]
      /\ \A o \in Refreshers \ {r} : refresher'[o] = refresher[o]
  BY <1>1 DEF TokensTypeOK, NoRefresh, RefreshState
<1>10. TokensTypeOK'
  BY <1>2, <1>6, <1>9 DEF TokensTypeOK
<1>11. LineageOK'
  <2>1. \A j \in DOMAIN token : token[j].parent # 0 => token[j].parent \in DOMAIN token
    BY <1>2 DEF LineageOK
  <2>2. ASSUME NEW j \in DOMAIN token'
        PROVE  /\ token'[j].family \in 1 .. j /\ token'[j].parent \in 0 .. (j - 1)
               /\ token'[j].parent # 0 => token'[token'[j].parent].used
    <3>1. CASE j = n
      <4>1. token[i].family \in 1 .. i /\ i <= Len(token)
        BY <1>2 DEF LineageOK
      <4> QED BY <1>2, <1>3, <1>6, <1>7, <3>1, <4>1
    <3>2. CASE j \in DOMAIN token
      BY <1>7, <2>1, <3>2 DEF LineageOK, KeepsRow
    <3> QED BY <1>8, <3>1, <3>2
  <2> QED BY <1>1, <1>2, <1>6, <2>2 DEF LineageOK
<1>12. RivalsKnow'
  <2> SUFFICES ASSUME NEW p \in Refreshers, refresher'[p].phase = "rotate"
               PROVE  /\ \A o \in Refreshers \ {p} :
                           refresher'[o].phase = "rotate" /\ refresher'[o].row = refresher'[p].row
                             => refresher'[p].overlapped
                      /\ \A j \in DOMAIN token' : token'[j].parent = refresher'[p].row =>
                           refresher'[p].overlapped /\ token'[j].overlapped
    BY DEF RivalsKnow
  <2>1. p # r /\ refresher'[p] = refresher[p]
    BY <1>9
  <2>2. \A o \in Refreshers \ {p} : refresher'[o].phase = "rotate" =>
          refresher'[o] = refresher[o]
    BY <1>9
  <2>3. ASSUME NEW j \in DOMAIN token', token'[j].parent = refresher'[p].row
        PROVE  refresher'[p].overlapped /\ token'[j].overlapped
    <3>1. CASE j = n
      <4>1. refresher[p].row = refresher[r].row
        BY <1>3, <1>6, <2>1, <2>3, <3>1
      <4>2. refresher[p].overlapped /\ refresher[r].overlapped
        BY <1>1, <2>1, <4>1 DEF RivalsKnow
      <4> QED BY <1>3, <1>6, <2>1, <3>1, <4>2
    <3>2. CASE j \in DOMAIN token
      BY <1>7, <2>1, <2>3, <3>2 DEF RivalsKnow, KeepsRow
    <3> QED BY <1>8, <3>1, <3>2
  <2> QED BY <2>1, <2>2, <2>3 DEF RivalsKnow
<1>13. KilledIsLate'
  BY <1>1, <1>7, <1>9 DEF KilledIsLate, KeepsRow, TokensTypeOK
<1>14. SuccessorsOverlap'
  <2>1. \A j \in DOMAIN token : token[j].parent = i => token[j].overlapped /\ refresher[r].overlapped
    BY <1>1 DEF RivalsKnow
  <2>2. \A j \in DOMAIN token : /\ token'[j].parent = token[j].parent
                                /\ token'[j].overlapped = token[j].overlapped
    BY <1>7 DEF KeepsRow
  <2> QED BY <1>3, <1>6, <1>8, <2>1, <2>2 DEF RotationHolds, SuccessorsOverlap
<1>15. KilledFamilyStaysDead'
  <2>1. token[i].family \in killed => refresher[r].late \/ token[i].late
    BY <1>1 DEF KilledIsLate
  <2>2. \A j \in DOMAIN token : /\ token'[j].family = token[j].family
                                /\ token'[j].late = token[j].late
                                /\ token'[j].revoked = token[j].revoked
    BY <1>7 DEF KeepsRow
  <2> QED BY <1>1, <1>3, <1>6, <1>8, <2>1, <2>2 DEF RotationHolds, KilledFamilyStaysDead
<1> QED BY <1>10, <1>11, <1>12, <1>13, <1>14, <1>15 DEF RotationHolds

LEMMA RefreshFailsKeeps ==
    ASSUME SessionsInv, NEW r \in Refreshers, RefreshFails(r)
    PROVE  SessionsInv'
<1> USE DEF SessionsInv
<1>1. /\ refresher'[r].phase = "idle" /\ refresher' \in [Refreshers -> RefreshState]
      /\ \A o \in Refreshers \ {r} : refresher'[o] = refresher[o]
      /\ UNCHANGED <<token, killed>>
  BY DEF RefreshFails, TokensTypeOK, NoRefresh, RefreshState
<1>2. TokensTypeOK' /\ LineageOK'
  BY <1>1 DEF TokensTypeOK, LineageOK
<1>3. RivalsKnow' /\ KilledIsLate'
  BY <1>1 DEF RivalsKnow, KilledIsLate
<1> QED BY <1>1, <1>2, <1>3 DEF RotationHolds, SuccessorsOverlap, KilledFamilyStaysDead

LEMMA RevocationKeeps ==
    ASSUME SessionsInv, RevokeSessions \/ \E i \in DOMAIN token : Logout(i)
    PROVE  SessionsInv'
<1>1. PICK rows \in SUBSET DOMAIN token :
        token' = [i \in DOMAIN token |-> IF i \in rows THEN [token[i] EXCEPT !.revoked = TRUE] ELSE token[i]]
  <2>1. CASE RevokeSessions
    <3> WITNESS DOMAIN token \in SUBSET DOMAIN token
    <3> QED BY <2>1 DEF RevokeSessions
  <2>2. ASSUME NEW i \in DOMAIN token, Logout(i)
        PROVE  \E rows \in SUBSET DOMAIN token : token' =
                 [j \in DOMAIN token |-> IF j \in rows THEN [token[j] EXCEPT !.revoked = TRUE] ELSE token[j]]
    <3> WITNESS {i} \in SUBSET DOMAIN token
    <3>1. token' = [token EXCEPT ![i] = [token[i] EXCEPT !.revoked = TRUE]]
      BY <2>2 DEF Logout
    <3> QED BY <3>1 DEF SessionsInv, TokensTypeOK
  <2> QED BY <2>1, <2>2
<1>2. \A j \in DOMAIN token : token'[j] \in TokenRow /\ KeepsRow(j)
  <2> TAKE j \in DOMAIN token
  <2>1. token[j] \in TokenRow
    BY DEF SessionsInv, TokensTypeOK
  <2>2. token'[j] = IF j \in rows THEN [token[j] EXCEPT !.revoked = TRUE] ELSE token[j]
    BY <1>1
  <2> QED BY <2>1, <2>2 DEF TokenRow, KeepsRow
<1>3. token' \in Seq(TokenRow) /\ Len(token') = Len(token)
  <2>1. DOMAIN token = 1 .. Len(token) /\ Len(token) \in Nat
    BY DEF SessionsInv, TokensTypeOK
  <2>2. token' \in [1 .. Len(token) -> TokenRow]
    BY <1>1, <1>2, <2>1
  <2> QED BY <2>1, <2>2
<1>4. UNCHANGED <<refresher, killed>>
  BY DEF RevokeSessions, Logout
<1> QED BY <1>2, <1>3, <1>4, MarkingKeeps

(* However many refreshes race, two successors of one refresh token come only from requests
   that overlapped, and a family in which reuse was detected has no live row but those of
   exchanges already under way (refresh, _revoke_family). *)
THEOREM RefreshRotation == SessionsSpec => []RotationHolds
<1>1. SessionsInit => SessionsInv
  <2> SUFFICES ASSUME SessionsInit PROVE SessionsInv
    OBVIOUS
  <2>1. token = <<>> /\ killed = {} /\ refresher = [r \in Refreshers |-> NoRefresh]
    BY DEF SessionsInit
  <2>2. TokensTypeOK
    BY <2>1 DEF TokensTypeOK, NoRefresh, RefreshState
  <2>3. RivalsKnow /\ KilledIsLate
    BY <2>1 DEF RivalsKnow, KilledIsLate, NoRefresh
  <2>4. LineageOK /\ RotationHolds
    BY <2>1 DEF LineageOK, RotationHolds, SuccessorsOverlap, KilledFamilyStaysDead
  <2> QED BY <2>2, <2>3, <2>4 DEF SessionsInv
<1>2. SessionsInv /\ [SessionsNext]_sessionVars => SessionsInv'
  <2> SUFFICES ASSUME SessionsInv, [SessionsNext]_sessionVars PROVE SessionsInv'
    OBVIOUS
  <2>1. CASE UNCHANGED <<token, refresher, killed>>
    BY <2>1 DEF SessionsInv, TokensTypeOK, LineageOK, RivalsKnow, KilledIsLate, RotationHolds,
                SuccessorsOverlap, KilledFamilyStaysDead
  <2>2. CASE Login \/ Confirm \/ Verify
    BY <2>1, <2>2, IssueSessionKeeps DEF Login, Confirm, Verify
  <2>3. CASE \/ \E role \in Roles : CreateUser(role) \/ UpdateUserRole(role)
             \/ \E scope \in {"access", "mfa_pending"} : TokenExpires(scope)
             \/ Enroll \/ DisableMfa \/ DeactivateUser \/ UNCHANGED sessionVars
    BY <2>1, <2>3 DEF CreateUser, UpdateUserRole, TokenExpires, Enroll, DisableMfa, DeactivateUser, sessionVars
  <2>4. CASE \E r \in Refreshers : \/ \E i \in DOMAIN token : RefreshRead(r, i)
                                   \/ RevokeFamily(r) \/ Rotate(r) \/ RefreshFails(r)
    BY <2>4, RefreshReadKeeps, RevokeFamilyKeeps, RotateKeeps, RefreshFailsKeeps
  <2>5. CASE RevokeSessions \/ \E i \in DOMAIN token : Logout(i)
    BY <2>5, RevocationKeeps
  <2> QED BY <2>2, <2>3, <2>4, <2>5 DEF SessionsNext
<1>3. SessionsInv => RotationHolds
  BY DEF SessionsInv
<1> QED BY <1>1, <1>2, <1>3, PTL DEF SessionsSpec

-----------------------------------------------------------------------------
(* TransitKeys: signing keys and stale copies of them *)

KeysTypeOK ==
  /\ vaultKey \in [latest : Nat, min : Nat, rotating : BOOLEAN]
  /\ keyCache \in [Processes -> [keys : SUBSET Nat, min : Nat, latest : Nat, fresh : BOOLEAN]]

(* Vault never archives its latest version, and a copy of the keys that is still
   used is what Vault had at some time: floor and latest version only rise. *)
CopyIsOld ==
  /\ vaultKey.min <= vaultKey.latest
  /\ \A p \in Processes : keyCache[p].fresh =>
       /\ keyCache[p].keys = keyCache[p].min .. keyCache[p].latest
       /\ keyCache[p].latest <= vaultKey.latest
       /\ keyCache[p].min <= vaultKey.min

KeysInv == KeysTypeOK /\ CopyIsOld

LEMMA FetchedIsOld ==
    ASSUME KeysInv
    PROVE  /\ FetchedCache \in [keys : SUBSET Nat, min : Nat, latest : Nat, fresh : BOOLEAN]
           /\ FetchedCache.keys = FetchedCache.min .. FetchedCache.latest
           /\ FetchedCache.latest = vaultKey.latest /\ FetchedCache.min = vaultKey.min
           /\ FetchedCache.fresh
BY DEF FetchedCache, KeysInv, KeysTypeOK

(* A step that only refreshes one copy keeps the invariant. *)
LEMMA RefreshKeeps ==
    ASSUME KeysInv, NEW p \in Processes, vaultKey' = vaultKey,
           \/ keyCache' = [keyCache EXCEPT ![p] = keyCache[p]]
           \/ keyCache' = [keyCache EXCEPT ![p] = FetchedCache]
    PROVE  KeysInv'
<1>1. CASE keyCache' = [keyCache EXCEPT ![p] = keyCache[p]]
  BY <1>1 DEF KeysInv, KeysTypeOK, CopyIsOld
<1>2. CASE keyCache' = [keyCache EXCEPT ![p] = FetchedCache]
  BY <1>2, FetchedIsOld DEF KeysInv, KeysTypeOK, CopyIsOld
<1> QED BY <1>1, <1>2

(* A token that some process can still sign is accepted by every other process, whatever
   the age of either copy of the keys (_get_public_key_cache, decode_access_token, rotate_key). *)
THEOREM TokensAccepted == KeysSpec => []SignedIsAccepted
<1>1. KeysInit => KeysInv
  BY DEF KeysInit, KeysInv, KeysTypeOK, CopyIsOld, ColdCache
<1>2. KeysInv /\ [KeysNext]_keyVars => KeysInv'
  <2> SUFFICES ASSUME KeysInv, [KeysNext]_keyVars PROVE KeysInv'
    OBVIOUS
  <2>1. ASSUME NEW p \in Processes, CreateToken(p) PROVE KeysInv'
    BY <2>1, RefreshKeeps DEF CreateToken, CacheFor
  <2>2. ASSUME NEW p \in Processes, CacheExpires(p) PROVE KeysInv'
    BY <2>2 DEF CacheExpires, KeysInv, KeysTypeOK, CopyIsOld
  <2>3. ASSUME NEW p \in Processes, NEW kid \in 1 .. MaxKeys, CheckToken(p, kid) PROVE KeysInv'
    BY <2>3, RefreshKeeps DEF CheckToken, PublicKeyCache
  <2>4. CASE RotateKey
    <3>1. /\ vaultKey' \in [latest : Nat, min : Nat, rotating : BOOLEAN] /\ keyCache' = keyCache
          /\ vaultKey'.latest = vaultKey.latest + 1 /\ vaultKey'.min = vaultKey.min
      <4>1. vaultKey' = [latest |-> vaultKey.latest + 1, min |-> vaultKey.min, rotating |-> TRUE]
        BY <2>4 DEF RotateKey, KeysInv, KeysTypeOK
      <4>2. vaultKey.latest + 1 \in Nat /\ vaultKey.min \in Nat
        BY DEF KeysInv, KeysTypeOK
      <4>3. keyCache' = keyCache
        BY <2>4 DEF RotateKey
      <4> QED BY <4>1, <4>2, <4>3
    <3> QED BY <3>1 DEF KeysInv, KeysTypeOK, CopyIsOld
  <2>5. CASE RaiseFloor
    <3>1. /\ vaultKey' \in [latest : Nat, min : Nat, rotating : BOOLEAN] /\ keyCache' = keyCache
          /\ vaultKey'.latest = vaultKey.latest /\ vaultKey'.min = vaultKey.latest
      BY <2>5 DEF RaiseFloor, KeysInv, KeysTypeOK
    <3> QED BY <3>1 DEF KeysInv, KeysTypeOK, CopyIsOld
  <2>6. CASE UNCHANGED keyVars
    BY <2>6 DEF keyVars, KeysInv, KeysTypeOK, CopyIsOld
  <2> QED BY <2>1, <2>2, <2>3, <2>4, <2>5, <2>6 DEF KeysNext
<1>3. KeysInv => SignedIsAccepted
  <2> SUFFICES ASSUME KeysInv, NEW p \in Processes, NEW q \in Processes, Signs(p)
               PROVE  DecodeAccepts(q, CacheFor(p).latest)
    BY DEF SignedIsAccepted
  <2> DEFINE kid == CacheFor(p).latest
  <2>1. kid \in vaultKey.min .. vaultKey.latest
    BY FetchedIsOld DEF CacheFor, Signs, KeysInv, KeysTypeOK, CopyIsOld
  <2>2. CASE keyCache[q].fresh /\ kid \in keyCache[q].keys
    BY <2>2 DEF DecodeAccepts, PublicKeyCache, KeysInv, KeysTypeOK, CopyIsOld
  <2>3. CASE ~(keyCache[q].fresh /\ kid \in keyCache[q].keys)
    BY <2>1, <2>3, FetchedIsOld DEF DecodeAccepts, PublicKeyCache
  <2> QED BY <2>2, <2>3
<1> QED BY <1>1, <1>2, <1>3, PTL DEF KeysSpec

-----------------------------------------------------------------------------
(* RiskLimits: dual control without a row lock *)

ChangeRow == [status : {"PENDING", "APPROVED", "REJECTED"}, stager : RiskUsers,
              decider : RiskUsers \cup {"none"}, limit : Nat]

RiskLimitsTypeOK ==
  /\ changes \in Seq(ChangeRow)
  /\ limits \in Seq([req : Nat, by : RiskUsers])
  /\ clerk \in [Clerks -> {NoClerk} \cup [phase : {"confirm", "reject"}, req : Nat, user : RiskUsers]]
  /\ contested \subseteq DOMAIN changes

(* A request that has read a change still has it before it; a confirming one is not
   its stager's. *)
ClerkHasRead ==
  \A c \in Clerks : clerk[c].phase # "idle" =>
    /\ clerk[c].req \in DOMAIN changes
    /\ clerk[c].phase = "confirm" => clerk[c].user # changes[clerk[c].req].stager

(* Two requests that hold the same change are contesting it. *)
SharedIsContested ==
  \A c, d \in Clerks : c # d /\ clerk[c].phase # "idle" /\ clerk[c].req = clerk[d].req =>
    clerk[c].req \in contested

(* What one request alone has read is still pending. *)
UncontestedIsPending ==
  \A c \in Clerks : clerk[c].phase # "idle" /\ clerk[c].req \notin contested =>
    changes[clerk[c].req].status = "PENDING"

LimitsHaveRows == \A l \in DOMAIN limits : limits[l].req \in DOMAIN changes

RiskLimitsInv ==
  /\ RiskLimitsTypeOK /\ ClerkHasRead /\ SharedIsContested /\ UncontestedIsPending
  /\ LimitsHaveRows /\ LimitsUnderDualControl

LEMMA SeqUpdate ==
    ASSUME NEW S, NEW s \in Seq(S), NEW i \in DOMAIN s, NEW x \in S, NEW t,
           t = [s EXCEPT ![i] = x]
    PROVE  /\ t \in Seq(S) /\ Len(t) = Len(s) /\ DOMAIN t = DOMAIN s /\ t[i] = x
           /\ \A j \in DOMAIN s \ {i} : t[j] = s[j]
OBVIOUS

LEMMA StageChangeKeeps ==
    ASSUME RiskLimitsInv, NEW u \in RiskUsers, StageChange(u)
    PROVE  RiskLimitsInv'
<1> USE DEF RiskLimitsInv, StageChange
<1> DEFINE row == [status |-> "PENDING", stager |-> u, decider |-> "none", limit |-> 0]
<1>1. row \in ChangeRow
  BY DEF ChangeRow
<1>2. RiskLimitsTypeOK'
  <2>1. changes' \in Seq(ChangeRow) /\ DOMAIN changes \subseteq DOMAIN changes'
    BY <1>1 DEF RiskLimitsTypeOK
  <2> QED BY <2>1 DEF RiskLimitsTypeOK
<1>3. \A r \in DOMAIN changes : r \in DOMAIN changes' /\ changes'[r] = changes[r]
  BY <1>1 DEF RiskLimitsTypeOK
<1>4. ClerkHasRead' /\ SharedIsContested' /\ UncontestedIsPending'
  BY <1>3 DEF ClerkHasRead, SharedIsContested, UncontestedIsPending
<1>5. LimitsHaveRows' /\ LimitsUnderDualControl'
  BY <1>3 DEF LimitsHaveRows, LimitsUnderDualControl
<1> QED BY <1>2, <1>4, <1>5

LEMMA LoadChangeKeeps ==
    ASSUME RiskLimitsInv, NEW u \in RiskUsers, NEW c \in Clerks, NEW r \in DOMAIN changes,
           LoadChange(c, r, u)
    PROVE  RiskLimitsInv'
<1> USE DEF RiskLimitsInv
<1>0. r \in Nat
  BY DEF RiskLimitsTypeOK
<1>1. /\ changes' = changes /\ limits' = limits
      /\ contested' = contested \cup {q \in {r} : \E d \in Clerks \ {c} : clerk[d].req = q}
      /\ changes[r].status = "PENDING"
  BY DEF LoadChange, IsPending
<1>2. PICK ph \in {"confirm", "reject"} :
        /\ clerk' = [clerk EXCEPT ![c] = [phase |-> ph, req |-> r, user |-> u]]
        /\ ph = "confirm" => u # changes[r].stager
  BY DEF LoadChange
<1>3. RiskLimitsTypeOK'
  BY <1>0, <1>1, <1>2 DEF RiskLimitsTypeOK
<1>4. /\ clerk'[c] = [phase |-> ph, req |-> r, user |-> u]
      /\ \A d \in Clerks \ {c} : clerk'[d] = clerk[d]
  BY <1>2 DEF RiskLimitsTypeOK
<1>5. ClerkHasRead'
  BY <1>1, <1>2, <1>4 DEF ClerkHasRead
<1>6. SharedIsContested'
  BY <1>1, <1>4 DEF SharedIsContested
<1>7. UncontestedIsPending'
  BY <1>1, <1>4 DEF UncontestedIsPending
<1>8. LimitsHaveRows' /\ LimitsUnderDualControl'
  BY <1>1 DEF LimitsHaveRows, LimitsUnderDualControl
<1> QED BY <1>3, <1>5, <1>6, <1>7, <1>8

(* A decision writes the row of its change, whose stager it leaves. *)
LEMMA DecisionWrites ==
    ASSUME RiskLimitsInv, NEW c \in Clerks, ConfirmChange(c) \/ RejectChange(c)
    PROVE  /\ clerk[c].phase # "idle" /\ clerk[c].req \in DOMAIN changes
           /\ changes' \in Seq(ChangeRow) /\ DOMAIN changes' = DOMAIN changes
           /\ \A r \in DOMAIN changes : changes'[r].stager = changes[r].stager
           /\ \A r \in DOMAIN changes \ {clerk[c].req} : changes'[r] = changes[r]
           /\ clerk' = [clerk EXCEPT ![c] = NoClerk] /\ contested' = contested
           /\ ClerkHasRead' /\ SharedIsContested' /\ UncontestedIsPending'
<1> DEFINE r == clerk[c].req
<1> USE DEF RiskLimitsInv
<1>1. /\ clerk[c].phase \in {"confirm", "reject"} /\ r \in DOMAIN changes
      /\ clerk[c].user \in RiskUsers
  <2>1. clerk[c].phase \in {"confirm", "reject"}
    BY DEF ConfirmChange, RejectChange
  <2> QED BY <2>1 DEF ClerkHasRead, RiskLimitsTypeOK, NoClerk
<1>2. changes[r] \in ChangeRow /\ Len(limits) + 1 \in Nat /\ r \in DOMAIN changes
  BY <1>1 DEF RiskLimitsTypeOK
<1>3. /\ DOMAIN changes' = DOMAIN changes /\ changes'[r] \in ChangeRow
      /\ changes'[r].stager = changes[r].stager /\ changes' \in Seq(ChangeRow)
      /\ \A q \in DOMAIN changes \ {r} : changes'[q] = changes[q]
  <2>1. CASE ConfirmChange(c)
    <3>1. changes' = [changes EXCEPT ![r] = [changes[r] EXCEPT !.status = "APPROVED",
                        !.decider = clerk[c].user, !.limit = Len(limits) + 1]]
      BY <1>2, <2>1 DEF ConfirmChange, RiskLimitsTypeOK
    <3>2. [changes[r] EXCEPT !.status = "APPROVED", !.decider = clerk[c].user,
                             !.limit = Len(limits) + 1] \in ChangeRow
      BY <1>1, <1>2 DEF ChangeRow
    <3>3. changes'[r] \in ChangeRow /\ changes'[r].stager = changes[r].stager
      BY <1>2, <3>1, <3>2 DEF RiskLimitsTypeOK, ChangeRow
    <3> QED BY <1>2, <3>1, <3>2, <3>3, SeqUpdate DEF RiskLimitsTypeOK
  <2>2. CASE RejectChange(c)
    <3>1. changes' = [changes EXCEPT ![r] = [changes[r] EXCEPT !.status = "REJECTED",
                        !.decider = clerk[c].user]]
      BY <1>2, <2>2 DEF RejectChange, RiskLimitsTypeOK
    <3>2. [changes[r] EXCEPT !.status = "REJECTED", !.decider = clerk[c].user] \in ChangeRow
      BY <1>1, <1>2 DEF ChangeRow
    <3>3. changes'[r] \in ChangeRow /\ changes'[r].stager = changes[r].stager
      BY <1>2, <3>1, <3>2 DEF RiskLimitsTypeOK, ChangeRow
    <3> QED BY <1>2, <3>1, <3>2, <3>3, SeqUpdate DEF RiskLimitsTypeOK
  <2> QED BY <2>1, <2>2
<1>4. /\ changes' \in Seq(ChangeRow) /\ DOMAIN changes' = DOMAIN changes
      /\ \A q \in DOMAIN changes : changes'[q].stager = changes[q].stager
      /\ \A q \in DOMAIN changes \ {r} : changes'[q] = changes[q]
  BY <1>3
<1>5. clerk' = [clerk EXCEPT ![c] = NoClerk] /\ contested' = contested
  BY DEF ConfirmChange, RejectChange
<1>6. clerk'[c].phase = "idle" /\ clerk'[c].req = 0 /\ \A d \in Clerks \ {c} : clerk'[d] = clerk[d]
  BY <1>5 DEF RiskLimitsTypeOK, NoClerk
<1>7. ClerkHasRead'
  BY <1>4, <1>6 DEF ClerkHasRead
<1>8. SharedIsContested'
  <2>1. 0 \notin DOMAIN changes
    BY DEF RiskLimitsTypeOK
  <2> QED BY <2>1, <1>5, <1>6 DEF SharedIsContested, ClerkHasRead
<1>9. UncontestedIsPending'
  BY <1>1, <1>4, <1>5, <1>6 DEF UncontestedIsPending, SharedIsContested, ClerkHasRead
<1> QED BY <1>1, <1>4, <1>5, <1>7, <1>8, <1>9

LEMMA ConfirmChangeKeeps ==
    ASSUME RiskLimitsInv, NEW c \in Clerks, ConfirmChange(c)
    PROVE  RiskLimitsInv'
<1> DEFINE r == clerk[c].req
<1> USE DEF RiskLimitsInv
<1>1. /\ r \in DOMAIN changes /\ changes' \in Seq(ChangeRow) /\ DOMAIN changes' = DOMAIN changes
      /\ \A q \in DOMAIN changes : changes'[q].stager = changes[q].stager
      /\ \A q \in DOMAIN changes \ {r} : changes'[q] = changes[q]
      /\ clerk' = [clerk EXCEPT ![c] = NoClerk] /\ contested' = contested
      /\ ClerkHasRead' /\ SharedIsContested' /\ UncontestedIsPending'
  BY DecisionWrites
<1>2. /\ clerk[c].phase = "confirm" /\ limits' = Append(limits, [req |-> r, by |-> clerk[c].user])
      /\ clerk[c].user \in RiskUsers /\ clerk[c].user # changes[r].stager
      /\ r \in Nat
  BY DEF ConfirmChange, ClerkHasRead, RiskLimitsTypeOK, NoClerk
<1>3. RiskLimitsTypeOK'
  BY <1>1, <1>2 DEF RiskLimitsTypeOK
<1>4. /\ DOMAIN limits' = DOMAIN limits \cup {Len(limits) + 1}
      /\ limits'[Len(limits) + 1] = [req |-> r, by |-> clerk[c].user]
      /\ \A l \in DOMAIN limits : limits'[l] = limits[l]
  BY <1>2 DEF RiskLimitsTypeOK
<1>5. LimitsHaveRows'
  BY <1>1, <1>4 DEF LimitsHaveRows
<1>6. changes'[r].status = "APPROVED"
  <2>1. changes[r] \in ChangeRow
    BY <1>1 DEF RiskLimitsTypeOK
  <2> QED BY <1>1, <2>1 DEF ConfirmChange, RiskLimitsTypeOK, ChangeRow
<1>7. r \notin contested => \A l \in DOMAIN limits : limits[l].req # r
  BY <1>2 DEF UncontestedIsPending, LimitsUnderDualControl
<1>8. LimitsUnderDualControl'
  <2>1. \A l \in DOMAIN limits' : limits'[l].by # changes'[limits'[l].req].stager
    BY <1>1, <1>2, <1>4 DEF LimitsUnderDualControl, LimitsHaveRows
  <2>2. ASSUME NEW k \in DOMAIN limits', NEW l \in DOMAIN limits', limits'[k].req \notin contested
        PROVE  /\ changes'[limits'[k].req].status = "APPROVED"
               /\ limits'[k].req = limits'[l].req => k = l
    <3>1. changes'[limits'[k].req].status = "APPROVED"
      BY <1>1, <1>4, <1>6, <2>2 DEF LimitsUnderDualControl, LimitsHaveRows
    <3>2. limits'[k].req = limits'[l].req => k = l
      BY <1>4, <1>7, <2>2 DEF LimitsUnderDualControl
    <3> QED BY <3>1, <3>2
  <2> QED BY <1>1, <2>1, <2>2 DEF LimitsUnderDualControl
<1> QED BY <1>1, <1>3, <1>5, <1>8

LEMMA RejectChangeKeeps ==
    ASSUME RiskLimitsInv, NEW c \in Clerks, RejectChange(c)
    PROVE  RiskLimitsInv'
<1> DEFINE r == clerk[c].req
<1> USE DEF RiskLimitsInv
<1>1. /\ r \in DOMAIN changes /\ changes' \in Seq(ChangeRow) /\ DOMAIN changes' = DOMAIN changes
      /\ \A q \in DOMAIN changes : changes'[q].stager = changes[q].stager
      /\ \A q \in DOMAIN changes \ {r} : changes'[q] = changes[q]
      /\ clerk' = [clerk EXCEPT ![c] = NoClerk] /\ contested' = contested
      /\ ClerkHasRead' /\ SharedIsContested' /\ UncontestedIsPending' /\ clerk[c].phase # "idle"
      /\ limits' = limits
  BY DecisionWrites DEF RejectChange
<1>2. RiskLimitsTypeOK'
  BY <1>1 DEF RiskLimitsTypeOK
<1>3. r \notin contested => \A l \in DOMAIN limits : limits[l].req # r
  BY <1>1 DEF UncontestedIsPending, LimitsUnderDualControl
<1>4. LimitsHaveRows' /\ LimitsUnderDualControl'
  BY <1>1, <1>3 DEF LimitsHaveRows, LimitsUnderDualControl
<1> QED BY <1>1, <1>2, <1>4

(* No limit takes effect on its stager's own word, and none twice or after a rejection
   unless two requests had read the pending change together (confirm and reject of a
   risk-limit change). *)
THEOREM DualControl == RiskLimitsSpec => []LimitsUnderDualControl
<1>1. RiskLimitsInit => RiskLimitsInv
  <2> SUFFICES ASSUME RiskLimitsInit PROVE RiskLimitsInv
    OBVIOUS
  <2> USE DEF RiskLimitsInit
  <2>1. RiskLimitsTypeOK /\ LimitsHaveRows /\ LimitsUnderDualControl
    BY DEF RiskLimitsTypeOK, LimitsHaveRows, LimitsUnderDualControl
  <2>2. ClerkHasRead /\ SharedIsContested /\ UncontestedIsPending
    BY DEF NoClerk, ClerkHasRead, SharedIsContested, UncontestedIsPending
  <2> QED BY <2>1, <2>2 DEF RiskLimitsInv
<1>2. RiskLimitsInv /\ [RiskLimitsNext]_riskLimitVars => RiskLimitsInv'
  <2>1. CASE RiskLimitsNext
    BY <2>1, StageChangeKeeps, LoadChangeKeeps, ConfirmChangeKeeps, RejectChangeKeeps
       DEF RiskLimitsNext
  <2>2. CASE UNCHANGED riskLimitVars
    BY <2>2 DEF riskLimitVars, RiskLimitsInv, RiskLimitsTypeOK, ClerkHasRead, SharedIsContested,
                UncontestedIsPending, LimitsHaveRows, LimitsUnderDualControl
  <2> QED BY <2>1, <2>2
<1>3. RiskLimitsInv => LimitsUnderDualControl
  BY DEF RiskLimitsInv
<1> QED BY <1>1, <1>2, <1>3, PTL DEF RiskLimitsSpec

-----------------------------------------------------------------------------
(* PromptRegistry: the active prompt version *)

(* The pair's rows and its line of registry.yaml, with one active row. *)
PromptInv ==
  /\ prompts \in [versions : {prompts.versions}, active : {prompts.active}, file : {prompts.file}]
  /\ IsFiniteSet(prompts.active) /\ ExactlyOneActivePrompt

LEMMA FlipLeavesOne ==
    ASSUME PromptInv, NEW op, OneActiveIndex(Flipped(op))
    PROVE  IsFiniteSet(Flipped(op)) /\ Cardinality(Flipped(op)) = 1
<1>1. CASE op.target \in op.active
  BY <1>1 DEF Flipped, PromptInv, ExactlyOneActivePrompt
<1>2. CASE op.target \notin op.active
  <2>1. Flipped(op) = (prompts.active \ op.active) \cup {op.target}
    BY <1>2 DEF Flipped
  <2>2. IsFiniteSet(Flipped(op))
    <3>1. IsFiniteSet(prompts.active \ op.active)
      BY FS_Difference DEF PromptInv
    <3>2. IsFiniteSet({op.target})
      BY FS_Singleton
    <3> QED BY <2>1, <3>1, <3>2, FS_Union
  <2>3. Cardinality(Flipped(op)) \in Nat /\ Cardinality(Flipped(op)) # 0
    BY <2>1, <2>2, FS_CardinalityType, FS_EmptySet
  <2> QED BY <2>2, <2>3 DEF OneActiveIndex
<1> QED BY <1>1, <1>2

(* Activations, rollbacks and file swaps that overlap leave exactly one active version: the
   unique index stops a second one, and no flip ends with none (activate, rollback). *)
THEOREM OneActivePrompt == PromptSpec => []ExactlyOneActivePrompt
<1>1. PromptInit => PromptInv
  BY FS_Singleton DEF PromptInit, PromptInv, ExactlyOneActivePrompt
<1>2. PromptInv /\ [PromptNext]_promptVars => PromptInv'
  <2> SUFFICES ASSUME PromptInv, [PromptNext]_promptVars PROVE PromptInv'
    OBVIOUS
  <2>1. CASE UNCHANGED prompts
    BY <2>1 DEF PromptInv, ExactlyOneActivePrompt
  <2>2. ASSUME NEW a \in Admins, ActivateVersion(a) PROVE PromptInv'
    <3>1. CASE OneActiveIndex(Flipped(admin[a]))
      <4>1. prompts' = [prompts EXCEPT !.active = Flipped(admin[a])]
        BY <2>2, <3>1 DEF ActivateVersion
      <4>2. prompts'.active = Flipped(admin[a])
        BY <4>1 DEF PromptInv
      <4>3. prompts' \in [versions : {prompts'.versions}, active : {prompts'.active}, file : {prompts'.file}]
        BY <4>1 DEF PromptInv
      <4> QED BY <3>1, <4>2, <4>3, FlipLeavesOne DEF PromptInv, ExactlyOneActivePrompt
    <3>2. CASE ~OneActiveIndex(Flipped(admin[a]))
      BY <2>1, <2>2, <3>2 DEF ActivateVersion
    <3> QED BY <3>1, <3>2
  <2>3. ASSUME NEW a \in Admins, CreatePromptVersion(a) PROVE PromptInv'
    <3>1. /\ prompts'.active = prompts.active
          /\ prompts' \in [versions : {prompts'.versions}, active : {prompts'.active}, file : {prompts'.file}]
      BY <2>3 DEF CreatePromptVersion, PromptInv
    <3> QED BY <3>1 DEF PromptInv, ExactlyOneActivePrompt
  <2>4. ASSUME NEW a \in Admins, NEW v \in FileVersions, SetActiveVersion(a, v) PROVE PromptInv'
    <3>1. /\ prompts'.active = prompts.active
          /\ prompts' \in [versions : {prompts'.versions}, active : {prompts'.active}, file : {prompts'.file}]
      BY <2>4 DEF SetActiveVersion, PromptInv
    <3> QED BY <3>1 DEF PromptInv, ExactlyOneActivePrompt
  <2>5. ASSUME NEW a \in Admins,
               ReadVersions(a) \/ RollbackPick(a) \/ RollbackReads(a) \/ CreateReads(a)
        PROVE  PromptInv'
    BY <2>1, <2>5 DEF ReadVersions, RollbackPick, RollbackReads, CreateReads
  <2>6. CASE AgentRuns \/ (\E to \in {"on", "off"} : SetAgentEnabled(to)) \/ UNCHANGED promptVars
    BY <2>1, <2>6 DEF AgentRuns, SetAgentEnabled, promptVars
  <2> QED BY <2>2, <2>3, <2>4, <2>5, <2>6 DEF PromptNext
<1>3. PromptInv => ExactlyOneActivePrompt
  BY DEF PromptInv
<1> QED BY <1>1, <1>2, <1>3, PTL DEF PromptSpec

-----------------------------------------------------------------------------
(* SkillCatalog: memory and rows of the skill registry *)

SkillRequest == [proc : SkillProcs, skill : Skills, want : {"on", "off"}, step : {"persist", "unregister"}]

SkillTypeOK ==
  /\ registry \in [SkillProcs -> [Skills -> {"unborn", "on", "off", "absent"}]]
  /\ skillRow \in [Skills -> {"none", "on", "off"}]
  /\ skillReq \in [SkillAdmins -> {NoRequest} \cup SkillRequest]
  /\ excused \subseteq SkillProcs \X Skills

Busy(a, p, s) == skillReq[a].step # "idle" /\ skillReq[a].proc = p /\ skillReq[a].skill = s

(* Before a process has its registry only deletions are under way in it. *)
UnbornOnlyDeleted ==
  \A a \in SkillAdmins : skillReq[a].step = "persist" =>
    registry[skillReq[a].proc][skillReq[a].skill] # "unborn"

(* A request that will write the row of a skill not excused has set its process's memory to
   what it will write, and is the process's only request for that skill. *)
WriterIsAlone ==
  \A a \in SkillAdmins, p \in SkillProcs, s \in Skills :
    Busy(a, p, s) /\ skillReq[a].step = "persist" /\ <<p, s>> \notin excused =>
      /\ registry[p][s] = skillReq[a].want
      /\ \A b \in SkillAdmins \ {a} : ~Busy(b, p, s)

(* What DisabledSkillsDoNotRun says, whoever calls. *)
OffIsNotOn ==
  \A p \in SkillProcs, s \in Skills : registry[p][s] = "on" /\ skillRow[s] = "off" =>
    <<p, s>> \in excused \/ \E a \in SkillAdmins : Busy(a, p, s)

SkillInv == SkillTypeOK /\ UnbornOnlyDeleted /\ WriterIsAlone /\ OffIsNotOn

LEMMA Requesting ==
    ASSUME SkillTypeOK, NEW a \in SkillAdmins
    PROVE  /\ skillReq[a].step # "idle" => skillReq[a] \in SkillRequest
           /\ skillReq[a].step \in {"idle", "persist", "unregister"}
           /\ NoRequest.step = "idle"
BY DEF SkillTypeOK, NoRequest, SkillRequest

LEMMA BootRegistryKeeps ==
    ASSUME SkillInv, NEW p \in SkillProcs, BootRegistry(p)
    PROVE  SkillInv'
<1> USE DEF SkillInv
<1>1. /\ \A s \in Skills : registry[p][s] = "unborn"
      /\ skillReq' = skillReq
  BY DEF BootRegistry, Booted
<1>2. \A a \in SkillAdmins, s \in Skills : Busy(a, p, s) => skillReq[a].step # "persist"
  BY <1>1 DEF UnbornOnlyDeleted, Busy
<1>3. /\ registry' \in [SkillProcs -> [Skills -> {"unborn", "on", "off", "absent"}]]
      /\ \A q \in SkillProcs \ {p} : registry'[q] = registry[q]
      /\ \A s \in Skills : registry'[p][s] # "unborn"
      /\ skillRow' \in [Skills -> {"none", "on", "off"}]
      /\ excused' \subseteq SkillProcs \X Skills
      /\ \A q \in SkillProcs \ {p}, s \in Skills : <<q, s>> \in excused => <<q, s>> \in excused'
      /\ \A s \in Skills : skillRow'[s] = "off" => skillRow[s] = "off"
      /\ \A s \in Skills : <<p, s>> \in excused' \/ registry'[p][s] = skillRow'[s]
  <2>1. CASE /\ skillRow' = [s \in Skills |-> IF skillRow[s] = "none" THEN "on" ELSE skillRow[s]]
             /\ registry' = [registry EXCEPT ![p] = SyncedState(skillRow')]
             /\ excused' = excused \ ({p} \X Skills)
    <3>1. skillRow' \in [Skills -> {"on", "off"}]
      BY <2>1 DEF SkillTypeOK
    <3>2. registry' = [registry EXCEPT ![p] = skillRow']
      BY <2>1 DEF SyncedState
    <3>3. registry' \in [SkillProcs -> [Skills -> {"unborn", "on", "off", "absent"}]] /\ registry'[p] = skillRow'
      BY <3>1, <3>2 DEF SkillTypeOK
    <3>4. \A s \in Skills : registry'[p][s] # "unborn" /\ (skillRow'[s] = "off" => skillRow[s] = "off")
      BY <2>1, <3>1, <3>3
    <3>5. /\ excused' \subseteq SkillProcs \X Skills
          /\ \A q \in SkillProcs \ {p}, s \in Skills : <<q, s>> \in excused => <<q, s>> \in excused'
      BY <2>1 DEF SkillTypeOK
    <3> QED BY <3>1, <3>2, <3>3, <3>4, <3>5 DEF SkillTypeOK
  <2>2. CASE /\ registry' = [registry EXCEPT ![p] = [s \in Skills |-> "on"]]
             /\ excused' = excused \cup ({p} \X Skills) /\ UNCHANGED skillRow
    BY <2>2 DEF SkillTypeOK
  <2> QED BY <2>1, <2>2 DEF BootRegistry
<1>4. SkillTypeOK'
  BY <1>1, <1>3 DEF SkillTypeOK
<1>5. \A a \in SkillAdmins, q \in SkillProcs, s \in Skills : Busy(a, q, s)' <=> Busy(a, q, s)
  BY <1>1 DEF Busy
<1>6. UnbornOnlyDeleted'
  <2> SUFFICES ASSUME NEW a \in SkillAdmins, skillReq[a].step = "persist"
               PROVE  registry'[skillReq[a].proc][skillReq[a].skill] # "unborn"
    BY <1>1 DEF UnbornOnlyDeleted
  <2>1. skillReq[a].proc \in SkillProcs /\ skillReq[a].skill \in Skills
    BY Requesting DEF SkillRequest
  <2> QED BY <1>3, <2>1 DEF UnbornOnlyDeleted
<1>7. WriterIsAlone'
  <2> SUFFICES ASSUME NEW a \in SkillAdmins, NEW q \in SkillProcs, NEW s \in Skills,
                      Busy(a, q, s), skillReq[a].step = "persist", <<q, s>> \notin excused'
               PROVE  registry'[q][s] = skillReq[a].want /\ \A b \in SkillAdmins \ {a} : ~Busy(b, q, s)
    BY <1>1, <1>5 DEF WriterIsAlone
  <2>1. q # p
    BY <1>2
  <2> QED BY <1>3, <2>1 DEF WriterIsAlone
<1>8. OffIsNotOn'
  <2> SUFFICES ASSUME NEW q \in SkillProcs, NEW s \in Skills, registry'[q][s] = "on", skillRow'[s] = "off", <<q, s>> \notin excused'
               PROVE  \E a \in SkillAdmins : Busy(a, q, s)
    BY <1>5 DEF OffIsNotOn
  <2>1. q # p
    BY <1>3
  <2> QED BY <1>3, <2>1 DEF OffIsNotOn
<1> QED BY <1>4, <1>6, <1>7, <1>8

LEMMA ToggleKeeps ==
    ASSUME SkillInv, NEW a \in SkillAdmins, NEW p \in SkillProcs, NEW s \in Skills, NEW want \in {"on", "off"},
           Toggle(a, p, s, want)
    PROVE  SkillInv'
<1> USE DEF SkillInv
<1> DEFINE new == [proc |-> p, skill |-> s, want |-> want, step |-> "persist"]
<1>1. /\ skillReq[a].step = "idle" /\ registry[p][s] \in {"on", "off"}
      /\ registry' = [registry EXCEPT ![p][s] = want]
      /\ skillReq' = [skillReq EXCEPT ![a] = new]
      /\ excused \subseteq excused' /\ excused' \subseteq SkillProcs \X Skills
      /\ skillRow' = skillRow
  BY DEF Toggle, Overlapping, NoRequest, SkillTypeOK
<1>2. <<p, s>> \notin excused' => \A b \in SkillAdmins \ {a} : ~Busy(b, p, s)
  BY DEF Toggle, Overlapping, Busy
<1>3. SkillTypeOK'
  BY <1>1 DEF SkillTypeOK, SkillRequest
<1>4. /\ skillReq'[a] = new /\ \A b \in SkillAdmins \ {a} : skillReq'[b] = skillReq[b]
      /\ registry'[p][s] = want
      /\ \A q \in SkillProcs, t \in Skills : <<q, t>> # <<p, s>> => registry'[q][t] = registry[q][t]
  BY <1>1 DEF SkillTypeOK
<1>5. /\ \A q \in SkillProcs, t \in Skills : Busy(a, q, t)' <=> q = p /\ t = s
      /\ \A b \in SkillAdmins \ {a}, q \in SkillProcs, t \in Skills : Busy(b, q, t)' <=> Busy(b, q, t)
      /\ \A q \in SkillProcs, t \in Skills : ~Busy(a, q, t)
  BY <1>1, <1>4 DEF Busy
<1>6. UnbornOnlyDeleted'
  <2> SUFFICES ASSUME NEW b \in SkillAdmins, skillReq'[b].step = "persist"
               PROVE  registry'[skillReq'[b].proc][skillReq'[b].skill] # "unborn"
    BY DEF UnbornOnlyDeleted
  <2>1. CASE b = a
    BY <1>4, <2>1
  <2>2. CASE b # a
    <3>1. skillReq[b].proc \in SkillProcs /\ skillReq[b].skill \in Skills /\ skillReq'[b] = skillReq[b]
      BY <1>4, <2>2, Requesting DEF SkillRequest
    <3> QED BY <1>4, <3>1 DEF UnbornOnlyDeleted
  <2> QED BY <2>1, <2>2
<1>7. WriterIsAlone'
  <2> SUFFICES ASSUME NEW b \in SkillAdmins, NEW q \in SkillProcs, NEW t \in Skills,
                      Busy(b, q, t)', skillReq'[b].step = "persist", <<q, t>> \notin excused'
               PROVE  registry'[q][t] = skillReq'[b].want /\ \A d \in SkillAdmins \ {b} : ~Busy(d, q, t)'
    BY DEF WriterIsAlone
  <2>1. CASE b = a
    BY <1>2, <1>4, <1>5, <2>1
  <2>2. CASE b # a
    <3>1. Busy(b, q, t) /\ skillReq'[b] = skillReq[b] /\ skillReq[b].step = "persist" /\ <<q, t>> \notin excused
      BY <1>1, <1>4, <1>5, <2>2
    <3>2. <<q, t>> # <<p, s>>
      BY <1>2, <2>2, <3>1
    <3>3. registry[q][t] = skillReq[b].want /\ \A d \in SkillAdmins \ {b} : ~Busy(d, q, t)
      BY <3>1 DEF WriterIsAlone
    <3>4. \A d \in SkillAdmins \ {b} : ~Busy(d, q, t)'
      BY <1>5, <3>2, <3>3
    <3> QED BY <1>4, <3>1, <3>2, <3>3, <3>4
  <2> QED BY <2>1, <2>2
<1>8. OffIsNotOn'
  <2> SUFFICES ASSUME NEW q \in SkillProcs, NEW t \in Skills, registry'[q][t] = "on", skillRow'[t] = "off", <<q, t>> \notin excused'
               PROVE  \E b \in SkillAdmins : Busy(b, q, t)'
    BY DEF OffIsNotOn
  <2>1. CASE <<q, t>> = <<p, s>>
    BY <1>5, <2>1
  <2>2. CASE <<q, t>> # <<p, s>>
    <3>1. PICK b \in SkillAdmins : Busy(b, q, t)
      BY <1>1, <1>4, <2>2 DEF OffIsNotOn
    <3> QED BY <1>5, <3>1
  <2> QED BY <2>1, <2>2
<1> QED BY <1>3, <1>6, <1>7, <1>8

LEMMA PersistKeeps ==
    ASSUME SkillInv, NEW a \in SkillAdmins, PersistSkillEnabledState(a)
    PROVE  SkillInv'
<1> USE DEF SkillInv
<1>1. PICK s \in Skills, p \in SkillProcs, want \in {"on", "off"} :
        /\ s = skillReq[a].skill /\ p = skillReq[a].proc /\ want = skillReq[a].want
        /\ skillReq[a].step = "persist"
        /\ skillReq' = [skillReq EXCEPT ![a] = NoRequest] /\ registry' = registry
        /\ \/ skillRow' = [skillRow EXCEPT ![s] = want] /\ excused' = excused \cup Elsewhere(p, s)
           \/ excused' = excused \cup {<<p, s>>} /\ skillRow' = skillRow
  BY Requesting DEF PersistSkillEnabledState, SkillRequest
<1>2. /\ \A b \in SkillAdmins \ {a} : skillReq'[b] = skillReq[b]
      /\ skillReq'[a].step = "idle"
  BY <1>1, Requesting DEF SkillTypeOK
<1>3. /\ excused \subseteq excused' /\ excused' \subseteq SkillProcs \X Skills
      /\ \A t \in Skills \ {s} : skillRow'[t] = skillRow[t]
      /\ skillRow' \in [Skills -> {"none", "on", "off"}]
      /\ \/ skillRow'[s] = want /\ \A q \in SkillProcs \ {p} : <<q, s>> \in excused'
         \/ <<p, s>> \in excused' /\ skillRow'[s] = skillRow[s]
  BY <1>1 DEF SkillTypeOK, Elsewhere
<1>4. /\ \A q \in SkillProcs, t \in Skills : ~Busy(a, q, t)'
      /\ \A b \in SkillAdmins \ {a}, q \in SkillProcs, t \in Skills : Busy(b, q, t)' <=> Busy(b, q, t)
      /\ \A q \in SkillProcs, t \in Skills : Busy(a, q, t) <=> q = p /\ t = s
  BY <1>1, <1>2 DEF Busy
<1>5. SkillTypeOK'
  BY <1>1, <1>3 DEF SkillTypeOK
<1>6. UnbornOnlyDeleted'
  BY <1>1, <1>2 DEF UnbornOnlyDeleted
<1>7. WriterIsAlone'
  <2> SUFFICES ASSUME NEW b \in SkillAdmins, NEW q \in SkillProcs, NEW t \in Skills,
                      Busy(b, q, t)', skillReq'[b].step = "persist", <<q, t>> \notin excused'
               PROVE  registry'[q][t] = skillReq'[b].want /\ \A d \in SkillAdmins \ {b} : ~Busy(d, q, t)'
    BY DEF WriterIsAlone
  <2>1. b # a /\ Busy(b, q, t) /\ skillReq'[b] = skillReq[b] /\ <<q, t>> \notin excused
    BY <1>2, <1>3, <1>4
  <2>2. registry[q][t] = skillReq[b].want /\ \A d \in SkillAdmins \ {b} : ~Busy(d, q, t)
    BY <2>1 DEF WriterIsAlone
  <2>3. \A d \in SkillAdmins \ {b} : ~Busy(d, q, t)'
    BY <1>4, <2>2
  <2> QED BY <1>1, <2>1, <2>2, <2>3
<1>8. OffIsNotOn'
  <2> SUFFICES ASSUME NEW q \in SkillProcs, NEW t \in Skills, registry[q][t] = "on", skillRow'[t] = "off", <<q, t>> \notin excused'
               PROVE  \E b \in SkillAdmins : Busy(b, q, t)'
    BY <1>1 DEF OffIsNotOn
  <2>1. <<q, t>> \notin excused
    BY <1>3
  <2>2. CASE t = s /\ q = p
    <3>1. skillRow'[s] = want /\ <<p, s>> \notin excused
      BY <1>3, <2>1, <2>2
    <3>2. registry[p][s] = want
      BY <1>1, <1>4, <3>1 DEF WriterIsAlone
    <3> QED BY <2>2, <3>1, <3>2
  <2>3. CASE t # s \/ q # p
    <3>1. skillRow'[t] = skillRow[t]
      BY <1>3, <2>3
    <3>2. PICK b \in SkillAdmins : Busy(b, q, t)
      BY <2>1, <3>1 DEF OffIsNotOn
    <3>3. b # a
      BY <1>4, <2>3, <3>2
    <3> QED BY <1>4, <3>2, <3>3
  <2> QED BY <2>2, <2>3
<1> QED BY <1>5, <1>6, <1>7, <1>8

LEMMA DeleteSkillKeeps ==
    ASSUME SkillInv, NEW a \in SkillAdmins, NEW p \in SkillProcs, NEW s \in Skills, DeleteSkill(a, p, s)
    PROVE  SkillInv'
<1> USE DEF SkillInv
<1> DEFINE new == [proc |-> p, skill |-> s, want |-> "off", step |-> "unregister"]
<1>1. /\ skillReq[a].step = "idle" /\ skillRow' = [skillRow EXCEPT ![s] = "off"]
      /\ skillReq' = [skillReq EXCEPT ![a] = new]
      /\ excused \subseteq excused' /\ excused' \subseteq SkillProcs \X Skills
      /\ \A q \in SkillProcs \ {p} : <<q, s>> \in excused'
      /\ registry' = registry
  BY DEF DeleteSkill, Overlapping, Elsewhere, NoRequest, SkillTypeOK
<1>2. <<p, s>> \notin excused' => \A b \in SkillAdmins \ {a} : ~Busy(b, p, s)
  BY DEF DeleteSkill, Overlapping, Busy
<1>3. SkillTypeOK'
  BY <1>1 DEF SkillTypeOK, SkillRequest
<1>4. /\ skillReq'[a] = new /\ \A b \in SkillAdmins \ {a} : skillReq'[b] = skillReq[b]
      /\ skillRow'[s] = "off" /\ \A t \in Skills \ {s} : skillRow'[t] = skillRow[t]
  BY <1>1 DEF SkillTypeOK
<1>5. /\ \A q \in SkillProcs, t \in Skills : Busy(a, q, t)' <=> q = p /\ t = s
      /\ \A b \in SkillAdmins \ {a}, q \in SkillProcs, t \in Skills : Busy(b, q, t)' <=> Busy(b, q, t)
      /\ \A q \in SkillProcs, t \in Skills : ~Busy(a, q, t)
  BY <1>1, <1>4 DEF Busy
<1>6. UnbornOnlyDeleted'
  BY <1>1, <1>4 DEF UnbornOnlyDeleted
<1>7. WriterIsAlone'
  <2> SUFFICES ASSUME NEW b \in SkillAdmins, NEW q \in SkillProcs, NEW t \in Skills,
                      Busy(b, q, t)', skillReq'[b].step = "persist", <<q, t>> \notin excused'
               PROVE  registry'[q][t] = skillReq'[b].want /\ \A d \in SkillAdmins \ {b} : ~Busy(d, q, t)'
    BY DEF WriterIsAlone
  <2>1. b # a
    BY <1>4
  <2>2. Busy(b, q, t) /\ skillReq'[b] = skillReq[b] /\ skillReq[b].step = "persist" /\ <<q, t>> \notin excused
    BY <1>1, <1>4, <1>5, <2>1
  <2>3. <<q, t>> # <<p, s>>
    BY <1>2, <2>1, <2>2
  <2>4. registry[q][t] = skillReq[b].want /\ \A d \in SkillAdmins \ {b} : ~Busy(d, q, t)
    BY <2>2 DEF WriterIsAlone
  <2>5. \A d \in SkillAdmins \ {b} : ~Busy(d, q, t)'
    BY <1>5, <2>3, <2>4
  <2> QED BY <1>1, <2>2, <2>4, <2>5
<1>8. OffIsNotOn'
  <2> SUFFICES ASSUME NEW q \in SkillProcs, NEW t \in Skills, registry[q][t] = "on", skillRow'[t] = "off", <<q, t>> \notin excused'
               PROVE  \E b \in SkillAdmins : Busy(b, q, t)'
    BY <1>1 DEF OffIsNotOn
  <2>1. CASE t = s
    BY <1>1, <1>5, <2>1
  <2>2. CASE t # s
    <3>1. PICK b \in SkillAdmins : Busy(b, q, t)
      BY <1>1, <1>4, <2>2 DEF OffIsNotOn
    <3> QED BY <1>5, <3>1
  <2> QED BY <2>1, <2>2
<1> QED BY <1>3, <1>6, <1>7, <1>8

LEMMA UnregisterKeeps ==
    ASSUME SkillInv, NEW a \in SkillAdmins, Unregister(a)
    PROVE  SkillInv'
<1> USE DEF SkillInv
<1>1. PICK s \in Skills, p \in SkillProcs :
        /\ s = skillReq[a].skill /\ p = skillReq[a].proc
        /\ registry' = [registry EXCEPT ![p][s] = "absent"]
        /\ skillReq' = [skillReq EXCEPT ![a] = NoRequest]
        /\ skillRow' = skillRow /\ excused' = excused /\ skillReq[a].step = "unregister"
  BY Requesting DEF Unregister, SkillRequest
<1>2. SkillTypeOK'
  BY <1>1 DEF SkillTypeOK
<1>3. /\ \A b \in SkillAdmins \ {a} : skillReq'[b] = skillReq[b]
      /\ skillReq'[a].step = "idle"
      /\ registry'[p][s] = "absent"
      /\ \A q \in SkillProcs, t \in Skills : <<q, t>> # <<p, s>> => registry'[q][t] = registry[q][t]
  BY <1>1, Requesting DEF SkillTypeOK
<1>4. /\ \A q \in SkillProcs, t \in Skills : ~Busy(a, q, t)'
      /\ \A b \in SkillAdmins \ {a}, q \in SkillProcs, t \in Skills : Busy(b, q, t)' <=> Busy(b, q, t)
      /\ Busy(a, p, s)
      /\ \A q \in SkillProcs, t \in Skills : <<q, t>> # <<p, s>> => ~Busy(a, q, t)
  BY <1>1, <1>3 DEF Busy
<1>5. UnbornOnlyDeleted'
  <2> SUFFICES ASSUME NEW b \in SkillAdmins, skillReq'[b].step = "persist"
               PROVE  registry'[skillReq'[b].proc][skillReq'[b].skill] # "unborn"
    BY DEF UnbornOnlyDeleted
  <2>1. b # a /\ skillReq'[b] = skillReq[b] /\ skillReq[b].proc \in SkillProcs /\ skillReq[b].skill \in Skills
    BY <1>3, Requesting DEF SkillRequest
  <2> QED BY <1>3, <2>1 DEF UnbornOnlyDeleted
<1>6. WriterIsAlone'
  <2> SUFFICES ASSUME NEW b \in SkillAdmins, NEW q \in SkillProcs, NEW t \in Skills,
                      Busy(b, q, t)', skillReq'[b].step = "persist", <<q, t>> \notin excused'
               PROVE  registry'[q][t] = skillReq'[b].want /\ \A d \in SkillAdmins \ {b} : ~Busy(d, q, t)'
    BY DEF WriterIsAlone
  <2>1. b # a /\ Busy(b, q, t) /\ skillReq'[b] = skillReq[b] /\ <<q, t>> \notin excused
    BY <1>1, <1>3, <1>4
  <2>2. registry[q][t] = skillReq[b].want /\ \A d \in SkillAdmins \ {b} : ~Busy(d, q, t)
    BY <2>1 DEF WriterIsAlone
  <2>3. <<q, t>> # <<p, s>>
    BY <1>4, <2>1, <2>2
  <2>4. \A d \in SkillAdmins \ {b} : ~Busy(d, q, t)'
    BY <1>4, <2>2
  <2> QED BY <1>3, <2>1, <2>2, <2>3, <2>4
<1>7. OffIsNotOn'
  <2> SUFFICES ASSUME NEW q \in SkillProcs, NEW t \in Skills, registry'[q][t] = "on", skillRow[t] = "off", <<q, t>> \notin excused
               PROVE  \E b \in SkillAdmins : Busy(b, q, t)'
    BY <1>1 DEF OffIsNotOn
  <2>1. <<q, t>> # <<p, s>> /\ registry[q][t] = "on"
    BY <1>3
  <2>2. PICK b \in SkillAdmins : Busy(b, q, t)
    BY <2>1 DEF OffIsNotOn
  <2> QED BY <1>4, <2>1, <2>2
<1> QED BY <1>2, <1>5, <1>6, <1>7

LEMMA RegistryDiesKeeps ==
    ASSUME SkillInv, NEW p \in SkillProcs, RegistryDies(p)
    PROVE  SkillInv'
<1> USE DEF SkillInv
<1>1. /\ registry' = [registry EXCEPT ![p] = Unborn] /\ skillRow' = skillRow /\ excused' = excused
      /\ \A a \in SkillAdmins : skillReq'[a] = IF skillReq[a].proc = p THEN NoRequest ELSE skillReq[a]
      /\ skillReq' \in [SkillAdmins -> {NoRequest} \cup SkillRequest]
  BY DEF RegistryDies, SkillTypeOK
<1>2. SkillTypeOK' /\ (\A q \in SkillProcs \ {p} : registry'[q] = registry[q]) /\ \A s \in Skills : registry'[p][s] = "unborn"
  BY <1>1 DEF SkillTypeOK, Unborn
<1>3. /\ \A a \in SkillAdmins, s \in Skills : ~Busy(a, p, s)'
      /\ \A a \in SkillAdmins, q \in SkillProcs \ {p}, s \in Skills : Busy(a, q, s)' <=> Busy(a, q, s)
      /\ \A a \in SkillAdmins : skillReq'[a].step # "idle" => skillReq'[a] = skillReq[a] /\ skillReq[a].proc # p
  BY <1>1 DEF Busy, NoRequest
<1>4. UnbornOnlyDeleted'
  <2> SUFFICES ASSUME NEW a \in SkillAdmins, skillReq'[a].step = "persist"
               PROVE  registry'[skillReq'[a].proc][skillReq'[a].skill] # "unborn"
    BY DEF UnbornOnlyDeleted
  <2>1. skillReq'[a] = skillReq[a] /\ skillReq[a].proc \in SkillProcs \ {p}
    BY <1>3, Requesting DEF SkillRequest
  <2> QED BY <1>2, <2>1 DEF UnbornOnlyDeleted
<1>5. WriterIsAlone'
  <2> SUFFICES ASSUME NEW b \in SkillAdmins, NEW q \in SkillProcs, NEW t \in Skills,
                      Busy(b, q, t)', skillReq'[b].step = "persist", <<q, t>> \notin excused'
               PROVE  registry'[q][t] = skillReq'[b].want /\ \A d \in SkillAdmins \ {b} : ~Busy(d, q, t)'
    BY DEF WriterIsAlone
  <2>1. q # p /\ Busy(b, q, t) /\ skillReq'[b] = skillReq[b]
    BY <1>3
  <2> QED BY <1>1, <1>2, <1>3, <2>1 DEF WriterIsAlone
<1>6. OffIsNotOn'
  BY <1>1, <1>2, <1>3 DEF OffIsNotOn
<1> QED BY <1>2, <1>4, <1>5, <1>6

(* In no process is a skill whose row is off executed, with an agent's name or without one,
   across restarts, deletions and any number of processes and administrators, outside the
   windows the code leaves open (enable, disable, delete and get_skill_registry). *)
THEOREM DisabledSkills == SkillSpec => []DisabledSkillsDoNotRun
<1>1. SkillInit => SkillInv
  BY DEF SkillInit, SkillInv, SkillTypeOK, UnbornOnlyDeleted, WriterIsAlone, OffIsNotOn, NoRequest, Busy, Unborn
<1>2. SkillInv /\ [SkillNext]_skillVars => SkillInv'
  <2> SUFFICES ASSUME SkillInv, [SkillNext]_skillVars PROVE SkillInv'
    OBVIOUS
  <2>2. CASE UNCHANGED <<registry, skillRow, skillReq, excused>>
    BY <2>2 DEF SkillInv, SkillTypeOK, UnbornOnlyDeleted, WriterIsAlone, OffIsNotOn, Busy
  <2>3. CASE SetManagerAgent \/ \E g \in grants : RevokeSkillFromAgent(g)
    BY <2>2, <2>3 DEF SetManagerAgent, RevokeSkillFromAgent
  <2>4. CASE \E ag \in SkillAgents, s \in Skills : GrantSkillToAgent(ag, s)
    BY <2>2, <2>4 DEF GrantSkillToAgent
  <2>5. CASE UNCHANGED skillVars
    BY <2>2, <2>5 DEF skillVars
  <2> QED BY <2>3, <2>4, <2>5, BootRegistryKeeps, ToggleKeeps, PersistKeeps, DeleteSkillKeeps,
             UnregisterKeeps, RegistryDiesKeeps DEF SkillNext
<1>3. SkillInv => DisabledSkillsDoNotRun
  <2> SUFFICES ASSUME SkillInv, NEW p \in SkillProcs, NEW s \in Skills, registry[p][s] = "on", skillRow[s] = "off"
               PROVE  <<p, s>> \in excused \/ \E a \in SkillAdmins : skillReq[a].proc = p /\ skillReq[a].skill = s
    BY DEF DisabledSkillsDoNotRun, MayExecute
  <2> QED BY DEF SkillInv, OffIsNotOn, Busy
<1> QED BY <1>1, <1>2, <1>3, PTL DEF SkillSpec
=============================================================================
