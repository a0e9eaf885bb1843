-------------------------- MODULE DevicePartsProofs -------------------------
(***************************************************************************)
(* Proofs about the parts that bound what goes through them: the keys of   *)
(* ShellInput, the outputs of DrmOutputs, the memory and helpers of        *)
(* RuntimeHost, and what SessionGrants lets a session do.                  *)
(***************************************************************************)
EXTENDS Parts, FiniteSetTheorems, NaturalsInduction, TLAPS

\* A step of the parts is a step of each of them, or none.
LEMMA PartSteps ==
  [Next]_vars =>
    /\ [Input!Next]_Input!inputVars
    /\ [Outputs!Next]_Outputs!drmVars
    /\ [Calls!Next]_Calls!hostVars
    /\ [Grants!Next]_Grants!grantVars
BY DEF Next, vars, Others, inputVars, drmVars, hostVars, Input!inputVars, Input!keyVars,
       Outputs!drmVars, Outputs!hardware, Outputs!drm, Outputs!space,
       Calls!hostVars, Calls!memoryVars, Calls!callVars,
       grantVars, Grants!grantVars, Grants!host

-----------------------------------------------------------------------------
(***************************************************************************)
(* ShellInput, for any boards and keys.                                    *)
(***************************************************************************)

\* Where a key is held.
Holders(k) == {b \in Board : <<b, k>> \in pressed}

\* Every press that is held was taken or delivered, a press of Super taken.  A
\* tap is of the last key that went down, and no modifier was held.
KeysInv ==
  /\ suppressed \in [Key -> Nat] /\ forwarded \in [Key -> Nat]
  /\ \A k \in Key : suppressed[k] + forwarded[k] = Cardinality(Holders(k))
  /\ \A k \in Key \cap Super : forwarded[k] = 0
  /\ toApp \cap Super = {}
  /\ superTap # Input!NoKey => superTap \in Super /\ superTap = lastPress /\ bare

LEMMA InitKeys == Input!Init => KeysInv
<1> SUFFICES ASSUME Input!Init PROVE KeysInv
  OBVIOUS
<1>1. \A k : Holders(k) = {}
  BY DEF Input!Init, Holders
<1> QED BY <1>1, FS_EmptySet DEF Input!Init, KeysInv

LEMMA HoldersFinite ==
  ASSUME NEW k
  PROVE  IsFiniteSet(Holders(k)) /\ Cardinality(Holders(k)) \in Nat
BY PartsAssumption, FS_Subset, FS_CardinalityType DEF Holders

\* One more press of a key, and one less.
LEMMA Pressed ==
  ASSUME NEW b \in Board, NEW k \in Key, <<b, k>> \notin pressed,
         pressed' = pressed \cup {<<b, k>>}
  PROVE  /\ Cardinality(Holders(k)') = Cardinality(Holders(k)) + 1
         /\ \A j \in Key : j # k => Holders(j)' = Holders(j)
<1>1. Holders(k)' = Holders(k) \cup {b} /\ b \notin Holders(k)
  BY DEF Holders
<1>2. Cardinality(Holders(k) \cup {b}) = Cardinality(Holders(k)) + 1
  BY <1>1, HoldersFinite, FS_AddElement
<1>3. \A j \in Key : j # k => Holders(j)' = Holders(j)
  BY DEF Holders
<1> QED BY <1>1, <1>2, <1>3

LEMMA Released ==
  ASSUME NEW b \in Board, NEW k \in Key, <<b, k>> \in pressed,
         pressed' = pressed \ {<<b, k>>}
  PROVE  /\ Cardinality(Holders(k)') = Cardinality(Holders(k)) - 1
         /\ Cardinality(Holders(k)) > 0
         /\ \A j \in Key : j # k => Holders(j)' = Holders(j)
<1>1. Holders(k)' = Holders(k) \ {b} /\ b \in Holders(k)
  BY DEF Holders
<1>2. Cardinality(Holders(k) \ {b}) = Cardinality(Holders(k)) - 1
  BY <1>1, HoldersFinite, FS_RemoveElement
<1>3. IsFiniteSet(Holders(k) \ {b}) /\ Cardinality(Holders(k) \ {b}) \in Nat
  BY HoldersFinite, FS_RemoveElement, FS_CardinalityType
<1>4. \A j \in Key : j # k => Holders(j)' = Holders(j)
  BY DEF Holders
<1> QED BY <1>1, <1>2, <1>3, <1>4, HoldersFinite

LEMMA PressStep ==
  ASSUME KeysInv, NEW b \in Board, NEW k \in Key, Input!Press(b, k)
  PROVE  KeysInv'
<1>1. /\ <<b, k>> \notin pressed /\ pressed' = pressed \cup {<<b, k>>}
      /\ lastPress' = k /\ bare' = Input!Bare
  BY DEF Input!Press
<1>2. /\ Cardinality(Holders(k)') = Cardinality(Holders(k)) + 1
      /\ \A j \in Key : j # k => Holders(j)' = Holders(j)
  BY <1>1, Pressed
<1>3. \A j \in Key : Cardinality(Holders(j)) \in Nat
  BY HoldersFinite
<1>4. /\ \/ suppressed' = Input!More(suppressed, k) /\ forwarded' = forwarded
         \/ suppressed' = suppressed /\ forwarded' = Input!More(forwarded, k) /\ k \notin Super
      /\ toApp' = toApp \/ (toApp' = toApp \cup {k} /\ k \notin Super)
  BY DEF Input!Press, Input!Take, Input!Forward
<1>5. /\ suppressed' \in [Key -> Nat] /\ forwarded' \in [Key -> Nat]
      /\ \A j \in Key : j # k => suppressed'[j] = suppressed[j] /\ forwarded'[j] = forwarded[j]
      /\ suppressed'[k] + forwarded'[k] = suppressed[k] + forwarded[k] + 1
      /\ k \in Super => forwarded'[k] = forwarded[k]
  BY <1>4 DEF KeysInv, Input!More
<1>6. \A j \in Key : suppressed'[j] + forwarded'[j] = Cardinality(Holders(j)')
  BY <1>2, <1>5 DEF KeysInv
<1>7. superTap' # Input!NoKey => superTap' \in Super /\ superTap' = lastPress' /\ bare'
  BY <1>1 DEF Input!Press, Input!Take, Input!TapOf
<1>8. \A j \in Key \cap Super : forwarded'[j] = 0
  BY <1>5 DEF KeysInv
<1>9. toApp' \cap Super = {}
  BY <1>4 DEF KeysInv
<1> QED BY <1>5, <1>6, <1>7, <1>8, <1>9 DEF KeysInv

\* Every press of Super was taken, so its release is.
LEMMA ReleaseOf ==
  ASSUME KeysInv, NEW b \in Board, NEW k \in Key, Input!Release(b, k)
  PROVE  /\ <<b, k>> \in pressed /\ pressed' = pressed \ {<<b, k>>}
         /\ UNCHANGED <<lastPress, bare, hasPanel>>
         /\ \/ /\ suppressed' = Input!Less(suppressed, k) /\ forwarded' = forwarded
               /\ suppressed[k] > 0 /\ superTap' = Input!NoKey /\ toApp' = toApp
               /\ kbFocus' # kbFocus => superTap = k
            \/ /\ suppressed' = suppressed /\ forwarded' = Input!Less(forwarded, k)
               /\ forwarded[k] > 0 /\ superTap' = superTap /\ kbFocus' = kbFocus
               /\ toApp' \in {toApp, toApp \cup {k}} /\ k \notin Super
<1>1. <<b, k>> \in pressed /\ pressed' = pressed \ {<<b, k>>} /\ UNCHANGED <<lastPress, bare, hasPanel>>
  BY DEF Input!Release
<1>2. CASE Input!Taken(k)
  BY <1>1, <1>2 DEF Input!Release, Input!Taken
<1>3. CASE ~Input!Taken(k)
  <2>1. /\ suppressed' = suppressed /\ forwarded' = Input!Less(forwarded, k)
        /\ superTap' = superTap /\ kbFocus' = kbFocus
        /\ toApp' \in {toApp, toApp \cup {k}}
    BY <1>3 DEF Input!Release, Input!Forward
  <2>2. suppressed[k] = 0 /\ forwarded[k] > 0
    <3>1. Cardinality(Holders(k)) > 0
      BY <1>1, Released
    <3> QED BY <1>3, <3>1 DEF KeysInv, Input!Taken
  <2>3. k \notin Super
    BY <2>2 DEF KeysInv
  <2> QED BY <1>1, <2>1, <2>2, <2>3
<1> QED BY <1>2, <1>3

LEMMA ReleaseStep ==
  ASSUME KeysInv, NEW b \in Board, NEW k \in Key, Input!Release(b, k)
  PROVE  KeysInv'
<1>1. /\ Cardinality(Holders(k)') = Cardinality(Holders(k)) - 1
      /\ \A j \in Key : j # k => Holders(j)' = Holders(j)
  BY ReleaseOf, Released
<1>2. \A j \in Key : Cardinality(Holders(j)) \in Nat
  BY HoldersFinite
<1>3. \A j \in Key : suppressed[j] \in Nat /\ forwarded[j] \in Nat
  BY DEF KeysInv
<1>4. /\ suppressed' \in [Key -> Nat] /\ forwarded' \in [Key -> Nat]
      /\ \A j \in Key : j # k => suppressed'[j] = suppressed[j] /\ forwarded'[j] = forwarded[j]
      /\ suppressed'[k] + forwarded'[k] = suppressed[k] + forwarded[k] - 1
      /\ k \in Super => forwarded'[k] = forwarded[k]
  <2>1. CASE suppressed' = Input!Less(suppressed, k) /\ suppressed[k] > 0 /\ forwarded' = forwarded
    BY <1>3, <2>1 DEF KeysInv, Input!Less
  <2>2. CASE /\ suppressed' = suppressed /\ forwarded' = Input!Less(forwarded, k)
             /\ forwarded[k] > 0 /\ k \notin Super
    BY <1>3, <2>2 DEF KeysInv, Input!Less
  <2> QED BY <2>1, <2>2, ReleaseOf
<1>5. \A j \in Key : suppressed'[j] + forwarded'[j] = Cardinality(Holders(j)')
  BY <1>1, <1>2, <1>3, <1>4 DEF KeysInv
<1>6. \A j \in Key \cap Super : forwarded'[j] = 0
  BY <1>4 DEF KeysInv
<1>7. toApp' \cap Super = {}
  BY ReleaseOf DEF KeysInv
<1>8. superTap' # Input!NoKey => superTap' \in Super /\ superTap' = lastPress' /\ bare'
  BY ReleaseOf DEF KeysInv
<1> QED BY <1>4, <1>5, <1>6, <1>7, <1>8 DEF KeysInv

LEMMA NextKeys == KeysInv /\ [Input!Next]_Input!inputVars => KeysInv'
<1> SUFFICES ASSUME KeysInv, [Input!Next]_Input!inputVars PROVE KeysInv'
  OBVIOUS
<1>1. CASE \E b \in Board, k \in Key : Input!Press(b, k) \/ Input!Release(b, k)
  BY <1>1, PressStep, ReleaseStep
<1>2. CASE Input!ButtonPress \/ Input!TouchDown
  <2>1. UNCHANGED <<pressed, suppressed, forwarded, toApp>> /\ superTap' = Input!NoKey
    BY <1>2 DEF Input!ButtonPress, Input!TouchDown
  <2> QED BY <2>1 DEF KeysInv, Holders
<1>3. CASE Input!FocusMoves \/ UNCHANGED Input!inputVars
  <2>1. UNCHANGED <<pressed, suppressed, forwarded, toApp, superTap, lastPress, bare>>
    BY <1>3 DEF Input!FocusMoves, Input!inputVars, Input!keyVars
  <2> QED BY <2>1 DEF KeysInv, Holders
<1> QED BY <1>1, <1>2, <1>3 DEF Input!Next

\* Only the end of a tap moves the focus as a key goes up or down.
LEMMA TapStep ==
  ASSUME KeysInv, Input!Next, pressed' # pressed, kbFocus' # kbFocus
  PROVE  /\ lastPress \in Super /\ bare
         /\ \E b \in Board : pressed \ pressed' = {<<b, lastPress>>}
<1>1. PICK b \in Board, k \in Key : Input!Press(b, k) \/ Input!Release(b, k)
  BY DEF Input!Next, Input!ButtonPress, Input!TouchDown, Input!FocusMoves, Input!keyVars
<1>2. Input!Release(b, k)
  BY <1>1 DEF Input!Press
<1>3. superTap = k /\ <<b, k>> \in pressed /\ pressed' = pressed \ {<<b, k>>}
  BY <1>2, ReleaseOf
<1>4. k # Input!NoKey
  BY PartsAssumption
<1>5. k \in Super /\ k = lastPress /\ bare
  BY <1>3, <1>4 DEF KeysInv
<1> QED BY <1>3, <1>5

\* With any boards, any number of keys held on each and focus that moves
\* between a press and its release: the halves of a key go the same way, and
\* only a tap of Super alone moves the focus as a key goes up or down.
THEOREM ShortcutsStayWhole == Spec => ShortcutsAreWhole
<1>1. Init => KeysInv
  BY InitKeys DEF Init
<1>2. KeysInv /\ [Next]_vars => KeysInv'
  BY PartSteps, NextKeys
<1>3. KeysInv => Input!KeysAreWhole
  <2>1. \A S : Input!Cardinality(S) = Cardinality(S)
    BY DEF Input!Cardinality, Cardinality
  <2> QED BY <2>1 DEF KeysInv, Input!KeysAreWhole, Holders
<1> DEFINE Alone == pressed' # pressed /\ kbFocus' # kbFocus =>
                      /\ lastPress \in Super /\ bare
                      /\ \E b \in Board : pressed \ pressed' = {<<b, lastPress>>}
<1>4. KeysInv /\ [Next]_vars => [Alone]_Input!inputVars
  BY PartSteps, TapStep
<1> HIDE DEF Alone
<1>5. Spec => []Input!KeysAreWhole /\ [][Alone]_Input!inputVars
  BY <1>1, <1>2, <1>3, <1>4, PTL DEF Spec
<1> QED BY <1>5 DEF Alone, ShortcutsAreWhole, Input!ShortcutsAreWhole, Input!TapIsAlone

-----------------------------------------------------------------------------
(***************************************************************************)
(* DrmOutputs, for any devices, connectors and CRTCs.                      *)
(***************************************************************************)

OnCrtc(n, s) == n # Outputs!NoOutput /\ \E x \in Crtc : s[x] = n

\* The outputs are those on a CRTC of a device, one each, which the scanner
\* gives to a connector; an output that is made has a number of its own.
OutputsTyped ==
  /\ made \in Nat /\ devices \subseteq Device
  /\ monitors \in [Device -> SUBSET Connector]
  /\ scanner \in [Device -> [Connector -> Crtc \cup {"off", "none"}]]
  /\ surfaces \in [Device -> [Crtc -> Nat]]
  /\ \A d \in Device, x \in Crtc : surfaces[d][x] <= made
  /\ \A d \in Device \ devices : surfaces[d] = Outputs!Blank
OutputsAre == \A n : n \in outputs <=> \E d \in Device : OnCrtc(n, surfaces[d])
Scanned ==
  \A d \in Device, x \in Crtc :
    surfaces[d][x] # Outputs!NoOutput => \E c \in Connector : scanner[d][c] = x
OnOne ==
  \A d, e \in Device, x, y \in Crtc :
    surfaces[d][x] # Outputs!NoOutput /\ surfaces[e][y] = surfaces[d][x] => e = d /\ y = x
OutputsInv == OutputsTyped /\ OutputsAre /\ Scanned /\ OnOne

LEMMA InitOutputs == Outputs!Init => OutputsInv
<1> SUFFICES ASSUME Outputs!Init PROVE OutputsInv
  OBVIOUS
<1>1. \A d \in Device : surfaces[d] = Outputs!Blank
  BY DEF Outputs!Init
<1>2. \A x \in Crtc : Outputs!Blank[x] = 0
  BY DEF Outputs!Blank, Outputs!NoOutput
<1>3. OutputsTyped
  BY <1>1, <1>2 DEF Outputs!Init, OutputsTyped, Outputs!Blank, Outputs!NoOutput, Outputs!Off
<1>4. OutputsAre
  BY <1>1, <1>2 DEF Outputs!Init, OutputsAre, OnCrtc, Outputs!NoOutput
<1> QED BY <1>1, <1>2, <1>3, <1>4 DEF OutputsInv, Scanned, OnOne, Outputs!NoOutput

\* What the surfaces of one device may become.
LEMMA SetUp ==
  ASSUME OutputsInv, NEW d \in Device, NEW n \in Nat,
         NEW s \in [Crtc -> Nat], NEW crtcs \in [Connector -> Crtc \cup {"off", "none"}],
         made' = made + n, devices' = devices \cup {d}, monitors' = monitors,
         scanner' = [scanner EXCEPT ![d] = crtcs], surfaces' = [surfaces EXCEPT ![d] = s],
         \A x \in Crtc : s[x] # Outputs!NoOutput =>
           /\ s[x] = surfaces[d][x] \/ s[x] > made
           /\ s[x] <= made + n /\ \E c \in Connector : crtcs[c] = x,
         \A x, y \in Crtc : s[x] # Outputs!NoOutput /\ s[x] = s[y] => x = y,
         \A k : k \in outputs' <=>
           (k \in outputs /\ ~OnCrtc(k, surfaces[d])) \/ OnCrtc(k, s)
  PROVE  OutputsInv'
<1>1. \A e \in Device : /\ surfaces'[e] = IF e = d THEN s ELSE surfaces[e]
                        /\ scanner'[e] = IF e = d THEN crtcs ELSE scanner[e]
  BY DEF OutputsInv, OutputsTyped
<1>2. \A e \in Device, x \in Crtc : surfaces[e][x] \in Nat /\ surfaces[e][x] <= made /\ s[x] \in Nat
  BY DEF OutputsInv, OutputsTyped
<1>3. made \in Nat /\ Outputs!NoOutput = 0
  BY DEF OutputsInv, OutputsTyped, Outputs!NoOutput
<1>4. OutputsTyped'
  <2>1. made' \in Nat /\ devices' \subseteq Device /\ monitors' \in [Device -> SUBSET Connector]
    BY DEF OutputsInv, OutputsTyped
  <2>2. /\ scanner' \in [Device -> [Connector -> Crtc \cup {"off", "none"}]]
        /\ surfaces' \in [Device -> [Crtc -> Nat]]
    BY DEF OutputsInv, OutputsTyped
  <2>3. ASSUME NEW x \in Crtc PROVE s[x] <= made + n
    <3>1. CASE s[x] = 0
      BY <1>3, <3>1
    <3>2. CASE s[x] # 0
      BY <1>3, <3>2
    <3> QED BY <3>1, <3>2
  <2>4. \A e \in Device, x \in Crtc : surfaces'[e][x] <= made'
    BY <1>1, <1>2, <1>3, <2>3
  <2>5. \A e \in Device \ devices' : surfaces'[e] = Outputs!Blank
    BY <1>1 DEF OutputsInv, OutputsTyped
  <2> QED BY <2>1, <2>2, <2>4, <2>5 DEF OutputsTyped, Outputs!Blank
<1>5. OutputsAre'
  <2>1. ASSUME NEW k
        PROVE  k \in outputs' <=> \E e \in Device : OnCrtc(k, surfaces'[e])
    <3>1. ASSUME k \in outputs, ~OnCrtc(k, surfaces[d])
          PROVE  \E e \in Device : OnCrtc(k, surfaces'[e])
      <4>1. PICK e \in Device : OnCrtc(k, surfaces[e])
        BY <3>1 DEF OutputsInv, OutputsAre
      <4>2. e # d
        BY <3>1, <4>1
      <4> QED BY <1>1, <4>1, <4>2
    <3>2. ASSUME NEW e \in Device, e # d, OnCrtc(k, surfaces[e])
          PROVE  k \in outputs /\ ~OnCrtc(k, surfaces[d])
      <4>1. k \in outputs
        BY <3>2 DEF OutputsInv, OutputsAre
      <4>2. ~OnCrtc(k, surfaces[d])
        BY <3>2 DEF OnCrtc, OutputsInv, OnOne
      <4> QED BY <4>1, <4>2
    <3> QED BY <1>1, <3>1, <3>2
  <2>2. OnCrtc(0, 0) = OnCrtc(0, 0)
    OBVIOUS
  <2> QED BY <2>1 DEF OutputsAre, OnCrtc, Outputs!NoOutput
<1>6. Scanned'
  <2>1. ASSUME NEW e \in Device, NEW x \in Crtc, surfaces'[e][x] # Outputs!NoOutput
        PROVE  \E c \in Connector : scanner'[e][c] = x
    <3>1. CASE e = d
      BY <1>1, <2>1, <3>1
    <3>2. CASE e # d
      BY <1>1, <2>1, <3>2 DEF OutputsInv, Scanned
    <3> QED BY <3>1, <3>2
  <2> QED BY <2>1 DEF Scanned, Outputs!NoOutput
<1>7. OnOne'
  <2>1. ASSUME NEW e \in Device, NEW f \in Device, NEW x \in Crtc, NEW y \in Crtc,
               surfaces'[e][x] # Outputs!NoOutput, surfaces'[f][y] = surfaces'[e][x]
        PROVE  f = e /\ y = x
    <3>1. CASE e = d /\ f = d
      BY <1>1, <2>1, <3>1
    <3>2. CASE e # d /\ f # d
      BY <1>1, <2>1, <3>2 DEF OutputsInv, OnOne
    <3>3. ASSUME NEW g \in Device, g # d, NEW v \in Crtc, NEW w \in Crtc,
                 s[v] # Outputs!NoOutput, surfaces[g][w] = s[v]
          PROVE  FALSE
      <4>1. s[v] = surfaces[d][v] \/ s[v] > made
        BY <3>3
      <4>2. ~(s[v] > made)
        BY <1>2, <1>3, <3>3
      <4> QED BY <3>3, <4>1, <4>2 DEF OutputsInv, OnOne
    <3>4. CASE e = d /\ f # d
      BY <1>1, <2>1, <3>3, <3>4
    <3>5. CASE e # d /\ f = d
      BY <1>1, <2>1, <3>3, <3>5
    <3> QED BY <3>1, <3>2, <3>4, <3>5
  <2> QED BY <2>1 DEF OnOne, Outputs!NoOutput
<1> QED BY <1>4, <1>5, <1>6, <1>7 DEF OutputsInv

\* The numbers given to the connectors lit: each gets one, all are given.
Numbers(lit, m) == [lit -> m + 1 .. m + Cardinality(lit)]

LEMMA NumbersExist ==
  ASSUME NEW lit \in SUBSET Connector, NEW m \in Nat
  PROVE  /\ Cardinality(lit) \in Nat
         /\ \E f \in Numbers(lit, m) : \A b, c \in lit : b # c => f[b] # f[c]
         /\ \A f \in Numbers(lit, m) :
              (\A b, c \in lit : b # c => f[b] # f[c])
                => \A k \in m + 1 .. m + Cardinality(lit) : \E c \in lit : f[c] = k
<1> DEFINE N == m + 1 .. m + Cardinality(lit)
<1>1. IsFiniteSet(lit) /\ Cardinality(lit) \in Nat
  BY PartsAssumption, FS_Subset, FS_CardinalityType
<1>2. IsFiniteSet(N) /\ Cardinality(N) = Cardinality(lit)
  BY <1>1, FS_Interval
<1>3. \E f \in Numbers(lit, m) : \A b, c \in lit : b # c => f[b] # f[c]
  <2>1. ExistsBijection(lit, N)
    BY <1>1, <1>2, FS_SameCardinalityBij
  <2> QED BY <2>1 DEF ExistsBijection, Bijection, Injection, IsInjective, Numbers
<1>4. ASSUME NEW f \in Numbers(lit, m), \A b, c \in lit : b # c => f[b] # f[c]
      PROVE  \A k \in N : \E c \in lit : f[c] = k
  <2>1. f \in Injection(lit, N)
    BY <1>4 DEF Injection, IsInjective, Numbers
  <2>2. f \in Surjection(lit, N)
    BY <1>1, <1>2, <2>1, FS_Injection
  <2> QED BY <2>2 DEF Surjection
<1> QED BY <1>1, <1>3, <1>4

\* What lighting connectors, each on a CRTC of its own, puts on the CRTCs.
LitOn(on, crtcs, lit, n) ==
  /\ on \in [Crtc -> Nat]
  /\ \A x \in Crtc : on[x] # 0 =>
       on[x] \in made + 1 .. made + n /\ \E c \in lit : crtcs[c] = x
  /\ \A x, y \in Crtc : on[x] # 0 /\ on[x] = on[y] => x = y
  /\ \A k \in made + 1 .. made + n : \E x \in Crtc : on[x] = k

LEMMA LitIs ==
  ASSUME made \in Nat, NEW d, NEW lit \in SUBSET Connector,
         NEW crtcs, \A c \in lit : crtcs[c] \in Crtc,
         \A b, c \in lit : crtcs[b] = crtcs[c] => b = c
  PROVE  LitOn(Outputs!Lit(d, crtcs, lit), crtcs, lit, Cardinality(lit))
<1>0. PICK on : on = Outputs!Lit(d, crtcs, lit)
  OBVIOUS
<1> DEFINE N == made + 1 .. made + Cardinality(lit)
           Apart(f) == \A b, c \in lit : b # c => f[b] # f[c]
           number == CHOOSE f \in Numbers(lit, made) : Apart(f)
           Of(x) == CHOOSE c \in lit : crtcs[c] = x
<1>1. /\ Cardinality(lit) \in Nat /\ \E f \in Numbers(lit, made) : Apart(f)
      /\ \A f \in Numbers(lit, made) : Apart(f) => \A k \in N : \E c \in lit : f[c] = k
  BY NumbersExist
<1>2. number \in Numbers(lit, made) /\ Apart(number)
  BY <1>1
<1>3. \A k \in N : \E c \in lit : number[c] = k
  BY <1>1, <1>2
<1>4. on = [x \in Crtc |-> IF \E c \in lit : crtcs[c] = x THEN number[Of(x)] ELSE 0]
  <2>1. Outputs!Cardinality(lit) = Cardinality(lit)
    BY DEF Outputs!Cardinality, Cardinality
  <2> QED BY <1>0, <2>1 DEF Outputs!Lit, Outputs!NoOutput, Numbers
<1>5. \A c \in lit : number[c] \in N /\ number[c] \in Nat /\ number[c] # 0
  BY <1>1, <1>2 DEF Numbers
<1> HIDE DEF number
<1>6. \A x \in Crtc : (\E c \in lit : crtcs[c] = x) => Of(x) \in lit /\ crtcs[Of(x)] = x
  OBVIOUS
<1> HIDE DEF Of
<1>7. \A x \in Crtc : on[x] = IF \E c \in lit : crtcs[c] = x THEN number[Of(x)] ELSE 0
  BY <1>4
<1>8. on \in [Crtc -> Nat]
  <2>1. \A x \in Crtc : on[x] \in Nat
    BY <1>5, <1>6, <1>7
  <2> QED BY <1>4, <2>1
<1>9. \A x \in Crtc : on[x] # 0 =>
        on[x] = number[Of(x)] /\ Of(x) \in lit /\ crtcs[Of(x)] = x
  BY <1>6, <1>7
<1>10. \A x, y \in Crtc : on[x] # 0 /\ on[x] = on[y] => x = y
  <2>1. ASSUME NEW x \in Crtc, NEW y \in Crtc, on[x] # 0, on[x] = on[y]
        PROVE  x = y
    <3>1. Of(x) = Of(y)
      BY <1>2, <1>9, <2>1
    <3> QED BY <1>9, <2>1, <3>1
  <2> QED BY <2>1
<1>11. ASSUME NEW k \in N
       PROVE  \E x \in Crtc : on[x] = k
  <2>1. PICK c \in lit : number[c] = k
    BY <1>3
  <2>2. crtcs[c] \in Crtc
    OBVIOUS
  <2>3. Of(crtcs[c]) = c
    BY <1>6, <2>2
  <2> QED BY <1>7, <2>1, <2>2, <2>3
<1>12. \A x \in Crtc : on[x] # 0 => on[x] \in N /\ \E c \in lit : crtcs[c] = x
  BY <1>5, <1>9
<1> QED BY <1>0, <1>8, <1>10, <1>11, <1>12 DEF LitOn

\* What a scan leaves of the outputs of a device: those of the connectors that
\* keep their monitor, on the CRTC the scanner still gives them.
LEMMA KeptIs ==
  ASSUME OutputsInv, NEW d \in Device, NEW crtcs \in Outputs!Scans(d), NEW unplugged, NEW kept,
         unplugged = {c \in Connector : scanner[d][c] # "off" /\ c \notin monitors[d]},
         kept = Outputs!Removed(d, unplugged),
         NEW x \in Crtc, kept[x] # 0
  PROVE  /\ kept[x] = surfaces[d][x]
         /\ \E c \in Connector : scanner[d][c] = x /\ c \in monitors[d] /\ crtcs[c] = x
<1>1. kept[x] = surfaces[d][x] /\ ~\E c \in unplugged : scanner[d][c] = x
  BY DEF Outputs!Removed, Outputs!NoOutput
<1>2. PICK c \in Connector : scanner[d][c] = x
  BY <1>1 DEF OutputsInv, Scanned, Outputs!NoOutput
<1>3. scanner[d][c] # "off"
  BY <1>2, PartsAssumption
<1>4. c \in monitors[d]
  BY <1>1, <1>2, <1>3
<1>5. crtcs[c] = x
  BY <1>2, <1>4 DEF Outputs!Scans, Outputs!Assigned
<1> QED BY <1>1, <1>2, <1>4, <1>5

\* Every event of one scan is handled, of a device that was there or is new.
LEMMA ChangedStep ==
  ASSUME OutputsInv, NEW d \in Device, NEW was, NEW fresh \in BOOLEAN,
         IF fresh THEN d \notin devices /\ was = Outputs!Off ELSE was = scanner[d],
         Outputs!Changed(d, was, fresh), devices' = devices \cup {d}, monitors' = monitors
  PROVE  OutputsInv'
<1> DEFINE Gone == {c \in Connector : was[c] # "off" /\ c \notin monitors[d]}
           New(crtcs) == {c \in monitors[d] : was[c] = "off" /\ crtcs[c] \in Crtc}
           Kept == IF fresh THEN Outputs!Blank ELSE Outputs!Removed(d, Gone)
<1>1. PICK crtcs \in Outputs!Scans(d) : \E lit \in SUBSET New(crtcs) :
        LET on == Outputs!Lit(d, crtcs, lit)
            n == Outputs!Cardinality(lit)
        IN  /\ scanner' = [scanner EXCEPT ![d] = crtcs]
            /\ surfaces' = [surfaces EXCEPT ![d] =
                 [x \in Crtc |-> IF on[x] # Outputs!NoOutput THEN on[x] ELSE Kept[x]]]
            /\ outputs' = (outputs \ (Outputs!On(d) \ {Kept[x] : x \in Crtc}))
                            \cup made + 1 .. made + n
            /\ made' = made + n
  BY DEF Outputs!Changed
<1>2. PICK lit \in SUBSET New(crtcs) :
        LET on == Outputs!Lit(d, crtcs, lit)
            n == Outputs!Cardinality(lit)
        IN  /\ scanner' = [scanner EXCEPT ![d] = crtcs]
            /\ surfaces' = [surfaces EXCEPT ![d] =
                 [x \in Crtc |-> IF on[x] # Outputs!NoOutput THEN on[x] ELSE Kept[x]]]
            /\ outputs' = (outputs \ (Outputs!On(d) \ {Kept[x] : x \in Crtc}))
                            \cup made + 1 .. made + n
            /\ made' = made + n
  BY <1>1
<1>3. PICK on : on = Outputs!Lit(d, crtcs, lit)
  OBVIOUS
<1>4. PICK n : n = Cardinality(lit)
  OBVIOUS
<1>5. PICK kept : kept = Kept
  OBVIOUS
<1>6. PICK s : s = [x \in Crtc |-> IF on[x] # 0 THEN on[x] ELSE kept[x]]
  OBVIOUS
<1>7. /\ scanner' = [scanner EXCEPT ![d] = crtcs]
      /\ surfaces' = [surfaces EXCEPT ![d] = s]
      /\ outputs' = (outputs \ (Outputs!On(d) \ {kept[x] : x \in Crtc})) \cup made + 1 .. made + n
      /\ made' = made + n
  <2>1. Outputs!Cardinality(lit) = Cardinality(lit)
    BY DEF Outputs!Cardinality, Cardinality
  <2> QED BY <1>2, <1>3, <1>4, <1>5, <1>6, <2>1 DEF Outputs!NoOutput
<1>8. /\ crtcs \in [Connector -> Crtc \cup {"off", "none"}]
      /\ \A b, c \in monitors[d] : b # c /\ crtcs[b] = crtcs[c] => crtcs[c] = "none"
  BY DEF Outputs!Scans
<1>9. /\ lit \in SUBSET Connector /\ \A c \in lit : c \in monitors[d] /\ crtcs[c] \in Crtc
      /\ \A b, c \in lit : crtcs[b] = crtcs[c] => b = c
  <2>1. monitors[d] \subseteq Connector
    BY DEF OutputsInv, OutputsTyped
  <2>2. lit \subseteq New(crtcs)
    OBVIOUS
  <2>3. \A c \in lit : c \in monitors[d] /\ crtcs[c] \in Crtc
    BY <2>2
  <2>4. ASSUME NEW b \in lit, NEW c \in lit, crtcs[b] = crtcs[c]
        PROVE  b = c
    BY <1>8, <2>3, <2>4, PartsAssumption
  <2> QED BY <2>1, <2>3, <2>4
<1>10. made \in Nat /\ n \in Nat
  BY <1>4, <1>9, NumbersExist DEF OutputsInv, OutputsTyped
<1>11. /\ on \in [Crtc -> Nat]
       /\ \A x \in Crtc : on[x] # 0 => on[x] \in made + 1 .. made + n /\ \E c \in lit : crtcs[c] = x
       /\ \A x, y \in Crtc : on[x] # 0 /\ on[x] = on[y] => x = y
       /\ \A k \in made + 1 .. made + n : \E x \in Crtc : on[x] = k
  <2> HIDE DEF New, Gone, Kept
  <2>1. LitOn(Outputs!Lit(d, crtcs, lit), crtcs, lit, Cardinality(lit))
    BY <1>9, <1>10, LitIs
  <2>2. LitOn(on, crtcs, lit, n)
    BY <1>3, <1>4, <2>1
  <2> QED BY <2>2 DEF LitOn
<1>12. ASSUME NEW x \in Crtc, kept[x] # 0
       PROVE  /\ kept[x] = surfaces[d][x] /\ ~fresh
              /\ \E c \in Connector : c \in monitors[d] /\ crtcs[c] = x /\ scanner[d][c] = x
  <2>1. ~fresh
    BY <1>5, <1>12 DEF Outputs!Blank, Outputs!NoOutput
  <2>2. was = scanner[d] /\ kept = Outputs!Removed(d, Gone)
    BY <1>5, <2>1
  <2> QED BY <1>12, <2>1, <2>2, KeptIs
<1>13. kept \in [Crtc -> Nat]
  <2>1. surfaces[d] \in [Crtc -> Nat]
    BY DEF OutputsInv, OutputsTyped
  <2> QED BY <1>5, <2>1 DEF Outputs!Blank, Outputs!Removed, Outputs!NoOutput
<1>14. s \in [Crtc -> Nat] /\ \A x \in Crtc : s[x] = IF on[x] # 0 THEN on[x] ELSE kept[x]
  BY <1>6, <1>11, <1>13
<1>15. ASSUME NEW x \in Crtc, on[x] # 0
       PROVE  kept[x] = 0
  <2> SUFFICES ASSUME kept[x] # 0 PROVE FALSE
    OBVIOUS
  <2>1. PICK c \in Connector : c \in monitors[d] /\ crtcs[c] = x /\ scanner[d][c] = x
    BY <1>12
  <2>2. was[c] # "off"
    BY <1>12, <2>1, PartsAssumption
  <2>3. PICK b \in lit : crtcs[b] = x
    BY <1>11, <1>15
  <2>4. b # c
    BY <2>2, <2>3
  <2> QED BY <1>8, <1>9, <2>1, <2>3, <2>4, PartsAssumption
<1>16. \A x \in Crtc : s[x] # 0 =>
         /\ s[x] = surfaces[d][x] \/ s[x] > made
         /\ s[x] <= made + n /\ \E c \in Connector : crtcs[c] = x
  <2>1. ASSUME NEW x \in Crtc, on[x] # 0
        PROVE  s[x] > made /\ s[x] <= made + n /\ \E c \in Connector : crtcs[c] = x
    BY <1>9, <1>10, <1>11, <1>14, <2>1
  <2>2. ASSUME NEW x \in Crtc, on[x] = 0, kept[x] # 0
        PROVE  /\ s[x] = surfaces[d][x] /\ s[x] <= made + n
               /\ \E c \in Connector : crtcs[c] = x
    <3>1. s[x] = surfaces[d][x] /\ \E c \in Connector : crtcs[c] = x
      BY <1>12, <1>14, <2>2
    <3>2. surfaces[d][x] \in Nat /\ surfaces[d][x] <= made
      BY DEF OutputsInv, OutputsTyped
    <3> QED BY <1>10, <3>1, <3>2
  <2> QED BY <1>14, <2>1, <2>2
<1>17. ASSUME NEW x \in Crtc, NEW y \in Crtc, s[x] # 0, s[x] = s[y]
       PROVE  x = y
  <2>1. \A z \in Crtc : /\ on[z] # 0 => s[z] = on[z] /\ s[z] > made
                        /\ on[z] = 0 => s[z] = kept[z] /\ s[z] <= made
                        /\ on[z] = 0 /\ s[z] # 0 => s[z] = surfaces[d][z]
    <3>1. ASSUME NEW z \in Crtc, on[z] = 0
          PROVE  kept[z] <= made /\ (kept[z] # 0 => kept[z] = surfaces[d][z])
      <4>1. surfaces[d][z] \in Nat /\ surfaces[d][z] <= made
        BY DEF OutputsInv, OutputsTyped
      <4> QED BY <1>10, <1>12, <1>13, <4>1
    <3> QED BY <1>10, <1>11, <1>14, <3>1
  <2>2. CASE on[x] # 0
    <3>1. on[y] # 0
      BY <1>10, <1>14, <1>17, <2>1, <2>2
    <3> QED BY <1>11, <1>17, <2>1, <2>2, <3>1
  <2>3. CASE on[x] = 0
    <3>1. on[y] = 0
      BY <1>10, <1>14, <1>17, <2>1, <2>3
    <3>2. surfaces[d][x] = surfaces[d][y] /\ surfaces[d][x] # 0
      BY <1>17, <2>1, <2>3, <3>1
    <3> QED BY <3>2 DEF OutputsInv, OnOne, Outputs!NoOutput
  <2> QED BY <2>2, <2>3
<1>18. ASSUME NEW k
       PROVE  k \in outputs' <=> (k \in outputs /\ ~OnCrtc(k, surfaces[d])) \/ OnCrtc(k, s)
  <2>1. k \in Outputs!On(d) <=> OnCrtc(k, surfaces[d])
    BY DEF Outputs!On, OnCrtc
  <2>2. ASSUME k \in made + 1 .. made + n
        PROVE  OnCrtc(k, s)
    <3>1. PICK x \in Crtc : on[x] = k
      BY <1>11, <2>2
    <3>2. k # 0
      BY <1>10, <2>2
    <3> QED BY <1>14, <3>1, <3>2 DEF OnCrtc, Outputs!NoOutput
  <2>3. ASSUME k \in outputs, OnCrtc(k, surfaces[d]), NEW x \in Crtc, k = kept[x]
        PROVE  OnCrtc(k, s)
    BY <1>14, <1>15, <2>3 DEF OnCrtc, Outputs!NoOutput
  <2>4. ASSUME OnCrtc(k, s)
        PROVE  k \in outputs'
    <3>1. PICK x \in Crtc : s[x] = k /\ k # 0
      BY <2>4 DEF OnCrtc, Outputs!NoOutput
    <3>2. CASE on[x] # 0
      BY <1>7, <1>11, <1>14, <3>1, <3>2
    <3>3. CASE on[x] = 0
      <4>1. kept[x] = k /\ surfaces[d][x] = k
        BY <1>12, <1>14, <3>1, <3>3
      <4>2. k \in outputs
        BY <3>1, <4>1 DEF OutputsInv, OutputsAre, OnCrtc, Outputs!NoOutput
      <4> QED BY <1>7, <4>1, <4>2
    <3> QED BY <3>2, <3>3
  <2>5. ASSUME k \in outputs, ~OnCrtc(k, surfaces[d])
        PROVE  k \in outputs'
    BY <1>7, <2>1, <2>5
  <2> QED BY <1>7, <2>1, <2>2, <2>3, <2>4, <2>5
<1>19. \A x, y \in Crtc : s[x] # 0 /\ s[x] = s[y] => x = y
  BY <1>17
<1> QED BY <1>7, <1>8, <1>10, <1>14, <1>16, <1>18, <1>19, SetUp DEF Outputs!NoOutput

LEMMA RemovedStep ==
  ASSUME OutputsInv, NEW d \in Device, Outputs!DeviceRemoved(d)
  PROVE  OutputsInv'
<1>1. /\ monitors' = [monitors EXCEPT ![d] = {}] /\ devices' = devices \ {d}
      /\ scanner' = [scanner EXCEPT ![d] = Outputs!Off]
      /\ surfaces' = [surfaces EXCEPT ![d] = Outputs!Blank]
      /\ outputs' = outputs \ Outputs!On(d) /\ made' = made
  BY DEF Outputs!DeviceRemoved
<1>2. \A e \in Device : /\ surfaces'[e] = IF e = d THEN Outputs!Blank ELSE surfaces[e]
                        /\ e # d => scanner'[e] = scanner[e]
  BY <1>1 DEF OutputsInv, OutputsTyped
<1>3. \A x \in Crtc : Outputs!Blank[x] = 0
  BY DEF Outputs!Blank, Outputs!NoOutput
<1>4. \A e \in Device, x \in Crtc :
        surfaces'[e][x] # 0 => e # d /\ surfaces[e][x] = surfaces'[e][x]
  BY <1>2, <1>3
<1>5. OutputsTyped'
  <2>1. made' \in Nat /\ devices' \subseteq Device /\ monitors' \in [Device -> SUBSET Connector]
    BY <1>1 DEF OutputsInv, OutputsTyped
  <2>2. scanner' \in [Device -> [Connector -> Crtc \cup {"off", "none"}]]
    BY <1>1 DEF OutputsInv, OutputsTyped, Outputs!Off
  <2>3. surfaces' \in [Device -> [Crtc -> Nat]]
    BY <1>1 DEF OutputsInv, OutputsTyped, Outputs!Blank, Outputs!NoOutput
  <2>4. \A e \in Device, x \in Crtc : surfaces'[e][x] <= made'
    <3>1. ASSUME NEW e \in Device, NEW x \in Crtc PROVE surfaces'[e][x] <= made
      <4>1. made \in Nat /\ surfaces[e][x] <= made
        BY DEF OutputsInv, OutputsTyped
      <4> QED BY <1>2, <1>3, <4>1
    <3> QED BY <1>1, <3>1
  <2>5. \A e \in Device \ devices' : surfaces'[e] = Outputs!Blank
    BY <1>1, <1>2 DEF OutputsInv, OutputsTyped
  <2> QED BY <2>1, <2>2, <2>3, <2>4, <2>5 DEF OutputsTyped, Outputs!Blank
<1>6. OutputsAre'
  <2>1. ASSUME NEW k
        PROVE  k \in outputs' <=> \E e \in Device : OnCrtc(k, surfaces'[e])
    <3>1. ASSUME k \in outputs'
          PROVE  \E e \in Device : OnCrtc(k, surfaces'[e])
      <4>1. PICK e \in Device : OnCrtc(k, surfaces[e])
        BY <1>1, <3>1 DEF OutputsInv, OutputsAre
      <4>2. e # d
        BY <1>1, <3>1, <4>1 DEF Outputs!On, OnCrtc
      <4> QED BY <1>2, <4>1, <4>2
    <3>2. ASSUME NEW e \in Device, OnCrtc(k, surfaces'[e])
          PROVE  k \in outputs'
      <4>1. e # d /\ OnCrtc(k, surfaces[e])
        BY <1>2, <1>3, <3>2 DEF OnCrtc, Outputs!NoOutput
      <4>2. k \in outputs
        BY <4>1 DEF OutputsInv, OutputsAre
      <4>3. k \notin Outputs!On(d)
        BY <4>1 DEF OnCrtc, OutputsInv, OnOne, Outputs!On
      <4> QED BY <1>1, <4>2, <4>3
    <3> QED BY <3>1, <3>2
  <2> QED BY <2>1 DEF OutputsAre, OnCrtc, Outputs!NoOutput
<1>7. Scanned'
  <2>1. ASSUME NEW e \in Device, NEW x \in Crtc, surfaces'[e][x] # 0
        PROVE  \E c \in Connector : scanner'[e][c] = x
    BY <1>2, <1>4, <2>1 DEF OutputsInv, Scanned, Outputs!NoOutput
  <2> QED BY <2>1 DEF Scanned, Outputs!NoOutput
<1>8. OnOne'
  <2>1. ASSUME NEW e \in Device, NEW f \in Device, NEW x \in Crtc, NEW y \in Crtc,
               surfaces'[e][x] # 0, surfaces'[f][y] = surfaces'[e][x]
        PROVE  f = e /\ y = x
    BY <1>4, <2>1 DEF OutputsInv, OnOne, Outputs!NoOutput
  <2> QED BY <2>1 DEF OnOne, Outputs!NoOutput
<1> QED BY <1>5, <1>6, <1>7, <1>8 DEF OutputsInv

LEMMA NextOutputs ==
  ASSUME OutputsInv, [Outputs!Next]_Outputs!drmVars
  PROVE  OutputsInv'
<1>1. ASSUME UNCHANGED <<devices, scanner, surfaces, outputs, made>>,
             monitors' \in [Device -> SUBSET Connector]
      PROVE  OutputsInv'
  BY <1>1 DEF OutputsInv, OutputsTyped, OutputsAre, OnCrtc, Scanned, OnOne,
              Outputs!Blank, Outputs!NoOutput
<1>2. monitors \in [Device -> SUBSET Connector]
  BY DEF OutputsInv, OutputsTyped
<1>3. CASE UNCHANGED Outputs!drmVars
  BY <1>1, <1>2, <1>3 DEF Outputs!drmVars, Outputs!hardware, Outputs!drm, Outputs!space
<1>4. ASSUME NEW d \in Device, Outputs!Plug(d) \/ Outputs!ScanFails(d)
      PROVE  OutputsInv'
  BY <1>1, <1>2, <1>4 DEF Outputs!Plug, Outputs!ScanFails, Outputs!drm, Outputs!space
<1>5. ASSUME NEW d \in Device, NEW c \in Connector, Outputs!MonitorChanges(d, c)
      PROVE  OutputsInv'
  <2>1. monitors' \in [Device -> SUBSET Connector]
    BY <1>2, <1>5 DEF Outputs!MonitorChanges
  <2> QED BY <1>1, <1>5, <2>1 DEF Outputs!MonitorChanges, Outputs!drm, Outputs!space
<1>6. ASSUME NEW d \in Device, NEW x \in Crtc, Outputs!RenderOutput(d, x)
      PROVE  OutputsInv'
  BY <1>1, <1>2, <1>6 DEF Outputs!RenderOutput, Outputs!drm, Outputs!hardware
<1>7. ASSUME NEW d \in Device, Outputs!DeviceAdded(d)
      PROVE  OutputsInv'
  BY <1>7, ChangedStep DEF Outputs!DeviceAdded
<1>8. ASSUME NEW d \in Device, Outputs!DeviceChanged(d)
      PROVE  OutputsInv'
  <2>1. CASE d \in devices
    <3>1. /\ Outputs!Changed(d, scanner[d], FALSE) /\ monitors' = monitors
          /\ devices' = devices \cup {d}
      BY <1>8, <2>1 DEF Outputs!DeviceChanged
    <3> QED BY <3>1, ChangedStep
  <2>2. CASE d \notin devices
    BY <1>1, <1>2, <1>8, <2>2 DEF Outputs!DeviceChanged, Outputs!drm, Outputs!space
  <2> QED BY <2>1, <2>2
<1> QED BY <1>3, <1>4, <1>5, <1>6, <1>7, <1>8, RemovedStep DEF Outputs!Next

\* Whatever the devices, connectors and CRTCs, and over any plugging, scanning
\* and failing to set up: the outputs windows are laid out on are those on a
\* CRTC of a device that is there, each on one that the scanner gives to a
\* connector.
THEOREM OutputsStayBacked == Spec => []OutputsBacked
<1>1. Init => OutputsInv
  BY InitOutputs DEF Init
<1>2. OutputsInv /\ [Next]_vars => OutputsInv'
  BY NextOutputs, PartSteps
<1>3. OutputsInv => OutputsBacked
  <2> SUFFICES ASSUME OutputsInv PROVE Outputs!OutputsBacked
    BY DEF OutputsBacked
  <2>1. ASSUME NEW k
        PROVE  k \in outputs <=> k \in UNION {Outputs!On(d) : d \in devices}
    <3>1. k \in outputs <=> \E d \in Device : OnCrtc(k, surfaces[d])
      BY DEF OutputsInv, OutputsAre
    <3>2. \A d \in Device : k \in Outputs!On(d) <=> OnCrtc(k, surfaces[d])
      BY DEF Outputs!On, OnCrtc
    <3>3. \A d \in Device : OnCrtc(k, surfaces[d]) => d \in devices
      BY DEF OutputsInv, OutputsTyped, OnCrtc, Outputs!Blank
    <3>4. devices \subseteq Device
      BY DEF OutputsInv, OutputsTyped
    <3> QED BY <3>1, <3>2, <3>3, <3>4
  <2>2. outputs = UNION {Outputs!On(d) : d \in devices}
    BY <2>1
  <2> QED BY <2>2 DEF OutputsInv, Scanned, OnOne, Outputs!OutputsBacked
<1> QED BY <1>1, <1>2, <1>3, PTL DEF Spec

-----------------------------------------------------------------------------
(***************************************************************************)
(* RuntimeHost, for any memories and any output.                           *)
(***************************************************************************)

Before == {p \in Nat \X Nat : p[1] < p[2]}

LEMMA BeforeWF == IsWellFoundedOn(Before, Nat)
  BY NatLessThanWellFounded DEF OpToRel, Before

LEMMA AllNaturals ==
  ASSUME NEW T \in SUBSET Nat, 0 \in T, \A n \in T : n + 1 \in T
  PROVE  T = Nat
<1> SUFFICES ASSUME Nat \ T # {}
             PROVE  FALSE
  OBVIOUS
<1>1. PICK n \in Nat \ T : \A k \in Nat \ T : <<k, n>> \notin Before
  BY BeforeWF, WFMin
<1>2. n # 0 /\ n - 1 \in Nat /\ n - 1 < n
  OBVIOUS
<1>3. <<n - 1, n>> \in Nat \X Nat /\ <<n - 1, n>>[1] < <<n - 1, n>>[2]
  BY <1>2
<1>4. n - 1 \in T
  BY <1>1, <1>2, <1>3 DEF Before
<1>5. (n - 1) + 1 \in T
  BY <1>4
<1> QED BY <1>2, <1>5

\* The sum of s over each set of memories, and the equation that defines it.
Any(S) == CHOOSE m \in S : TRUE
Summed(s, t) ==
  [S \in SUBSET Memory |-> IF S = {} THEN 0 ELSE s[Any(S)] + t[S \ {Any(S)}]]
SumOf(s) == CHOOSE t : t = Summed(s, t)

LEMMA TotalIs == Calls!Total = SumOf(size)
BY DEF Calls!Total, SumOf, Summed, Any

LEMMA OneLess ==
  ASSUME NEW S \in SUBSET Memory, S # {}
  PROVE  /\ Any(S) \in S /\ S \ {Any(S)} \in SUBSET Memory
         /\ Cardinality(S) \in Nat /\ Cardinality(S \ {Any(S)}) \in Nat
         /\ Cardinality(S) = Cardinality(S \ {Any(S)}) + 1
<1>1. Any(S) \in S
  BY DEF Any
<1>2. IsFiniteSet(S)
  BY PartsAssumption, FS_Subset
<1>3. IsFiniteSet(S \ {Any(S)}) /\ Cardinality(S \ {Any(S)}) = Cardinality(S) - 1
  BY <1>1, <1>2, FS_RemoveElement
<1> QED BY <1>1, <1>2, <1>3, FS_CardinalityType

\* What holds of no memory and of one more holds of all of them.
LEMMA AllParts ==
  ASSUME NEW T, {} \in T,
         \A S \in SUBSET Memory : S # {} /\ S \ {Any(S)} \in T => S \in T
  PROVE  SUBSET Memory \subseteq T
<1> DEFINE N == {n \in Nat : \A S \in SUBSET Memory : Cardinality(S) = n => S \in T}
<1>1. 0 \in N
  <2>1. ASSUME NEW S \in SUBSET Memory, Cardinality(S) = 0 PROVE S = {}
    BY <2>1, PartsAssumption, FS_Subset, FS_EmptySet
  <2> QED BY <2>1
<1>2. ASSUME NEW n \in N PROVE n + 1 \in N
  <2>1. ASSUME NEW S \in SUBSET Memory, Cardinality(S) = n + 1 PROVE S \in T
    <3>1. S # {}
      BY <2>1, FS_EmptySet
    <3>2. /\ Cardinality(S \ {Any(S)}) \in Nat /\ S \ {Any(S)} \in SUBSET Memory
          /\ Cardinality(S) = Cardinality(S \ {Any(S)}) + 1
      BY <3>1, OneLess
    <3>3. Cardinality(S \ {Any(S)}) = n
      <4>1. n \in Nat
        OBVIOUS
      <4> HIDE DEF N
      <4> QED BY <2>1, <3>2, <4>1
    <3> QED BY <3>1, <3>2, <3>3
  <2> QED BY <2>1
<1>3. N = Nat
  <2> HIDE DEF N
  <2>1. N \subseteq Nat
    BY DEF N
  <2> QED BY <1>1, <1>2, <2>1, AllNaturals
<1>4. ASSUME NEW S \in SUBSET Memory PROVE Cardinality(S) \in Nat
  BY PartsAssumption, FS_Subset, FS_CardinalityType
<1> QED BY <1>3, <1>4

\* The equation has a solution, so the sum is one.
LEMMA Sums ==
  ASSUME NEW s \in [Memory -> Nat]
  PROVE  SumOf(s) = Summed(s, SumOf(s))
<1> DEFINE Solves(t, n) == \A S \in SUBSET Memory : Cardinality(S) <= n => t[S] = Summed(s, t)[S]
<1> DEFINE N == {n \in Nat : \E t : Solves(t, n)}
<1>1. 0 \in N
  <2> DEFINE t == [S \in SUBSET Memory |-> 0]
  <2>1. ASSUME NEW S \in SUBSET Memory, Cardinality(S) <= 0 PROVE S = {}
    BY <2>1, PartsAssumption, FS_Subset, FS_EmptySet, FS_CardinalityType
  <2>2. Solves(t, 0)
    BY <2>1 DEF Summed
  <2> QED BY <2>2
<1>2. ASSUME NEW n \in N PROVE n + 1 \in N
  <2>1. PICK t : Solves(t, n)
    OBVIOUS
  <2> DEFINE u == Summed(s, t)
  <2>2. ASSUME NEW S \in SUBSET Memory, Cardinality(S) <= n + 1 PROVE u[S] = Summed(s, u)[S]
    <3>1. CASE S = {}
      BY <3>1 DEF Summed
    <3>2. CASE S # {}
      <4>1. S \ {Any(S)} \in SUBSET Memory /\ Cardinality(S \ {Any(S)}) <= n
        BY <2>2, <3>2, OneLess
      <4>2. t[S \ {Any(S)}] = u[S \ {Any(S)}]
        BY <2>1, <4>1
      <4> QED BY <3>2, <4>2 DEF Summed
    <3> QED BY <3>1, <3>2
  <2> HIDE DEF u
  <2>3. Solves(u, n + 1)
    BY <2>2
  <2> QED BY <2>3
<1>3. N = Nat
  <2> HIDE DEF N
  <2>1. N \subseteq Nat
    BY DEF N
  <2> QED BY <1>1, <1>2, <2>1, AllNaturals
<1>4. Cardinality(Memory) \in N
  BY <1>3, PartsAssumption, FS_CardinalityType
<1>5. PICK t : Solves(t, Cardinality(Memory))
  BY <1>4
<1> DEFINE u == Summed(s, t)
<1>6. ASSUME NEW S \in SUBSET Memory PROVE t[S] = u[S]
  BY <1>5, PartsAssumption, FS_Subset
<1>7. u = Summed(s, u)
  BY <1>6, OneLess DEF Summed
<1> HIDE DEF u
<1> QED BY <1>7 DEF SumOf

\* What the sum is of no memory and of one more.
LEMMA SumOfParts ==
  ASSUME NEW s \in [Memory -> Nat]
  PROVE  /\ SumOf(s)[{}] = 0
         /\ \A S \in SUBSET Memory :
              S # {} => SumOf(s)[S] = s[Any(S)] + SumOf(s)[S \ {Any(S)}]
<1>1. PICK t : t = SumOf(s)
  OBVIOUS
<1>2. t = Summed(s, t)
  BY <1>1, Sums
<1>3. Summed(s, t)[{}] = 0
  BY DEF Summed
<1>4. \A S \in SUBSET Memory : S # {} => Summed(s, t)[S] = s[Any(S)] + t[S \ {Any(S)}]
  BY DEF Summed
<1> QED BY <1>1, <1>2, <1>3, <1>4

LEMMA SumIsNat ==
  ASSUME NEW s \in [Memory -> Nat], NEW S \in SUBSET Memory
  PROVE  SumOf(s)[S] \in Nat
<1> DEFINE T == {R \in SUBSET Memory : SumOf(s)[R] \in Nat}
<1>1. {} \in T
  BY SumOfParts
<1>2. ASSUME NEW R \in SUBSET Memory, R # {}, R \ {Any(R)} \in T PROVE R \in T
  <2>1. SumOf(s)[R] = s[Any(R)] + SumOf(s)[R \ {Any(R)}]
    BY <1>2, SumOfParts
  <2>2. s[Any(R)] \in Nat
    BY <1>2, OneLess
  <2> QED BY <1>2, <2>1, <2>2
<1> HIDE DEF T
<1>3. SUBSET Memory \subseteq T
  BY <1>1, <1>2, AllParts
<1> QED BY <1>3 DEF T

\* Memories that hold nothing hold nothing together.
LEMMA SumOfNothing ==
  ASSUME NEW s \in [Memory -> Nat], \A m \in Memory : s[m] = 0
  PROVE  SumOf(s)[Memory] = 0
<1> DEFINE T == {S \in SUBSET Memory : SumOf(s)[S] = 0}
<1>1. {} \in T
  BY SumOfParts
<1>2. ASSUME NEW S \in SUBSET Memory, S # {}, S \ {Any(S)} \in T PROVE S \in T
  <2>1. SumOf(s)[S] = s[Any(S)] + SumOf(s)[S \ {Any(S)}]
    BY <1>2, SumOfParts
  <2>2. s[Any(S)] = 0
    BY <1>2, OneLess
  <2> QED BY <1>2, <2>1, <2>2
<1> HIDE DEF T
<1>3. SUBSET Memory \subseteq T
  BY <1>1, <1>2, AllParts
<1> QED BY <1>3 DEF T

\* One memory that grows adds what it grows by.
LEMMA SumGrows ==
  ASSUME NEW s \in [Memory -> Nat], NEW k \in Memory, NEW v \in Nat
  PROVE  SumOf([s EXCEPT ![k] = v])[Memory] = SumOf(s)[Memory] + (v - s[k])
<1>1. PICK r \in [Memory -> Nat] : r = [s EXCEPT ![k] = v]
  OBVIOUS
<1>2. /\ r[k] = v /\ \A m \in Memory : m # k => r[m] = s[m]
      /\ s[k] \in Nat
  BY <1>1
<1> DEFINE T == {S \in SUBSET Memory :
                   SumOf(r)[S] = SumOf(s)[S] + (IF k \in S THEN v - s[k] ELSE 0)}
<1>3. {} \in T
  BY SumOfParts
<1>4. ASSUME NEW S \in SUBSET Memory, S # {}, S \ {Any(S)} \in T PROVE S \in T
  <2> DEFINE R == S \ {Any(S)}
  <2>1. /\ SumOf(s)[S] = s[Any(S)] + SumOf(s)[R]
        /\ SumOf(r)[S] = r[Any(S)] + SumOf(r)[R]
    BY <1>4, SumOfParts
  <2>2. Any(S) \in S /\ Any(S) \in Memory /\ s[Any(S)] \in Nat
    BY <1>4, OneLess
  <2>3. SumOf(s)[R] \in Nat /\ SumOf(r)[R] \in Nat
    BY SumIsNat
  <2>4. SumOf(r)[R] = SumOf(s)[R] + (IF k \in R THEN v - s[k] ELSE 0)
    BY <1>4
  <2>5. CASE k = Any(S)
    <3>1. k \notin R /\ k \in S
      BY <2>2, <2>5
    <3> HIDE DEF R
    <3>2. SumOf(r)[S] = v + SumOf(s)[R] /\ SumOf(s)[S] = s[k] + SumOf(s)[R]
      BY <1>2, <2>1, <2>3, <2>4, <2>5, <3>1
    <3> QED BY <1>2, <2>3, <3>1, <3>2
  <2>6. CASE k # Any(S)
    <3>1. (k \in R <=> k \in S) /\ r[Any(S)] = s[Any(S)]
      BY <1>2, <2>2, <2>6
    <3> HIDE DEF R
    <3> QED BY <1>2, <2>1, <2>2, <2>3, <2>4, <3>1
  <2> QED BY <2>5, <2>6
<1> HIDE DEF T
<1>5. SUBSET Memory \subseteq T
  BY <1>3, <1>4, AllParts
<1>6. Memory \in T
  BY <1>5
<1> QED BY <1>1, <1>6 DEF T

(***************************************************************************)
(* The memories, and a call.                                               *)
(***************************************************************************)
MemoryInv ==
  /\ used \in Nat /\ used <= MaxMemory /\ size \in [Memory -> Nat]
  /\ Calls!Total[Memory] <= used
  /\ ~failed => Calls!Total[Memory] = used

LEMMA InitMemory == Calls!Init => MemoryInv
<1> SUFFICES ASSUME Calls!Init PROVE MemoryInv
  OBVIOUS
<1>1. size \in [Memory -> Nat] /\ used = 0 /\ \A m \in Memory : size[m] = 0
  BY DEF Calls!Init
<1>2. Calls!Total[Memory] = 0
  BY <1>1, TotalIs, SumOfNothing
<1> QED BY <1>1, <1>2, PartsAssumption DEF MemoryInv

\* A growth that is counted is made or fails.
LEMMA GrowStep ==
  ASSUME MemoryInv, NEW m \in Memory, NEW desired \in 0 .. MaxMemory, Calls!Grow(m, desired)
  PROVE  MemoryInv'
<1>1. /\ size[m] \in Nat /\ desired \in Nat /\ desired >= size[m]
      /\ used' = used + (desired - size[m]) /\ used' <= MaxMemory
      /\ \/ size' = [size EXCEPT ![m] = desired] /\ failed' = failed
         \/ failed' = TRUE /\ size' = size
  <2>1. size[m] \in Nat /\ desired \in Nat /\ desired >= size[m]
    BY DEF MemoryInv, Calls!Grow
  <2>2. Calls!Added(m, desired) = desired - size[m]
    BY <2>1 DEF Calls!Added
  <2> QED BY <2>1, <2>2 DEF Calls!Grow, Calls!Allowed
<1>2. used' \in Nat /\ size' \in [Memory -> Nat]
  BY <1>1 DEF MemoryInv
<1>3. Calls!Total[Memory] \in Nat
  BY TotalIs, SumIsNat DEF MemoryInv
<1>4. CASE size' = [size EXCEPT ![m] = desired] /\ failed' = failed
  <2>1. Calls!Total' = SumOf(size')
    BY DEF Calls!Total, SumOf, Summed, Any
  <2>2. PICK s \in [Memory -> Nat] : s = size
    BY DEF MemoryInv
  <2>3. size' = [s EXCEPT ![m] = desired]
    BY <1>4, <2>2
  <2>4. SumOf([s EXCEPT ![m] = desired])[Memory] = SumOf(s)[Memory] + (desired - s[m])
    BY <1>1, SumGrows
  <2>5. Calls!Total'[Memory] = Calls!Total[Memory] + (desired - size[m])
    BY <2>1, <2>2, <2>3, <2>4, TotalIs
  <2> QED BY <1>1, <1>2, <1>3, <1>4, <2>5 DEF MemoryInv
<1>5. CASE failed' = TRUE /\ size' = size
  <2>1. Calls!Total' = Calls!Total
    BY <1>5 DEF Calls!Total
  <2> QED BY <1>1, <1>2, <1>3, <1>5, <2>1 DEF MemoryInv
<1> QED BY <1>1, <1>4, <1>5

\* What the helper has written is in the pipe or read, until the reader stops:
\* at the end of it, or beyond the limit.
\* The reader reads, or it has stopped.
Reads == reading = TRUE
Done == reading = FALSE
CallInv ==
  /\ written \in Nat /\ pipe \in Nat /\ reader \in Nat
  /\ program \in {"runs", "succeeded", "failed"}
  /\ Reads \/ Done
  /\ Reads => pipe + reader = written /\ reader <= MaxOutput
  /\ Done => reader <= written /\ (reader <= MaxOutput => reader = written)
  /\ call \in {"joining", "output", "excess", "error"} => program # "runs"
  /\ call \in {"output", "excess", "error"} => ~Reads
  /\ call = "output" => program = "succeeded"
  /\ call \in {"output", "excess", "error"} => (call = "excess" <=> reader > MaxOutput)

LEMMA InitCall == Calls!Init => CallInv
<1> SUFFICES ASSUME Calls!Init PROVE CallInv
  OBVIOUS
<1>1. call = "none" /\ program = "failed" /\ written = 0 /\ pipe = 0 /\ reader = 0
  BY DEF Calls!Init, Calls!NoCall
<1>2. ~Reads /\ Done
  BY DEF Calls!Init, Calls!NoCall, Reads, Done
<1> QED BY <1>1, <1>2 DEF CallInv

\* The reader takes a byte, or comes to the end of the output.
LEMMA ReadStep ==
  ASSUME CallInv, Calls!Read
  PROVE  /\ Reads /\ UNCHANGED <<call, program, written>>
         /\ \/ /\ pipe > 0 /\ reader' = reader + 1
               /\ IF reader' <= MaxOutput THEN pipe' = pipe - 1 /\ Reads' /\ ~Done'
                                          ELSE pipe' = 0 /\ ~Reads' /\ Done'
            \/ pipe = 0 /\ ~Reads' /\ Done' /\ UNCHANGED <<reader, pipe>>
<1>1. Reads /\ UNCHANGED <<call, program, written>>
  BY Zenon DEF Calls!Read, Reads
<1>2. CASE pipe > 0
  <2>1. reader' = reader + 1 /\ reading' = (reader' <= MaxOutput)
        /\ pipe' = IF reading' THEN pipe - 1 ELSE 0
    BY <1>2, Zenon DEF Calls!Read
  <2>2. CASE reader' <= MaxOutput
    <3>1. reading' = TRUE
      BY <2>1, <2>2, Zenon
    <3>2. pipe' = pipe - 1 /\ Reads' /\ ~Done'
      BY <2>1, <3>1, Zenon DEF Reads, Done
    <3> QED BY <1>1, <1>2, <2>1, <2>2, <3>2, Zenon
  <2>3. CASE ~(reader' <= MaxOutput)
    <3>0. (reader' <= MaxOutput) = FALSE
      BY <2>3
    <3>1. reading' = FALSE
      BY <2>1, <3>0, Zenon
    <3>2. pipe' = 0 /\ ~Reads' /\ Done'
      BY <2>1, <3>1, Zenon DEF Reads, Done
    <3> QED BY <1>1, <1>2, <2>1, <2>3, <3>2, Zenon
  <2> QED BY <2>2, <2>3
<1>3. CASE ~(pipe > 0)
  <2>1. reading' = FALSE /\ UNCHANGED <<reader, pipe>>
    BY <1>3, Zenon DEF Calls!Read
  <2>2. ~Reads' /\ Done'
    BY <2>1, Zenon DEF Reads, Done
  <2>3. pipe = 0
    BY <1>3 DEF CallInv
  <2> QED BY <1>1, <2>1, <2>2, <2>3, Zenon
<1> QED BY <1>2, <1>3

LEMMA NextCall == CallInv /\ [Calls!Next]_Calls!hostVars => CallInv'
<1> SUFFICES ASSUME CallInv, [Calls!Next]_Calls!hostVars PROVE CallInv'
  OBVIOUS
<1>0. MaxOutput \in Nat
  BY PartsAssumption
<1>1. CASE (\E m \in Memory, desired \in 0 .. MaxMemory : Calls!Grow(m, desired))
             \/ UNCHANGED Calls!hostVars
  <2>1. UNCHANGED Calls!callVars
    BY <1>1 DEF Calls!Grow, Calls!hostVars
  <2> QED BY <2>1 DEF Calls!callVars, CallInv, Reads, Done
<1>2. CASE Calls!Spawn
  <2>1. call' = "polling" /\ program' = "runs" /\ written' = 0 /\ pipe' = 0 /\ reader' = 0
    BY <1>2 DEF Calls!Spawn
  <2>2. Reads' /\ ~Done'
    BY <1>2 DEF Calls!Spawn, Reads, Done
  <2> QED BY <1>0, <2>1, <2>2 DEF CallInv
<1>3. CASE Calls!HelperWrites
  <2>1. /\ program = "runs" /\ UNCHANGED <<call, reader>> /\ (Reads' <=> Reads) /\ (Done' <=> Done)
        /\ \/ Reads /\ pipe' = pipe + 1 /\ written' = written + 1 /\ program' = program
           \/ ~Reads /\ program' = "failed" /\ UNCHANGED <<pipe, written>>
    BY <1>3, Zenon DEF Calls!HelperWrites, CallInv, Reads, Done
  <2>2. ~(Reads /\ Done)
    BY DEF Reads, Done
  <2> QED BY <2>1, <2>2 DEF CallInv
<1>4. CASE Calls!HelperExits
  <2>1. (Reads' <=> Reads) /\ (Done' <=> Done)
    BY <1>4 DEF Calls!HelperExits, Reads, Done
  <2> QED BY <1>4, <2>1 DEF Calls!HelperExits, CallInv
<1>5. CASE Calls!Read
  BY <1>0, <1>5, ReadStep DEF CallInv
<1>6. CASE Calls!Poll
  <2>1. (Reads' <=> Reads) /\ (Done' <=> Done)
    BY <1>6 DEF Calls!Poll, Reads, Done
  <2> QED BY <1>6, <2>1 DEF Calls!Poll, CallInv
<1>7. CASE Calls!Join
  <2>1. ~Reads /\ (Reads' <=> Reads) /\ (Done' <=> Done)
    BY <1>7 DEF Calls!Join, Reads, Done
  <2>2. /\ call = "joining"
        /\ call' = IF reader > MaxOutput THEN "excess"
                   ELSE IF program = "failed" THEN "error" ELSE "output"
        /\ UNCHANGED <<program, written, pipe, reader>>
    BY <1>7 DEF Calls!Join
  <2> QED BY <1>0, <2>1, <2>2 DEF CallInv
<1> QED BY <1>1, <1>2, <1>3, <1>4, <1>5, <1>6, <1>7 DEF Calls!Next

LEMMA NextMemory == MemoryInv /\ [Calls!Next]_Calls!hostVars => MemoryInv'
<1> SUFFICES ASSUME MemoryInv, [Calls!Next]_Calls!hostVars PROVE MemoryInv'
  OBVIOUS
<1>1. CASE \E m \in Memory, desired \in 0 .. MaxMemory : Calls!Grow(m, desired)
  BY <1>1, GrowStep
<1>2. CASE \/ Calls!Spawn \/ Calls!HelperWrites \/ Calls!HelperExits \/ Calls!Read
           \/ Calls!Poll \/ Calls!Join \/ UNCHANGED Calls!hostVars
  <2>1. UNCHANGED <<used, size, failed>>
    BY <1>2 DEF Calls!Spawn, Calls!HelperWrites, Calls!HelperExits, Calls!Read, Calls!Poll,
                Calls!Join, Calls!hostVars, Calls!memoryVars
  <2>2. Calls!Total' = Calls!Total
    BY <2>1 DEF Calls!Total
  <2> QED BY <2>1, <2>2 DEF MemoryInv
<1> QED BY <1>1, <1>2 DEF Calls!Next

\* For any number of memories, each growing as it likes, and a helper that
\* writes for as long as it likes: the memories together stay within the
\* bound, and a call ends with the whole of the helper's output or an error.
THEOREM CallsStayBounded == Spec => []CallsAreBounded
<1>1. Init => MemoryInv /\ CallInv
  BY InitMemory, InitCall DEF Init
<1>2. MemoryInv /\ [Next]_vars => MemoryInv'
  BY PartSteps, NextMemory
<1>3. CallInv /\ [Next]_vars => CallInv'
  BY PartSteps, NextCall
<1>4. MemoryInv /\ CallInv => CallsAreBounded
  <2>1. MaxOutput \in Nat
    BY PartsAssumption
  <2> QED BY <2>1 DEF MemoryInv, CallInv, CallsAreBounded, Calls!CallsAreBounded, Calls!Result
<1> QED BY <1>1, <1>2, <1>3, <1>4, PTL DEF Spec

-----------------------------------------------------------------------------
(***************************************************************************)
(* SessionGrants, for any hosts, addresses and manifests.                  *)
(***************************************************************************)

\* What one more capability makes of the grants, and the equation of derive.
NoGrants == [dirs |-> <<>>, imports |-> <<>>]
With(so, capability) ==
  IF capability \in Grants!Directory
  THEN [so EXCEPT !.dirs = Grants!GrantDir(@,
          [host |-> Grants!PathOf(capability.kind), guest |-> Grants!Guest(capability.kind),
           access |-> capability.of])]
  ELSE IF \E i \in DOMAIN so.imports : so.imports[i] = capability
  THEN so
  ELSE [so EXCEPT !.imports = Append(@, capability)]
Derives(f, k) == f = [n \in 0 .. k |-> IF n = 0 THEN NoGrants ELSE With(f[n - 1], declared[n])]

LEMMA DerivesSome ==
  ASSUME NEW k \in Nat
  PROVE  \E f : Derives(f, k)
<1> DEFINE T == {n \in Nat : \E f : Derives(f, n)}
<1>1. 0 \in T
  <2>1. Derives([n \in 0 .. 0 |-> NoGrants], 0)
    BY DEF Derives
  <2> QED BY <2>1
<1>2. ASSUME NEW n \in T PROVE n + 1 \in T
  <2>1. PICK f : Derives(f, n)
    OBVIOUS
  <2> DEFINE g == [i \in 0 .. n + 1 |-> IF i = n + 1 THEN With(f[n], declared[n + 1]) ELSE f[i]]
  <2>2. ASSUME NEW i \in 0 .. n + 1
        PROVE  g[i] = IF i = 0 THEN NoGrants ELSE With(g[i - 1], declared[i])
    <3>1. CASE i = n + 1
      <4>1. g[i - 1] = f[n] /\ g[i] = With(f[n], declared[n + 1]) /\ i # 0
        BY <3>1
      <4> QED BY <3>1, <4>1
    <3>2. CASE i # n + 1
      <4>1. i \in 0 .. n /\ g[i] = f[i]
        BY <3>2
      <4>2. f[i] = IF i = 0 THEN NoGrants ELSE With(f[i - 1], declared[i])
        BY <2>1, <4>1 DEF Derives
      <4>3. CASE i = 0
        BY <4>1, <4>2, <4>3
      <4>4. CASE i # 0
        <5>1. g[i - 1] = f[i - 1]
          BY <4>1, <4>4
        <5> QED BY <4>1, <4>2, <4>4, <5>1
      <4> QED BY <4>3, <4>4
    <3> QED BY <3>1, <3>2
  <2>3. Derives(g, n + 1)
    <3>1. g = [i \in 0 .. n + 1 |-> g[i]]
      OBVIOUS
    <3> HIDE DEF g
    <3> QED BY <2>2, <3>1 DEF Derives
  <2> QED BY <2>3
<1> HIDE DEF T
<1>3. T = Nat
  <2>1. T \in SUBSET Nat
    BY DEF T
  <2> QED BY <1>1, <1>2, <2>1, AllNaturals
<1> QED BY <1>3 DEF T

LEMMA DerivedIs ==
  ASSUME declared \in Seq(Grants!Capability)
  PROVE  \E f : /\ Grants!Derived = f[Len(declared)]
                /\ f[0] = NoGrants
                /\ \A n \in 1 .. Len(declared) : f[n] = With(f[n - 1], declared[n])
<1> DEFINE L == Len(declared)
           f == CHOOSE f : Derives(f, L)
<1>1. Grants!Derived = f[L]
  BY DEF Grants!Derived, Derives, With, NoGrants
<1>2. L \in Nat
  OBVIOUS
<1>3. Derives(f, L)
  BY <1>2, DerivesSome
<1> HIDE DEF f
<1>4. \A n \in 0 .. L : f[n] = IF n = 0 THEN NoGrants ELSE With(f[n - 1], declared[n])
  BY <1>3 DEF Derives
<1>5. f[0] = NoGrants /\ \A n \in 1 .. L : f[n] = With(f[n - 1], declared[n])
  BY <1>2, <1>4
<1> QED BY <1>1, <1>5

\* Directories as derive grants them: each under its own guest path.
Dirs == [host : Grants!Path \cup {<<>>}, guest : {"/data", "/xdg/documents"}, access : Grants!Access]
Placed(d) == d.host = IF d.guest = "/data" THEN dataPath ELSE documents
Has(dirs, guest, write) ==
  \E j \in DOMAIN dirs : dirs[j].guest = guest /\ (write => dirs[j].access = "rw")

\* A guest path is granted once.
Alone(dirs) == \A j, k \in DOMAIN dirs : dirs[j].guest = dirs[k].guest => j = k

LEMMA IsASeq ==
  ASSUME NEW S, NEW n \in Nat, NEW s \in [1 .. n -> S]
  PROVE  s \in Seq(S)
  OBVIOUS

\* One more directory, and what it grants.
LEMMA GrantDirIs ==
  ASSUME NEW dirs \in Seq(Dirs), NEW dir \in Dirs, NEW after, after = Grants!GrantDir(dirs, dir)
  PROVE  /\ after \in Seq(Dirs)
         /\ \A j \in DOMAIN after : after[j] = dir \/ \E i \in DOMAIN dirs : after[j] = dirs[i]
         /\ Alone(dirs) => Alone(after)
         /\ \A guest : \A write \in BOOLEAN :
              Has(after, guest, write)
                <=> Has(dirs, guest, write) \/ (dir.guest = guest /\ (write => dir.access = "rw"))
<1>1. CASE \E i \in DOMAIN dirs : dirs[i].guest = dir.guest
  <2> DEFINE New(i) == IF dirs[i].guest = dir.guest /\ dir.access = "rw" THEN dir ELSE dirs[i]
  <2>1. after = [i \in DOMAIN dirs |-> New(i)]
    BY <1>1 DEF Grants!GrantDir
  <2>2. \A i \in DOMAIN dirs : dirs[i] \in Dirs
    OBVIOUS
  <2>3. DOMAIN after = DOMAIN dirs /\ \A i \in DOMAIN dirs : after[i] = New(i)
    BY <2>1
  <2>4. after \in Seq(Dirs)
    <3>1. Len(dirs) \in Nat /\ DOMAIN dirs = 1 .. Len(dirs)
      OBVIOUS
    <3>2. \A i \in DOMAIN dirs : New(i) \in Dirs
      BY <2>2
    <3> HIDE DEF New
    <3>3. after \in [1 .. Len(dirs) -> Dirs]
      BY <2>1, <3>1, <3>2
    <3> QED BY <3>1, <3>3, IsASeq
  <2>5. ASSUME NEW guest, NEW write \in BOOLEAN
        PROVE  Has(after, guest, write)
                 <=> Has(dirs, guest, write) \/ (dir.guest = guest /\ (write => dir.access = "rw"))
    <3>1. ASSUME NEW j \in DOMAIN after, after[j].guest = guest, write => after[j].access = "rw"
          PROVE  Has(dirs, guest, write) \/ (dir.guest = guest /\ (write => dir.access = "rw"))
      <4>1. after[j] = dir \/ after[j] = dirs[j]
        BY <2>3
      <4> QED BY <2>3, <3>1, <4>1 DEF Has
    <3>2. ASSUME NEW j \in DOMAIN dirs, dirs[j].guest = guest, write => dirs[j].access = "rw"
          PROVE  Has(after, guest, write)
      <4>1. after[j].guest = guest /\ (write => after[j].access = "rw")
        BY <2>3, <3>2
      <4> QED BY <2>3, <4>1 DEF Has
    <3>3. ASSUME dir.guest = guest, write => dir.access = "rw"
          PROVE  Has(after, guest, write)
      <4>1. PICK i \in DOMAIN dirs : dirs[i].guest = dir.guest
        BY <1>1
      <4>2. after[i].guest = guest /\ (write => after[i].access = "rw")
        <5>1. CASE dir.access = "rw"
          BY <2>3, <3>3, <4>1, <5>1
        <5>2. CASE dir.access # "rw"
          BY <2>3, <3>3, <4>1, <5>2
        <5> QED BY <5>1, <5>2
      <4> QED BY <2>3, <4>2 DEF Has
    <3> QED BY <3>1, <3>2, <3>3 DEF Has
  <2>6. Alone(dirs) => Alone(after)
    <3>1. \A i \in DOMAIN dirs : after[i].guest = dirs[i].guest
      BY <2>3
    <3> QED BY <2>3, <3>1 DEF Alone
  <2> QED BY <2>3, <2>4, <2>5, <2>6
<1>2. CASE ~\E i \in DOMAIN dirs : dirs[i].guest = dir.guest
  <2>1. after = Append(dirs, dir)
    BY <1>2 DEF Grants!GrantDir
  <2>2. /\ after \in Seq(Dirs) /\ Len(dirs) \in Nat /\ DOMAIN dirs = 1 .. Len(dirs)
        /\ DOMAIN after = 1 .. Len(dirs) + 1
        /\ after[Len(dirs) + 1] = dir /\ \A i \in DOMAIN dirs : after[i] = dirs[i]
    BY <2>1
  <2>3. \A j \in DOMAIN after : j = Len(dirs) + 1 \/ j \in DOMAIN dirs
    BY <2>2
  <2>4. \A i \in DOMAIN dirs : i \in DOMAIN after
    BY <2>2
  <2>5. Len(dirs) + 1 \in DOMAIN after
    BY <2>2
  <2>6. \A guest : \A write \in BOOLEAN :
          Has(after, guest, write)
            <=> Has(dirs, guest, write) \/ (dir.guest = guest /\ (write => dir.access = "rw"))
    BY <2>2, <2>3, <2>4, <2>5 DEF Has
  <2>7. Alone(dirs) => Alone(after)
    <3>1. \A i \in DOMAIN dirs : after[i].guest # dir.guest
      BY <1>2, <2>2
    <3> QED BY <2>2, <2>3, <3>1 DEF Alone
  <2> QED BY <2>2, <2>3, <2>6, <2>7
<1> QED BY <1>1, <1>2

HostTyped ==
  /\ declared \in Seq(Grants!Capability)
  /\ dataPath \in Grants!Path /\ documents \in Grants!Path \cup {<<>>}

\* The grants of the first n capabilities: a directory as wide as the widest of
\* its declarations, and every other capability.
Wants(i, kind, write) ==
  /\ declared[i] \in Grants!Directory /\ declared[i].kind = kind
  /\ write => declared[i].of = "rw"
GoodDirs(dirs, n) ==
  /\ dirs \in Seq(Dirs) /\ Alone(dirs) /\ \A j \in DOMAIN dirs : Placed(dirs[j])
  /\ \A kind \in {"app-data", "documents"}, write \in BOOLEAN :
       Has(dirs, Grants!Guest(kind), write) <=> \E i \in 1 .. n : Wants(i, kind, write)
Rest == Grants!Import \cup Grants!Unsupported
GoodImports(imports, n) ==
  /\ imports \in Seq(Rest)
  /\ \A c : (\E j \in DOMAIN imports : imports[j] = c)
              <=> \E i \in 1 .. n : declared[i] = c /\ c \notin Grants!Directory
Good(so, n) ==
  /\ so \in [dirs : Seq(Dirs), imports : Seq(Rest)]
  /\ GoodDirs(so.dirs, n) /\ GoodImports(so.imports, n)

LEMMA WithGood ==
  ASSUME HostTyped, NEW n \in Nat, n < Len(declared), NEW so, Good(so, n)
  PROVE  Good(With(so, declared[n + 1]), n + 1)
<1> DEFINE c == declared[n + 1]
<1>1. c \in Grants!Capability
  BY DEF HostTyped
<1>2. \A i : i \in 1 .. n + 1 <=> i \in 1 .. n \/ i = n + 1
  OBVIOUS
<1>3. so \in [dirs : Seq(Dirs), imports : Seq(Rest)] /\ GoodDirs(so.dirs, n)
      /\ GoodImports(so.imports, n)
  BY DEF Good
<1>4. CASE c \in Grants!Directory
  <2> DEFINE dir == [host |-> Grants!PathOf(c.kind), guest |-> Grants!Guest(c.kind), access |-> c.of]
  <2>1. dir \in Dirs /\ Placed(dir)
    BY <1>4 DEF Dirs, Placed, Grants!PathOf, Grants!Guest, Grants!Directory, HostTyped
  <2>2. PICK dirs : dirs = Grants!GrantDir(so.dirs, dir)
    OBVIOUS
  <2>3. With(so, c) = [so EXCEPT !.dirs = dirs]
    BY <1>4, <2>2 DEF With
  <2>4. /\ dirs \in Seq(Dirs)
        /\ \A j \in DOMAIN dirs : dirs[j] = dir \/ \E i \in DOMAIN so.dirs : dirs[j] = so.dirs[i]
        /\ \A guest : \A write \in BOOLEAN :
             Has(dirs, guest, write)
               <=> Has(so.dirs, guest, write) \/ (dir.guest = guest /\ (write => dir.access = "rw"))
        /\ Alone(so.dirs) => Alone(dirs)
    <3>1. so.dirs \in Seq(Dirs) /\ dir \in Dirs
      BY <1>3, <2>1
    <3> HIDE DEF dir
    <3> QED BY <2>2, <3>1, GrantDirIs
  <2>5. \A j \in DOMAIN dirs : Placed(dirs[j])
    BY <1>3, <2>1, <2>4 DEF GoodDirs
  <2>6. ASSUME NEW kind \in {"app-data", "documents"}, NEW write \in BOOLEAN
        PROVE  Has(dirs, Grants!Guest(kind), write) <=> \E i \in 1 .. n + 1 : Wants(i, kind, write)
    <3>1. (dir.guest = Grants!Guest(kind) /\ (write => dir.access = "rw")) <=> Wants(n + 1, kind, write)
      <4>1. c.kind \in {"app-data", "documents"}
        BY <1>4 DEF Grants!Directory
      <4>2. dir.guest = Grants!Guest(kind) <=> c.kind = kind
        BY <4>1 DEF Grants!Guest
      <4> QED BY <1>4, <4>2 DEF Wants
    <3>2. Has(so.dirs, Grants!Guest(kind), write) <=> \E i \in 1 .. n : Wants(i, kind, write)
      BY <1>3 DEF GoodDirs
    <3> HIDE DEF dir
    <3> QED BY <1>2, <2>4, <3>1, <3>2
  <2>7. GoodDirs(dirs, n + 1)
    BY <1>3, <2>4, <2>5, <2>6 DEF GoodDirs
  <2>8. GoodImports(so.imports, n + 1)
    <3>1. \A d : (\E i \in 1 .. n + 1 : declared[i] = d /\ d \notin Grants!Directory)
                   <=> \E i \in 1 .. n : declared[i] = d /\ d \notin Grants!Directory
      BY <1>2, <1>4
    <3> QED BY <1>3, <3>1 DEF GoodImports
  <2>9. /\ With(so, c) \in [dirs : Seq(Dirs), imports : Seq(Rest)]
        /\ With(so, c).dirs = dirs /\ With(so, c).imports = so.imports
    BY <1>3, <2>3, <2>4
  <2> QED BY <2>7, <2>8, <2>9 DEF Good
<1>5. CASE c \notin Grants!Directory
  <2>1. c \in Rest
    BY <1>1, <1>5 DEF Rest, Grants!Capability
  <2>2. PICK imports : imports = IF \E i \in DOMAIN so.imports : so.imports[i] = c
                                 THEN so.imports ELSE Append(so.imports, c)
    OBVIOUS
  <2>3. imports \in Seq(Rest)
    BY <1>3, <2>1, <2>2
  <2>4. /\ With(so, c) \in [dirs : Seq(Dirs), imports : Seq(Rest)]
        /\ With(so, c).dirs = so.dirs /\ With(so, c).imports = imports
    <3>1. With(so, c) = IF \E i \in DOMAIN so.imports : so.imports[i] = c THEN so
                        ELSE [so EXCEPT !.imports = Append(@, c)]
      BY <1>5 DEF With
    <3>2. CASE \E i \in DOMAIN so.imports : so.imports[i] = c
      BY <1>3, <2>2, <3>1, <3>2
    <3>3. CASE ~\E i \in DOMAIN so.imports : so.imports[i] = c
      BY <1>3, <2>2, <2>3, <3>1, <3>3
    <3> QED BY <3>2, <3>3
  <2>5. GoodDirs(so.dirs, n + 1)
    <3>1. \A kind : \A write \in BOOLEAN :
            (\E i \in 1 .. n + 1 : Wants(i, kind, write)) <=> \E i \in 1 .. n : Wants(i, kind, write)
      BY <1>2, <1>5 DEF Wants
    <3> QED BY <1>3, <3>1 DEF GoodDirs
  <2>6. \A d : (\E j \in DOMAIN imports : imports[j] = d)
                 <=> d = c \/ \E j \in DOMAIN so.imports : so.imports[j] = d
    <3>1. CASE \E i \in DOMAIN so.imports : so.imports[i] = c
      BY <2>2, <3>1
    <3>2. CASE ~\E i \in DOMAIN so.imports : so.imports[i] = c
      <4>1. /\ Len(so.imports) \in Nat /\ DOMAIN so.imports = 1 .. Len(so.imports)
            /\ DOMAIN imports = 1 .. Len(so.imports) + 1
            /\ imports[Len(so.imports) + 1] = c
            /\ \A j \in DOMAIN so.imports : imports[j] = so.imports[j]
        BY <1>3, <2>1, <2>2, <3>2
      <4>2. \A j : j \in DOMAIN imports <=> j \in DOMAIN so.imports \/ j = Len(so.imports) + 1
        BY <4>1
      <4> QED BY <4>1, <4>2
    <3> QED BY <3>1, <3>2
  <2>7. GoodImports(imports, n + 1)
    <3>1. \A d : (\E i \in 1 .. n + 1 : declared[i] = d /\ d \notin Grants!Directory)
                   <=> d = c \/ \E i \in 1 .. n : declared[i] = d /\ d \notin Grants!Directory
      BY <1>2, <1>5
    <3> QED BY <1>3, <2>3, <2>6, <3>1 DEF GoodImports
  <2> QED BY <2>4, <2>5, <2>7 DEF Good
<1> QED BY <1>4, <1>5

LEMMA DerivedGood == HostTyped => Good(Grants!Derived, Len(declared))
<1> SUFFICES ASSUME HostTyped PROVE Good(Grants!Derived, Len(declared))
  OBVIOUS
<1>1. PICK f : /\ Grants!Derived = f[Len(declared)]
               /\ f[0] = NoGrants
               /\ \A n \in 1 .. Len(declared) : f[n] = With(f[n - 1], declared[n])
  BY DerivedIs DEF HostTyped
<1> DEFINE T == {n \in Nat : n <= Len(declared) => Good(f[n], n)}
<1>2. Len(declared) \in Nat
  BY DEF HostTyped
<1>3. 0 \in T
  <2>1. <<>> \in Seq(Dirs) /\ <<>> \in Seq(Rest) /\ DOMAIN <<>> = {} /\ 1 .. 0 = {}
    OBVIOUS
  <2>2. GoodDirs(<<>>, 0) /\ GoodImports(<<>>, 0)
    BY <2>1 DEF GoodDirs, GoodImports, Has, Alone
  <2>3. Good(NoGrants, 0)
    BY <2>1, <2>2 DEF Good, NoGrants
  <2> QED BY <1>1, <2>3
<1>4. ASSUME NEW n \in T PROVE n + 1 \in T
  <2>1. CASE n + 1 <= Len(declared)
    <3>1. n < Len(declared) /\ Good(f[n], n) /\ n + 1 \in 1 .. Len(declared)
      BY <1>2, <2>1
    <3>2. f[n + 1] = With(f[n], declared[n + 1])
      <4>1. (n + 1) - 1 = n
        OBVIOUS
      <4> QED BY <1>1, <3>1, <4>1
    <3> QED BY <3>1, <3>2, WithGood
  <2>2. CASE ~(n + 1 <= Len(declared))
    BY <2>2
  <2> QED BY <2>1, <2>2
<1> HIDE DEF T
<1>5. T = Nat
  <2>1. T \in SUBSET Nat
    BY DEF T
  <2> QED BY <1>3, <1>4, <2>1, AllNaturals
<1>6. Good(f[Len(declared)], Len(declared))
  BY <1>2, <1>5 DEF T
<1> QED BY <1>1, <1>6

\* An argument of three parts, put together and taken apart.
LEMMA ThreeParts ==
  ASSUME NEW x, NEW a, NEW b
  PROVE  /\ <<x>> \o <<a, b>> = <<x, a, b>> /\ Len(<<x, a, b>>) = 3
         /\ SubSeq(<<x, a, b>>, 1, 1) = <<x>>
<1> DEFINE S == {x, a, b}
<1>1. /\ <<x>> \in Seq(S) /\ <<a, b>> \in Seq(S) /\ <<x>> \o <<a, b>> \in Seq(S)
      /\ <<x, a, b>> \in Seq(S) /\ Len(<<x>>) = 1 /\ Len(<<a, b>>) = 2 /\ Len(<<x, a, b>>) = 3
  OBVIOUS
<1>2. SubSeq(<<x, a, b>>, 1, 1) = <<x>>
  <2>1. SubSeq(<<x, a, b>>, 1, 1) = [i \in 1 .. 1 |-> <<x, a, b>>[i]]
    BY <1>1
  <2>2. <<x>> = [i \in 1 .. 1 |-> <<x, a, b>>[i]]
    OBVIOUS
  <2> QED BY <2>1, <2>2
<1>3. <<x>> \o <<a, b>> = <<x, a, b>>
  <2>1. PICK q : q = <<x>> \o <<a, b>>
    OBVIOUS
  <2>2. Len(q) = 3 /\ q[1] = x /\ q[2] = a /\ q[3] = b
    BY <1>1, <2>1
  <2>3. q = [i \in 1 .. 3 |-> q[i]]
    BY <1>1, <2>1, <2>2
  <2>4. <<x, a, b>> = [i \in 1 .. 3 |-> q[i]]
    BY <2>2
  <2> QED BY <2>1, <2>3, <2>4
<1> QED BY <1>1, <1>2, <1>3

\* A path of one part survives the encoding as an argument.
LEMMA ParseIs ==
  ASSUME NEW d \in Dirs, Len(d.host) = 1
  PROVE  Grants!Parses(Grants!PreopenArg(d)) /\ Grants!Parse(Grants!PreopenArg(d)) = d
<1> DEFINE mode == IF d.access = "read" THEN "ro" ELSE "rw"
<1>1. PICK x : d.host = <<x>>
  BY DEF Dirs, Grants!Path
<1>2. Grants!PreopenArg(d) = <<x, d.guest, mode>>
  BY <1>1, ThreeParts DEF Grants!PreopenArg
<1>3. Len(<<x, d.guest, mode>>) = 3 /\ SubSeq(<<x, d.guest, mode>>, 1, 1) = <<x>>
  BY ThreeParts
<1>4. mode \in {"ro", "rw"} /\ d.access = IF mode = "ro" THEN "read" ELSE "rw"
  BY DEF Dirs, Grants!Access
<1> HIDE DEF mode
<1>5. Grants!Parses(<<x, d.guest, mode>>)
  BY <1>3, <1>4 DEF Grants!Parses
<1>6. Grants!Parse(<<x, d.guest, mode>>) = [host |-> <<x>>, guest |-> d.guest, access |-> d.access]
  BY <1>3, <1>4 DEF Grants!Parse
<1>7. d = [host |-> <<x>>, guest |-> d.guest, access |-> d.access]
  BY <1>1 DEF Dirs
<1> QED BY <1>2, <1>5, <1>6, <1>7

\* What a session was granted is what it was started with.
Passed ==
  LET dirs == Grants!Elements(grants.dirs)
      imports == Grants!Elements(grants.imports)
  IN  /\ portal = Grants!Allowed(dirs)
      /\ runtime = [preopens |-> dirs,
                    fetch |-> {c.of : c \in imports \cap Grants!Fetch},
                    imports |-> {c.kind : c \in imports \ Grants!Fetch}]
Careful ==
  prepared => /\ stage # "declared" /\ Grants!Valid /\ Grants!Grantable
              /\ Grants!Declares("app-data", Grants!Access)
GrantInv ==
  /\ HostTyped
  /\ stage \in {"declared", "refused", "derived", "running"}
  /\ Careful
  /\ stage \in {"derived", "running"} =>
       Grants!Valid /\ Grants!Grantable /\ Good(grants, Len(declared))
  /\ stage = "running" => Passed

LEMMA InitGrants == Init => GrantInv
<1> SUFFICES ASSUME Init PROVE GrantInv
  OBVIOUS
<1>1. CASE part = "grants"
  <2>1. Grants!Init
    BY <1>1 DEF Init
  <2>2. HostTyped
    BY <2>1 DEF Grants!Init, HostTyped
  <2> QED BY <2>1, <2>2 DEF Grants!Init, GrantInv, Careful
<1>2. CASE part # "grants"
  <2>1. /\ declared = <<>> /\ dataPath = <<"home">> /\ documents = <<>>
        /\ stage = "declared" /\ prepared = FALSE
    BY <1>2 DEF Init
  <2> QED BY <2>1 DEF GrantInv, HostTyped, Grants!Path, Careful
<1> QED BY <1>1, <1>2

\* Only a declared data directory is prepared.
LEMMA NeedsDataIs ==
  ASSUME HostTyped, Grants!NeedsData
  PROVE  Grants!Declares("app-data", Grants!Access)
<1>1. Has(Grants!Derived.dirs, Grants!Guest("app-data"), FALSE)
  BY DEF Grants!NeedsData, Has, Grants!Guest
<1>2. PICK i \in 1 .. Len(declared) : Wants(i, "app-data", FALSE)
  BY <1>1, DerivedGood DEF Good, GoodDirs
<1> QED BY <1>2 DEF Wants, HostTyped, Grants!Declares, Grants!Directory

LEMMA DeriveStep ==
  ASSUME GrantInv, Grants!Derive
  PROVE  GrantInv'
<1>1. UNCHANGED <<declared, dataPath, documents>> /\ stage = "declared" /\ ~prepared
  BY DEF Grants!Derive, Grants!host, GrantInv, Careful
<1>2. HostTyped'
  BY <1>1 DEF GrantInv, HostTyped
<1>3. (Grants!Valid /\ Grants!Grantable) => (Grants!Valid /\ Grants!Grantable)'
  BY <1>1 DEF Grants!Valid, Grants!Grantable, Grants!PathOf
<1>4. Grants!Declares("app-data", Grants!Access) => Grants!Declares("app-data", Grants!Access)'
  BY <1>1 DEF Grants!Declares
<1>5. Grants!NeedsData => Grants!Declares("app-data", Grants!Access)
  BY NeedsDataIs DEF GrantInv
<1>6. CASE Grants!Valid /\ Grants!Grantable /\ stage' = "derived" /\ grants' = Grants!Derived
           /\ prepared' = Grants!NeedsData
  <2>1. Good(grants', Len(declared))
    BY <1>6, DerivedGood DEF GrantInv
  <2>2. Good(grants, Len(declared))'
    BY <1>1, <2>1 DEF Good, GoodDirs, GoodImports, Placed, Wants
  <2>3. Careful'
    BY <1>3, <1>4, <1>5, <1>6 DEF Careful
  <2> QED BY <1>2, <1>3, <1>6, <2>2, <2>3 DEF GrantInv
<1>7. CASE stage' = "refused" /\ UNCHANGED <<grants, prepared>>
  <2>1. Careful'
    BY <1>1, <1>7 DEF Careful
  <2> QED BY <1>2, <1>7, <2>1 DEF GrantInv
<1>8. CASE Grants!Valid /\ Grants!Grantable /\ Grants!NeedsData /\ stage' = "refused"
  <2>1. Careful'
    BY <1>3, <1>4, <1>5, <1>8 DEF Careful
  <2> QED BY <1>2, <1>8, <2>1 DEF GrantInv
<1> QED BY <1>6, <1>7, <1>8 DEF Grants!Derive

\* Every granted directory has a path of one part.
LEMMA HostsAreShort ==
  ASSUME HostTyped, Grants!Grantable, Good(grants, Len(declared)), NEW j \in DOMAIN grants.dirs
  PROVE  grants.dirs[j] \in Dirs /\ Len(grants.dirs[j].host) = 1
<1> DEFINE d == grants.dirs[j]
<1>1. d \in Dirs /\ Placed(d)
  BY DEF Good, GoodDirs
<1>2. PICK kind \in {"app-data", "documents"} : Grants!Guest(kind) = d.guest
  <2>1. Grants!Guest("app-data") = "/data" /\ Grants!Guest("documents") = "/xdg/documents"
    BY DEF Grants!Guest
  <2>2. d.guest \in {"/data", "/xdg/documents"}
    BY <1>1 DEF Dirs
  <2> QED BY <2>1, <2>2
<1>3. Has(grants.dirs, Grants!Guest(kind), FALSE)
  BY <1>2 DEF Has
<1>4. PICK i \in 1 .. Len(declared) : Wants(i, kind, FALSE)
  BY <1>3 DEF Good, GoodDirs
<1>5. i \in DOMAIN declared /\ declared[i] \in Grants!Directory /\ declared[i].kind = kind
  BY <1>4 DEF Wants, HostTyped
<1>6. Len(Grants!PathOf(declared[i].kind)) = 1
  BY <1>5 DEF Grants!Grantable
<1>7. d.host = Grants!PathOf(declared[i].kind)
  BY <1>1, <1>2, <1>5 DEF Placed, Grants!PathOf, Grants!Guest
<1> QED BY <1>1, <1>6, <1>7

LEMMA StartStep ==
  ASSUME GrantInv, Grants!Start
  PROVE  GrantInv'
<1> DEFINE dirs == Grants!Elements(grants.dirs)
           imports == Grants!Elements(grants.imports)
           specs == {Grants!PreopenArg(d) : d \in dirs}
<1>1. /\ UNCHANGED <<declared, dataPath, documents, grants, prepared>> /\ stage = "derived"
      /\ portal' = Grants!Allowed(dirs)
      /\ IF (\A s \in specs : Grants!Parses(s)) /\ (\A c \in imports : Grants!Accepts(c))
         THEN /\ stage' = "running"
              /\ runtime' = [preopens |-> {Grants!Parse(s) : s \in specs},
                             fetch |-> {c.of : c \in imports \cap Grants!Fetch},
                             imports |-> {c.kind : c \in imports \ Grants!Fetch}]
         ELSE stage' = "rejected" /\ UNCHANGED runtime
  BY DEF Grants!Start, Grants!host
<1>2. HostTyped /\ Grants!Valid /\ Grants!Grantable /\ Good(grants, Len(declared))
  BY <1>1 DEF GrantInv
<1>3. \A d \in dirs : Grants!Parses(Grants!PreopenArg(d)) /\ Grants!Parse(Grants!PreopenArg(d)) = d
  <2>1. \A d \in dirs : d \in Dirs /\ Len(d.host) = 1
    BY <1>2, HostsAreShort DEF Grants!Elements
  <2> HIDE DEF dirs
  <2> QED BY <2>1, ParseIs
<1>4. {Grants!Parse(s) : s \in specs} = dirs
  <2> HIDE DEF dirs
  <2> QED BY <1>3
<1>5. \A c \in imports : Grants!Accepts(c)
  <2>1. ASSUME NEW j \in DOMAIN grants.imports
        PROVE  grants.imports[j] \in Grants!Import
    <3>1. grants.imports[j] \in Rest
      BY <1>2 DEF Good, GoodImports
    <3>2. PICK i \in 1 .. Len(declared) : declared[i] = grants.imports[j]
      BY <1>2 DEF Good, GoodImports
    <3>3. declared[i] \notin Grants!Unsupported
      BY <1>2, <3>2 DEF Grants!Valid, HostTyped
    <3> QED BY <3>1, <3>2, <3>3 DEF Rest
  <2> QED BY <2>1 DEF Grants!Accepts, Grants!Elements
<1>6. \A s \in specs : Grants!Parses(s)
  <2> HIDE DEF dirs
  <2> QED BY <1>3
<1>7. /\ stage' = "running"
      /\ runtime' = [preopens |-> dirs,
                     fetch |-> {c.of : c \in imports \cap Grants!Fetch},
                     imports |-> {c.kind : c \in imports \ Grants!Fetch}]
  BY <1>1, <1>4, <1>5, <1>6
<1>8. (HostTyped /\ Grants!Valid /\ Grants!Grantable /\ Good(grants, Len(declared)))'
  BY <1>1, <1>2 DEF HostTyped, Grants!Valid, Grants!Grantable, Grants!PathOf,
                    Good, GoodDirs, GoodImports, Placed, Wants
<1>9. Passed'
  BY <1>1, <1>7 DEF Passed, Grants!Elements
<1>10. Careful'
  BY <1>1, <1>7, <1>8 DEF GrantInv, Careful, Grants!Declares
<1> QED BY <1>7, <1>8, <1>9, <1>10 DEF GrantInv

LEMMA NextGrants == GrantInv /\ [Grants!Next]_Grants!grantVars => GrantInv'
<1> SUFFICES ASSUME GrantInv, [Grants!Next]_Grants!grantVars PROVE GrantInv'
  OBVIOUS
<1>1. CASE UNCHANGED Grants!grantVars
  <2>1. UNCHANGED <<declared, dataPath, documents, stage, grants, prepared, runtime, portal>>
    BY <1>1 DEF Grants!grantVars, Grants!host
  <2>2. (HostTyped <=> HostTyped') /\ (Passed <=> Passed') /\ (Careful => Careful')
    BY <2>1 DEF HostTyped, Passed, Careful, Grants!Valid, Grants!Grantable, Grants!PathOf, Grants!Declares
  <2>3. (Grants!Valid /\ Grants!Grantable) <=> (Grants!Valid /\ Grants!Grantable)'
    BY <2>1 DEF Grants!Valid, Grants!Grantable, Grants!PathOf
  <2>4. Good(grants, Len(declared)) => Good(grants, Len(declared))'
    BY <2>1 DEF Good, GoodDirs, GoodImports, Placed, Wants
  <2> QED BY <2>1, <2>2, <2>3, <2>4 DEF GrantInv
<1> QED BY <1>1, DeriveStep, StartStep DEF Grants!Next

\* A session that runs may do what its package declares.
LEMMA RunningIs ==
  ASSUME GrantInv, stage = "running"
  PROVE  Grants!AccessIsDeclared
<1>1. /\ HostTyped /\ Good(grants, Len(declared)) /\ Passed
  BY DEF GrantInv
<1>2. DOMAIN declared = 1 .. Len(declared) /\ \A i \in DOMAIN declared : declared[i] \in Grants!Capability
  BY <1>1 DEF HostTyped
<1>3. runtime.preopens = Grants!Elements(grants.dirs)
  BY <1>1 DEF Passed
<1>4. ASSUME NEW kind \in {"app-data", "documents"}, NEW write \in BOOLEAN
      PROVE  Grants!Opens(Grants!Guest(kind), write)
               <=> Grants!Declares(kind, IF write THEN {"rw"} ELSE Grants!Access)
  <2>1. Grants!Opens(Grants!Guest(kind), write) <=> Has(grants.dirs, Grants!Guest(kind), write)
    BY <1>3 DEF Grants!Opens, Has, Grants!Elements
  <2>2. Has(grants.dirs, Grants!Guest(kind), write)
          <=> \E i \in 1 .. Len(declared) : Wants(i, kind, write)
    BY <1>1 DEF Good, GoodDirs
  <2>3. ASSUME NEW i \in DOMAIN declared
        PROVE  Wants(i, kind, write)
                 <=> /\ declared[i].kind = kind
                     /\ declared[i].of \in IF write THEN {"rw"} ELSE Grants!Access
    <3>1. declared[i].kind = kind => declared[i] \in Grants!Directory
      BY <1>2 DEF Grants!Capability, Grants!Directory, Grants!Import, Grants!Fetch, Grants!Unsupported
    <3>2. declared[i] \in Grants!Directory => declared[i].of \in Grants!Access
      BY DEF Grants!Directory
    <3>3. CASE write = TRUE
      BY <3>1, <3>3 DEF Wants
    <3>4. CASE write = FALSE
      BY <3>1, <3>2, <3>4 DEF Wants
    <3> QED BY <3>3, <3>4
  <2> QED BY <1>2, <2>1, <2>2, <2>3 DEF Grants!Declares
<1>5. ASSUME NEW kind \in {"app-data", "documents"}, NEW d \in runtime.preopens,
             d.guest = Grants!Guest(kind)
      PROVE  d.host = Grants!PathOf(kind)
  <2>1. PICK j \in DOMAIN grants.dirs : d = grants.dirs[j]
    BY <1>3 DEF Grants!Elements
  <2>2. Placed(d)
    BY <1>1, <2>1 DEF Good, GoodDirs
  <2> QED BY <1>5, <2>2 DEF Placed, Grants!Guest, Grants!PathOf
<1>11. portal = {[path |-> Grants!PathOf(kind), writable |-> Grants!Declares(kind, {"rw"})] :
                  kind \in {k \in {"app-data", "documents"} : Grants!Declares(k, Grants!Access)}}
  <2> DEFINE Entry(d) == [path |-> d.host, writable |-> d.access = "rw"]
             Due(kind) == [path |-> Grants!PathOf(kind), writable |-> Grants!Declares(kind, {"rw"})]
  <2>1. portal = {Entry(d) : d \in runtime.preopens}
    BY <1>1, <1>3 DEF Passed, Grants!Allowed
  <2>2. \A d, e \in runtime.preopens : d.guest = e.guest => d = e
    BY <1>1, <1>3 DEF Good, GoodDirs, Alone, Grants!Elements
  <2>3. ASSUME NEW d \in runtime.preopens, NEW kind \in {"app-data", "documents"},
               d.guest = Grants!Guest(kind)
        PROVE  Entry(d) = Due(kind)
    <3>1. d.host = Grants!PathOf(kind)
      BY <1>5, <2>3
    <3>2. Grants!Opens(Grants!Guest(kind), TRUE) <=> Grants!Declares(kind, {"rw"})
      BY <1>4
    <3>3. Grants!Opens(Grants!Guest(kind), TRUE) <=> d.access = "rw"
      BY <2>2, <2>3 DEF Grants!Opens
    <3>4. (d.access = "rw") = Grants!Declares(kind, {"rw"})
      BY <3>2, <3>3 DEF Grants!Declares
    <3> QED BY <3>1, <3>4
  <2>4. ASSUME NEW d \in runtime.preopens
        PROVE  \E kind \in {"app-data", "documents"} :
                 d.guest = Grants!Guest(kind) /\ Grants!Declares(kind, Grants!Access)
    <3>0. PICK j \in DOMAIN grants.dirs : d = grants.dirs[j]
      BY <1>3 DEF Grants!Elements
    <3>1. d.guest \in {"/data", "/xdg/documents"}
      <4>1. d \in Dirs
        BY <1>1, <3>0 DEF Good, GoodDirs
      <4> QED BY <4>1 DEF Dirs
    <3>2. PICK kind \in {"app-data", "documents"} : d.guest = Grants!Guest(kind)
      BY <3>1 DEF Grants!Guest
    <3>3. Grants!Opens(Grants!Guest(kind), FALSE) => Grants!Declares(kind, Grants!Access)
      BY <1>4
    <3> QED BY <3>2, <3>3 DEF Grants!Opens
  <2>5. ASSUME NEW kind \in {"app-data", "documents"}, Grants!Declares(kind, Grants!Access)
        PROVE  \E d \in runtime.preopens : d.guest = Grants!Guest(kind)
    <3>1. Grants!Opens(Grants!Guest(kind), FALSE)
      BY <1>4, <2>5
    <3> QED BY <3>1 DEF Grants!Opens
  <2> HIDE DEF Entry, Due
  <2>6. \A kind \in {"app-data", "documents"} : Grants!Declares(kind, Grants!Access) =>
          \E d \in runtime.preopens : Entry(d) = Due(kind)
    BY <2>3, <2>5
  <2>7. \A d \in runtime.preopens :
          \E kind \in {"app-data", "documents"} :
            Grants!Declares(kind, Grants!Access) /\ Entry(d) = Due(kind)
    BY <2>3, <2>4
  <2>8. portal = {Due(kind) : kind \in {k \in {"app-data", "documents"} :
                                         Grants!Declares(k, Grants!Access)}}
    BY <2>1, <2>6, <2>7
  <2> QED BY <2>8 DEF Due
<1> DEFINE imports == Grants!Elements(grants.imports)
<1>6. \A c : c \in imports <=> \E i \in DOMAIN declared : declared[i] = c /\ c \notin Grants!Directory
  <2>1. \A c : c \in imports <=> \E j \in DOMAIN grants.imports : grants.imports[j] = c
    BY DEF Grants!Elements
  <2> QED BY <1>1, <1>2, <2>1 DEF Good, GoodImports
<1>7. /\ runtime.fetch = {c.of : c \in imports \cap Grants!Fetch}
      /\ runtime.imports = {c.kind : c \in imports \ Grants!Fetch}
  BY <1>1 DEF Passed
<1> HIDE DEF imports
<1>8. ASSUME NEW kind \in {"notifications", "clipboard-read", "clipboard-write"}
      PROVE  Grants!Calls(kind) <=> Grants!Declares(kind, {""})
  <2>1. \A i \in DOMAIN declared : declared[i].kind = kind =>
          /\ declared[i] \notin Grants!Directory /\ declared[i] \notin Grants!Fetch
          /\ declared[i].of = ""
    BY <1>2 DEF Grants!Capability, Grants!Directory, Grants!Import, Grants!Fetch, Grants!Unsupported
  <2>2. Grants!Calls(kind) <=> \E c \in imports \ Grants!Fetch : c.kind = kind
    BY <1>7 DEF Grants!Calls
  <2>3. (\E c \in imports \ Grants!Fetch : c.kind = kind)
          <=> \E i \in DOMAIN declared : declared[i].kind = kind
    BY <1>6, <2>1
  <2>4. Grants!Declares(kind, {""}) <=> \E i \in DOMAIN declared : declared[i].kind = kind
    BY <2>1 DEF Grants!Declares
  <2> QED BY <2>2, <2>3, <2>4
<1>9. \A h : h \in runtime.fetch <=> Grants!Declares("fetch", {h})
  <2>1. \A i \in DOMAIN declared : declared[i].kind = "fetch" <=> declared[i] \in Grants!Fetch
    BY <1>2 DEF Grants!Capability, Grants!Directory, Grants!Import, Grants!Fetch, Grants!Unsupported
  <2>2. \A i \in DOMAIN declared : declared[i] \in Grants!Fetch => declared[i] \notin Grants!Directory
    BY DEF Grants!Fetch, Grants!Directory
  <2>3. \A h : h \in runtime.fetch <=> \E c \in imports \cap Grants!Fetch : c.of = h
    BY <1>7
  <2>4. \A h : (\E c \in imports \cap Grants!Fetch : c.of = h)
                 <=> \E i \in DOMAIN declared : declared[i] \in Grants!Fetch /\ declared[i].of = h
    BY <1>6, <2>2
  <2> QED BY <2>1, <2>3, <2>4 DEF Grants!Declares
<1>10. ASSUME NEW h \in Host
       PROVE  /\ Grants!Fetches(h, "public") <=> Grants!Declares("fetch", {h, "*"})
              /\ Grants!Fetches(h, "private") <=> h \in Address /\ Grants!Declares("fetch", {h})
  <2>1. Grants!Declares("fetch", {h, "*"})
          <=> Grants!Declares("fetch", {h}) \/ Grants!Declares("fetch", {"*"})
    BY DEF Grants!Declares
  <2> QED BY <1>9, <2>1 DEF Grants!Fetches, Grants!Reach
<1> QED BY <1>4, <1>5, <1>8, <1>10, <1>11 DEF Grants!AccessIsDeclared, GrantInv, Careful

\* Whatever a manifest declares, in any order and however often, and whatever
\* hosts and addresses there are: a session that runs may do exactly that, in
\* the runtime and in the file portal, and the data directory is touched only
\* for a manifest that declares it and holds nothing to refuse.
THEOREM AccessStaysDeclared == Spec => []AccessIsDeclared
<1>1. Init => GrantInv
  BY InitGrants
<1>2. GrantInv /\ [Next]_vars => GrantInv'
  BY NextGrants, PartSteps
<1>3. GrantInv => AccessIsDeclared
  <2> SUFFICES ASSUME GrantInv PROVE Grants!AccessIsDeclared
    BY DEF AccessIsDeclared
  <2>1. CASE stage = "running"
    BY <2>1, RunningIs
  <2>2. CASE stage # "running"
    BY <2>2 DEF GrantInv, Careful, Grants!AccessIsDeclared
  <2> QED BY <2>1, <2>2
<1> QED BY <1>1, <1>2, <1>3, PTL DEF Spec
=============================================================================
