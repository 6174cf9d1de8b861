-------------------------- MODULE MarketEventsProofs --------------------------
(***************************************************************************)
(* The contracts announce what they set and what they move.                *)
(*                                                                         *)
(* Collateral switches, eMode categories and delegated allowances are the  *)
(* settings of the market: an event carries the new value of each, and an  *)
(* index can only know what events carry.  Every call, however many side   *)
(* effects it has, either leaves a setting as it is and says nothing about *)
(* it, or the last event it emits about it carries the value it now has    *)
(* (Follows).  A step of a call that neither changes nor announces one is  *)
(* Silent.                                                                 *)
(*                                                                         *)
(* Of amounts an event carries the change.  What the ledgers hold (cash,   *)
(* scaled balances and stable principals: the Keys) is a number per key,   *)
(* and a call Moves the market along a Trace: numbers from what the ledger *)
(* read before the call to what it reads after, each the last one plus    *)
(* what its event says of the key, up to the rounding of a burn that is    *)
(* announced as a mint.  What a call takes and has not yet given back is   *)
(* carried along until the sum is zero.                                    *)
(***************************************************************************)
EXTENDS MarketIndexing, ArithmeticProofs

-------------------------------------------------------------------------------
(* The log as a sequence.                                                  *)

IsLog(s) == s \in Seq({s[i] : i \in DOMAIN s})

LEMMA LogOf ==
    ASSUME NEW S, NEW s \in Seq(S)
    PROVE  IsLog(s)
<1>. DEFINE R == {s[i] : i \in DOMAIN s}
<1>1. s = [i \in 1..Len(s) |-> s[i]] /\ Len(s) \in Nat /\ DOMAIN s = 1..Len(s)
  OBVIOUS
<1>2. [i \in 1..Len(s) |-> s[i]] \in Seq(R)
  BY <1>1
<1>. QED
  BY <1>1, <1>2 DEF IsLog

LEMMA LogAppended ==
    ASSUME NEW s, IsLog(s), NEW e
    PROVE  /\ IsLog(Append(s, e))
           /\ Len(s) \in Nat /\ Len(Append(s, e)) = Len(s) + 1
           /\ DOMAIN s = 1..Len(s) /\ DOMAIN Append(s, e) = 1..(Len(s) + 1)
           /\ \A i \in 1..Len(s) : Append(s, e)[i] = s[i]
           /\ Append(s, e)[Len(s) + 1] = e
<1>. DEFINE R == {s[i] : i \in DOMAIN s} \cup {e}
<1>1. s \in Seq(R)
  <2>1. s \in Seq({s[i] : i \in DOMAIN s})
    BY DEF IsLog
  <2>. QED
    BY <2>1
<1>2. Append(s, e) \in Seq(R) /\ e \in R
  BY <1>1
<1>. HIDE DEF R
<1>3. IsLog(Append(s, e))
  BY <1>2, LogOf
<1>. QED
  BY <1>1, <1>2, <1>3

LEMMA LogConsumed ==
    ASSUME NEW s, IsLog(s), s # <<>>
    PROVE  /\ Len(s) \in Nat \ {0} /\ DOMAIN s = 1..Len(s) /\ Head(s) = s[1]
           /\ IsLog(Tail(s)) /\ Len(Tail(s)) = Len(s) - 1
           /\ DOMAIN Tail(s) = 1..(Len(s) - 1)
           /\ \A i \in 1..(Len(s) - 1) : Tail(s)[i] = s[i + 1]
<1>. DEFINE R == {s[i] : i \in DOMAIN s}
<1>1. s \in Seq(R)
  BY DEF IsLog
<1>. HIDE DEF R
<1>2. Tail(s) \in Seq(R)
  BY <1>1
<1>3. IsLog(Tail(s))
  BY <1>2, LogOf
<1>. QED
  BY <1>1, <1>2, <1>3

-------------------------------------------------------------------------------
(* Settings: the state that events announce with its new value.            *)

SwitchNames == {"ReserveUsedAsCollateralEnabled", "ReserveUsedAsCollateralDisabled"}

AllowanceName(kind) ==
    IF kind = "sToken" THEN "SBorrowAllowanceDelegated" ELSE "VBorrowAllowanceDelegated"

SettingNames ==
    SwitchNames \cup {"UserEModeSet", "SBorrowAllowanceDelegated", "VBorrowAllowanceDelegated"}

Switches == {"collateral"} \X Users \X Assets
Categories == {"eMode"} \X Users
Allowances == {"sToken", "vToken"} \X Users \X Users \X Assets
Settings == Switches \cup Categories \cup Allowances

Setting(m, k) ==
    CASE k[1] = "collateral" -> m.position[k[2], k[3]].collateral
      [] k[1] = "eMode" -> m.eMode[k[2]]
      [] OTHER -> m.allowance[k]

Announces(e, k) ==
    CASE k[1] = "collateral" -> e.name \in SwitchNames /\ e.user = k[2] /\ e.reserve = k[3]
      [] k[1] = "eMode" -> e.name = "UserEModeSet" /\ e.user = k[2]
      [] OTHER -> /\ e.name = AllowanceName(k[1])
                  /\ e.fromUser = k[2] /\ e.toUser = k[3] /\ e.asset = k[4]

Announced(e) ==
    CASE e.name = "ReserveUsedAsCollateralEnabled" -> TRUE
      [] e.name = "ReserveUsedAsCollateralDisabled" -> FALSE
      [] e.name = "UserEModeSet" -> e.categoryId
      [] OTHER -> e.amount

-------------------------------------------------------------------------------
(* Markets.                                                                *)

Emitters == Tokens \cup {Pool, PoolConfigurator}

Fits(e) ==
    /\ e.address \in Emitters
    /\ e.name = "UserEModeSet" => e.user \in Users /\ e.categoryId \in Nat

Shaped(m) ==
    /\ DOMAIN m = {"index", "position", "underlying", "stableTotal", "stableGrowth", "earning",
                   "accrued", "unbacked", "isolatedDebt", "eMode", "bridgeFee", "allowance",
                   "log", "reverted"}
    /\ DOMAIN m.position = Holders \X Assets
    /\ \A p \in Holders \X Assets :
         DOMAIN m.position[p] = {"bToken", "vToken", "principal", "interest", "collateral"}
    /\ DOMAIN m.eMode = Users
    /\ DOMAIN m.allowance = Allowances

IsMarket(m) ==
    /\ Shaped(m)
    /\ IsLog(m.log) /\ \A i \in DOMAIN m.log : Fits(m.log[i])

SameSettings(m, n) ==
    /\ \A u \in Users, a \in Assets : n.position[u, a].collateral = m.position[u, a].collateral
    /\ n.eMode = m.eMode /\ n.allowance = m.allowance

\* Nothing to announce, and nothing announced.
Silent(m, n) ==
    Shaped(m) => Shaped(n) /\ n.log = m.log /\ SameSettings(m, n)

\* The log of n continues that of m, and the last of the new events about a setting, if
\* there is one, announces what it is in n.
Follows(m, n) ==
    IsMarket(m) =>
      /\ IsMarket(n)
      /\ Len(m.log) <= Len(n.log)
      /\ \A i \in 1..Len(m.log) : n.log[i] = m.log[i]
      /\ \A k \in Settings :
           \/ /\ Setting(n, k) = Setting(m, k)
              /\ \A i \in Len(m.log) + 1..Len(n.log) : ~Announces(n.log[i], k)
           \/ \E i \in Len(m.log) + 1..Len(n.log) :
                /\ Announces(n.log[i], k) /\ Announced(n.log[i]) = Setting(n, k)
                /\ \A j \in i + 1..Len(n.log) : ~Announces(n.log[j], k)

LEMMA LogBounds ==
    ASSUME NEW m, IsMarket(m)
    PROVE  Len(m.log) \in Nat /\ DOMAIN m.log = 1..Len(m.log)
<1>1. m.log \in Seq({m.log[i] : i \in DOMAIN m.log})
  BY DEF IsMarket, IsLog
<1>. QED
  BY <1>1

LEMMA FollowsItself ==
    ASSUME NEW m
    PROVE  Follows(m, m)
BY LogBounds DEF Follows

LEMMA FollowsOn ==
    ASSUME NEW l, NEW m, NEW n, Follows(l, m), Follows(m, n)
    PROVE  Follows(l, n)
<1>. SUFFICES ASSUME IsMarket(l)
              PROVE  /\ IsMarket(n)
                     /\ Len(l.log) <= Len(n.log)
                     /\ \A i \in 1..Len(l.log) : n.log[i] = l.log[i]
                     /\ \A k \in Settings :
                          \/ /\ Setting(n, k) = Setting(l, k)
                             /\ \A i \in Len(l.log) + 1..Len(n.log) : ~Announces(n.log[i], k)
                          \/ \E i \in Len(l.log) + 1..Len(n.log) :
                               /\ Announces(n.log[i], k) /\ Announced(n.log[i]) = Setting(n, k)
                               /\ \A j \in i + 1..Len(n.log) : ~Announces(n.log[j], k)
  BY DEF Follows
<1>1. IsMarket(m) /\ IsMarket(n)
  BY DEF Follows
<1>2. /\ Len(l.log) \in Nat /\ Len(m.log) \in Nat /\ Len(n.log) \in Nat
      /\ Len(l.log) <= Len(m.log) /\ Len(m.log) <= Len(n.log)
  BY <1>1, LogBounds DEF Follows
<1>3. /\ \A i \in 1..Len(l.log) : m.log[i] = l.log[i]
      /\ \A i \in 1..Len(m.log) : n.log[i] = m.log[i]
  BY <1>1 DEF Follows
<1>4. ASSUME NEW k \in Settings
      PROVE  \/ /\ Setting(n, k) = Setting(l, k)
                /\ \A i \in Len(l.log) + 1..Len(n.log) : ~Announces(n.log[i], k)
             \/ \E i \in Len(l.log) + 1..Len(n.log) :
                  /\ Announces(n.log[i], k) /\ Announced(n.log[i]) = Setting(n, k)
                  /\ \A j \in i + 1..Len(n.log) : ~Announces(n.log[j], k)
  <2>1. CASE \E i \in Len(m.log) + 1..Len(n.log) :
                  /\ Announces(n.log[i], k) /\ Announced(n.log[i]) = Setting(n, k)
                  /\ \A j \in i + 1..Len(n.log) : ~Announces(n.log[j], k)
    BY <1>2, <2>1
  <2>2. CASE /\ Setting(n, k) = Setting(m, k)
             /\ \A i \in Len(m.log) + 1..Len(n.log) : ~Announces(n.log[i], k)
    <3>1. CASE /\ Setting(m, k) = Setting(l, k)
               /\ \A i \in Len(l.log) + 1..Len(m.log) : ~Announces(m.log[i], k)
      BY <1>2, <1>3, <2>2, <3>1
    <3>2. CASE \E i \in Len(l.log) + 1..Len(m.log) :
                  /\ Announces(m.log[i], k) /\ Announced(m.log[i]) = Setting(m, k)
                  /\ \A j \in i + 1..Len(m.log) : ~Announces(m.log[j], k)
      <4>1. PICK i \in Len(l.log) + 1..Len(m.log) :
                  /\ Announces(m.log[i], k) /\ Announced(m.log[i]) = Setting(m, k)
                  /\ \A j \in i + 1..Len(m.log) : ~Announces(m.log[j], k)
        BY <3>2
      <4>2. i \in 1..Len(m.log) /\ i \in Len(l.log) + 1..Len(n.log) /\ n.log[i] = m.log[i]
        BY <1>2, <1>3
      <4>3. ASSUME NEW j \in i + 1..Len(n.log) PROVE ~Announces(n.log[j], k)
        BY <1>2, <1>3, <2>2, <4>1, <4>2
      <4>. QED
        BY <2>2, <4>1, <4>2, <4>3
    <3>. QED
      BY <1>1, <3>1, <3>2 DEF Follows
  <2>. QED
    BY <1>1, <2>1, <2>2 DEF Follows
<1>. QED
  BY <1>1, <1>2, <1>3, <1>4

-------------------------------------------------------------------------------
(* Steps of a call that announce no setting.                               *)

LEMMA SettingsAreSame ==
    ASSUME NEW m, NEW n, SameSettings(m, n), NEW k \in Settings
    PROVE  Setting(n, k) = Setting(m, k)
<1>1. CASE k \in Switches
  BY <1>1 DEF Switches, Setting, SameSettings
<1>2. CASE k \in Categories
  BY <1>2 DEF Categories, Setting, SameSettings
<1>3. CASE k \in Allowances
  BY <1>3 DEF Allowances, Setting, SameSettings
<1>. QED
  BY <1>1, <1>2, <1>3 DEF Settings

LEMMA SilentFollows ==
    ASSUME NEW m, NEW n, Silent(m, n)
    PROVE  Follows(m, n)
<1>. SUFFICES ASSUME IsMarket(m) PROVE Follows(m, n)
  BY DEF Follows
<1>1. Shaped(n) /\ n.log = m.log /\ SameSettings(m, n)
  BY DEF Silent, IsMarket
<1>2. \A k \in Settings : Setting(n, k) = Setting(m, k)
  BY <1>1, SettingsAreSame
<1>. QED
  BY <1>1, <1>2, LogBounds DEF Follows, IsMarket

LEMMA SilentOn ==
    ASSUME NEW l, NEW m, NEW n, Silent(l, m), Silent(m, n)
    PROVE  Silent(l, n)
BY DEF Silent, SameSettings

LEMMA OthersAnnounceNothing ==
    ASSUME NEW e, e.name \notin SettingNames, NEW k \in Settings
    PROVE  ~Announces(e, k)
BY DEF Announces, SettingNames, SwitchNames, AllowanceName, Settings, Switches, Categories,
       Allowances

\* An event on top of a step: what the step changed, it announces.
LEMMA AnnouncedFollows ==
    ASSUME NEW m, NEW n, NEW e, IsMarket(m), Shaped(n), n.log = Append(m.log, e), Fits(e),
           \A k \in Settings : IF Announces(e, k) THEN Setting(n, k) = Announced(e)
                                                  ELSE Setting(n, k) = Setting(m, k)
    PROVE  Follows(m, n)
<1>1. /\ IsLog(n.log) /\ Len(m.log) \in Nat /\ Len(n.log) = Len(m.log) + 1
      /\ DOMAIN m.log = 1..Len(m.log) /\ DOMAIN n.log = 1..(Len(m.log) + 1)
      /\ \A i \in 1..Len(m.log) : n.log[i] = m.log[i]
      /\ n.log[Len(m.log) + 1] = e
  BY LogAppended DEF IsMarket
<1>2. IsMarket(n)
  BY <1>1 DEF IsMarket
<1>. QED
  BY <1>1, <1>2 DEF Follows

LEMMA EmitFollows ==
    ASSUME NEW m, NEW e, Fits(e), e.name \notin SettingNames
    PROVE  Follows(m, Emit(m, e))
<1>. SUFFICES ASSUME IsMarket(m) PROVE Follows(m, Emit(m, e))
  BY DEF Follows
<1>1. /\ Shaped(Emit(m, e)) /\ SameSettings(m, Emit(m, e))
      /\ Emit(m, e).log = Append(m.log, e)
  BY DEF IsMarket, Shaped, Emit, SameSettings
<1>2. \A k \in Settings : ~Announces(e, k) /\ Setting(Emit(m, e), k) = Setting(m, k)
  BY <1>1, OthersAnnounceNothing, SettingsAreSame
<1>. QED
  BY <1>1, <1>2, AnnouncedFollows

LEMMA EmitOn ==
    ASSUME NEW l, NEW m, NEW e, Follows(l, m), Fits(e), e.name \notin SettingNames
    PROVE  Follows(l, Emit(m, e))
BY EmitFollows, FollowsOn

LEMMA RequireSilent ==
    ASSUME NEW m, NEW condition
    PROVE  Silent(m, Require(m, condition))
BY DEF Silent, Shaped, SameSettings, Require

LEMMA TouchSilent ==
    ASSUME NEW m, NEW kind \in {"bToken", "vToken"}, NEW u \in Holders, NEW a \in Assets,
           NEW scaled
    PROVE  Silent(m, Touch(m, kind, u, a, scaled))
<1>. DEFINE n == [m EXCEPT !.position[<<u, a>>][kind].balance = @ + scaled,
                           !.position[<<u, a>>][kind].index = m.index[kind][a]]
<1>1. Silent(m, n)
  BY DEF Silent, Shaped, SameSettings, Holders
<1>2. Touch(m, kind, u, a, scaled) = Require(n, m.position[u, a][kind].balance + scaled >= 0)
  BY DEF Touch
<1>. HIDE DEF n
<1>. QED
  BY <1>1, <1>2, RequireSilent, SilentOn

LEMMA CompoundSilent ==
    ASSUME NEW m, NEW u \in Users, NEW a \in Assets, NEW change, NEW supply
    PROVE  Silent(m, Compound(m, u, a, change, supply))
<1>. DEFINE n == [m EXCEPT !.position[<<u, a>>].principal = @ + change,
                           !.position[<<u, a>>].interest = 0,
                           !.stableTotal[a] = supply, !.stableGrowth[a] = 0]
<1>1. Silent(m, n)
  BY DEF Silent, Shaped, SameSettings, Holders
<1>2. Compound(m, u, a, change, supply) = Require(n, m.position[u, a].principal + change >= 0)
  BY DEF Compound
<1>. HIDE DEF n
<1>. QED
  BY <1>1, <1>2, RequireSilent, SilentOn

LEMMA ReserveStepsSilent ==
    ASSUME NEW m, NEW a
    PROVE  /\ Silent(m, updateState(m, a))
           /\ \A amount : Silent(m, MoveCash(m, a, amount))
           /\ \A amount, p : Silent(m, cumulate(m, a, amount, p))
<1>1. Silent(m, updateState(m, a))
  BY DEF Silent, Shaped, SameSettings, updateState
<1>2. ASSUME NEW amount PROVE Silent(m, MoveCash(m, a, amount))
  <2>1. Silent(m, [m EXCEPT !.underlying[a] = @ + amount])
    BY DEF Silent, Shaped, SameSettings
  <2>. QED
    BY <2>1, RequireSilent, SilentOn DEF MoveCash
<1>3. ASSUME NEW amount, NEW p PROVE Silent(m, cumulate(m, a, amount, p))
  <2>1. \A i, r : Silent(m, [m EXCEPT !.index["bToken"][a] = i, !.accrued[a] = @ + r])
    BY DEF Silent, Shaped, SameSettings
  <2>. QED
    BY <2>1, RequireSilent DEF cumulate
<1>. QED
  BY <1>1, <1>2, <1>3

LEMMA AddressesFit ==
    /\ Pool \in Emitters /\ PoolConfigurator \in Emitters
    /\ \A kind \in {"bToken", "sToken", "vToken"}, a \in Assets : TokenOf(kind, a) \in Emitters
BY DEF Emitters, Tokens, TokenOf

-------------------------------------------------------------------------------
(* Steps of a call.                                                        *)

LEMMA TokenEventsFit ==
    ASSUME NEW m, NEW kind \in {"bToken", "vToken"}, NEW u, NEW a \in Assets, NEW value
    PROVE  /\ Fits(MintEvent(m, kind, u, a, value)) /\ Fits(BurnEvent(m, kind, u, a, value))
           /\ MintEvent(m, kind, u, a, value).name \notin SettingNames
           /\ BurnEvent(m, kind, u, a, value).name \notin SettingNames
<1>1. TokenOf(kind, a) \in Emitters
  BY AddressesFit
<1>. QED
  BY <1>1 DEF MintEvent, BurnEvent, BTokenMint, VTokenMint, BTokenBurn, VTokenBurn, Fits,
              SettingNames, SwitchNames

LEMMA MintScaledFollows ==
    ASSUME NEW m, NEW kind \in {"bToken", "vToken"}, NEW u \in Holders, NEW a \in Assets,
           NEW amount
    PROVE  Follows(m, mintScaled(m, kind, u, a, amount))
<1>. DEFINE scaled == RayDiv(amount, m.index[kind][a])
            touched == Touch(Require(m, scaled # 0), kind, u, a, scaled)
            e == MintEvent(m, kind, u, a, amount + Increase(m, kind, u, a))
<1>1. Follows(m, touched)
  <2>. HIDE DEF scaled
  <2>. QED
    BY RequireSilent, TouchSilent, SilentOn, SilentFollows
<1>2. Fits(e) /\ e.name \notin SettingNames
  BY TokenEventsFit
<1>3. mintScaled(m, kind, u, a, amount) = Emit(touched, e)
  BY DEF mintScaled
<1>. HIDE DEF touched, e
<1>. QED
  BY <1>1, <1>2, <1>3, EmitOn

LEMMA BurnScaledFollows ==
    ASSUME NEW m, NEW kind \in {"bToken", "vToken"}, NEW u \in Holders, NEW a \in Assets,
           NEW amount
    PROVE  Follows(m, burnScaled(m, kind, u, a, amount))
<1>. DEFINE scaled == RayDiv(amount, m.index[kind][a])
            touched == Touch(Require(m, scaled # 0), kind, u, a, -scaled)
            increase == Increase(m, kind, u, a)
            e == IF increase > amount THEN MintEvent(m, kind, u, a, increase - amount)
                                      ELSE BurnEvent(m, kind, u, a, amount - increase)
<1>1. Follows(m, touched)
  <2>. HIDE DEF scaled
  <2>. QED
    BY RequireSilent, TouchSilent, SilentOn, SilentFollows
<1>2. Fits(e) /\ e.name \notin SettingNames
  BY TokenEventsFit
<1>3. burnScaled(m, kind, u, a, amount) = Emit(touched, e)
  BY DEF burnScaled
<1>. HIDE DEF touched, e
<1>. QED
  BY <1>1, <1>2, <1>3, EmitOn

LEMMA StableMintFollows ==
    ASSUME NEW m, NEW caller, NEW u \in Users, NEW a \in Assets, NEW amount
    PROVE  Follows(m, stableMint(m, caller, u, a, amount))
<1>. DEFINE increase == m.position[u, a].interest
            supply == m.stableTotal[a] + m.stableGrowth[a] + amount
            n == Compound(m, u, a, amount + increase, supply)
            e == STokenMint(TokenOf("sToken", a), caller, u, amount + increase, increase, supply)
<1>1. Follows(m, n)
  BY CompoundSilent, SilentFollows
<1>2. Fits(e) /\ e.name \notin SettingNames
  BY AddressesFit DEF STokenMint, Fits, SettingNames, SwitchNames
<1>3. stableMint(m, caller, u, a, amount) = Emit(n, e)
  BY DEF stableMint
<1>. HIDE DEF n, e
<1>. QED
  BY <1>1, <1>2, <1>3, EmitOn

LEMMA StableBurnFollows ==
    ASSUME NEW m, NEW u \in Users, NEW a \in Assets, NEW amount
    PROVE  Follows(m, stableBurn(m, u, a, amount))
<1>. DEFINE increase == m.position[u, a].interest
            previous == m.stableTotal[a] + m.stableGrowth[a]
            supply == IF previous <= amount THEN 0 ELSE previous - amount
            token == TokenOf("sToken", a)
            n == Compound(m, u, a, increase - amount, supply)
            e == IF increase > amount
                 THEN STokenMint(token, u, u, increase - amount, increase, supply)
                 ELSE STokenBurn(token, u, amount - increase, increase, supply)
<1>1. Follows(m, n)
  BY CompoundSilent, SilentFollows
<1>2. Fits(e) /\ e.name \notin SettingNames
  BY AddressesFit DEF STokenMint, STokenBurn, Fits, SettingNames, SwitchNames
<1>3. stableBurn(m, u, a, amount) = Emit(n, e)
  BY DEF stableBurn
<1>. HIDE DEF n, e
<1>. QED
  BY <1>1, <1>2, <1>3, EmitOn

\* The three steps that change settings.
LEMMA SwitchFollows ==
    ASSUME NEW m, NEW u \in Users, NEW a \in Assets, NEW use \in BOOLEAN
    PROVE  Follows(m, setUsingAsCollateral(m, u, a, use))
<1>. SUFFICES ASSUME IsMarket(m)
              PROVE  Follows(m, setUsingAsCollateral(m, u, a, use))
  BY DEF Follows
<1>. DEFINE c == [m EXCEPT !.position[<<u, a>>].collateral = use]
            e == IF use THEN ReserveUsedAsCollateralEnabled(Pool, a, u)
                        ELSE ReserveUsedAsCollateralDisabled(Pool, a, u)
            n == Emit(c, e)
<1>1. setUsingAsCollateral(m, u, a, use) = n
  BY DEF setUsingAsCollateral
<1>2. /\ e.address = Pool /\ e.name \in SwitchNames /\ e.user = u /\ e.reserve = a
      /\ Announced(e) = use
  BY DEF ReserveUsedAsCollateralEnabled, ReserveUsedAsCollateralDisabled, SwitchNames, Announced
<1>3. Fits(e)
  BY <1>2, AddressesFit DEF Fits, SwitchNames
<1>4. /\ Shaped(n) /\ n.log = Append(m.log, e)
      /\ n.eMode = m.eMode /\ n.allowance = m.allowance
      /\ \A v \in Users, b \in Assets :
            n.position[v, b].collateral =
              IF v = u /\ b = a THEN use ELSE m.position[v, b].collateral
  <2>. HIDE DEF e
  <2>. QED
    BY DEF IsMarket, Shaped, Emit, Holders
<1>. HIDE DEF n, e
<1>5. ASSUME NEW k \in Settings
      PROVE  IF Announces(e, k) THEN Setting(n, k) = Announced(e) ELSE Setting(n, k) = Setting(m, k)
  <2>1. CASE k \in Switches
    BY <1>2, <1>4, <2>1 DEF Switches, Setting, Announces
  <2>2. CASE k \in Categories
    BY <1>2, <1>4, <2>2 DEF Categories, Setting, Announces, SwitchNames
  <2>3. CASE k \in Allowances
    BY <1>2, <1>4, <2>3 DEF Allowances, Setting, Announces, SwitchNames, AllowanceName
  <2>. QED
    BY <2>1, <2>2, <2>3 DEF Settings
<1>. QED
  BY <1>1, <1>3, <1>4, <1>5, AnnouncedFollows

LEMMA ApproveFollows ==
    ASSUME NEW m, NEW kind \in {"sToken", "vToken"}, NEW from \in Users, NEW to \in Users,
           NEW a \in Assets, NEW amount
    PROVE  Follows(m, approve(m, kind, from, to, a, amount))
<1>. SUFFICES ASSUME IsMarket(m)
              PROVE  Follows(m, approve(m, kind, from, to, a, amount))
  BY DEF Follows
<1>. DEFINE key == <<kind, from, to, a>>
            c == [Require(m, amount >= 0) EXCEPT !.allowance[key] = amount]
            e == AllowanceEvent(kind, from, to, a, amount)
            n == Emit(c, e)
<1>1. approve(m, kind, from, to, a, amount) = n
  BY DEF approve
<1>2. /\ e.address = TokenOf(kind, a) /\ e.name = AllowanceName(kind)
      /\ e.fromUser = from /\ e.toUser = to /\ e.asset = a /\ e.amount = amount
      /\ Announced(e) = amount
  BY DEF AllowanceEvent, SBorrowAllowanceDelegated, VBorrowAllowanceDelegated, AllowanceName,
         Announced
<1>3. Fits(e)
  BY <1>2, AddressesFit DEF Fits, AllowanceName
<1>4. /\ Shaped(n) /\ n.log = Append(m.log, e)
      /\ n.eMode = m.eMode
      /\ \A v \in Users, b \in Assets : n.position[v, b].collateral = m.position[v, b].collateral
      /\ \A k \in Allowances : n.allowance[k] = IF k = key THEN amount ELSE m.allowance[k]
  <2>1. Shaped(Require(m, amount >= 0)) /\ Require(m, amount >= 0).log = m.log
        /\ SameSettings(m, Require(m, amount >= 0))
    BY RequireSilent DEF Silent, IsMarket
  <2>. HIDE DEF e
  <2>2. key \in Allowances
    BY DEF Allowances
  <2>. HIDE DEF key
  <2>. QED
    BY <2>1, <2>2 DEF Shaped, Emit, SameSettings, Holders
<1>. HIDE DEF n, e
<1>5. ASSUME NEW k \in Settings
      PROVE  IF Announces(e, k) THEN Setting(n, k) = Announced(e) ELSE Setting(n, k) = Setting(m, k)
  <2>1. CASE k \in Switches
    BY <1>2, <1>4, <2>1 DEF Switches, Setting, Announces, SwitchNames, AllowanceName
  <2>2. CASE k \in Categories
    BY <1>2, <1>4, <2>2 DEF Categories, Setting, Announces, AllowanceName
  <2>3. CASE k \in Allowances
    <3>1. k = <<k[1], k[2], k[3], k[4]>> /\ k[1] \in {"sToken", "vToken"}
      BY <2>3 DEF Allowances
    <3>2. Announces(e, k) <=> k = key
      BY <1>2, <3>1 DEF Announces, AllowanceName
    <3>3. Setting(n, k) = n.allowance[k] /\ Setting(m, k) = m.allowance[k]
      BY <3>1 DEF Setting
    <3>. QED
      BY <1>2, <1>4, <2>3, <3>2, <3>3
  <2>. QED
    BY <2>1, <2>2, <2>3 DEF Settings
<1>. QED
  BY <1>1, <1>3, <1>4, <1>5, AnnouncedFollows

LEMMA SetEModeFollows ==
    ASSUME NEW m, NEW u \in Users, NEW category \in Nat
    PROVE  Follows(m, executeSetUserEMode(m, u, category))
<1>. SUFFICES ASSUME IsMarket(m)
              PROVE  Follows(m, executeSetUserEMode(m, u, category))
  BY DEF Follows
<1>. DEFINE e == UserEModeSet(Pool, u, category)
            n == Emit([m EXCEPT !.eMode[u] = category], e)
<1>1. executeSetUserEMode(m, u, category) = n
  BY DEF executeSetUserEMode
<1>2. /\ e.address = Pool /\ e.name = "UserEModeSet" /\ e.user = u
      /\ e.categoryId = category /\ Announced(e) = category
  BY DEF UserEModeSet, Announced
<1>3. Fits(e)
  BY <1>2, AddressesFit DEF Fits
<1>4. /\ Shaped(n) /\ n.log = Append(m.log, e)
      /\ n.allowance = m.allowance
      /\ \A v \in Users, b \in Assets : n.position[v, b].collateral = m.position[v, b].collateral
      /\ \A v \in Users : n.eMode[v] = IF v = u THEN category ELSE m.eMode[v]
  <2>. HIDE DEF e
  <2>. QED
    BY DEF IsMarket, Shaped, Emit, Holders
<1>. HIDE DEF n, e
<1>5. ASSUME NEW k \in Settings
      PROVE  IF Announces(e, k) THEN Setting(n, k) = Announced(e) ELSE Setting(n, k) = Setting(m, k)
  <2>1. CASE k \in Switches
    BY <1>2, <1>4, <2>1 DEF Switches, Setting, Announces, SwitchNames
  <2>2. CASE k \in Categories
    BY <1>2, <1>4, <2>2 DEF Categories, Setting, Announces
  <2>3. CASE k \in Allowances
    BY <1>2, <1>4, <2>3 DEF Allowances, Setting, Announces, AllowanceName
  <2>. QED
    BY <2>1, <2>2, <2>3 DEF Settings
<1>. QED
  BY <1>1, <1>3, <1>4, <1>5, AnnouncedFollows

LEMMA RatesFollow ==
    ASSUME NEW m, NEW a
    PROVE  Follows(m, updateInterestRates(m, a))
<1>. DEFINE e == ReserveDataUpdated(Pool, a, m.index["bToken"][a], m.index["vToken"][a])
<1>1. Fits(e) /\ e.name \notin SettingNames
  BY AddressesFit DEF ReserveDataUpdated, Fits, SettingNames, SwitchNames
<1>2. updateInterestRates(m, a) = Emit(m, e)
  BY DEF updateInterestRates
<1>. HIDE DEF e
<1>. QED
  BY <1>1, <1>2, EmitFollows

LEMMA AutomaticUseFollows ==
    ASSUME NEW m, NEW u \in Users, NEW a \in Assets, NEW first
    PROVE  Follows(m, AutomaticUse(m, u, a, first))
<1>1. Follows(m, setUsingAsCollateral(m, u, a, TRUE))
  BY SwitchFollows
<1>2. AutomaticUse(m, u, a, first) \in {m, setUsingAsCollateral(m, u, a, TRUE)}
  BY DEF AutomaticUse
<1>. QED
  BY <1>1, <1>2, FollowsItself

LEMMA HealthSilent ==
    ASSUME NEW m, NEW u
    PROVE  Silent(m, StillHealthy(m, u))
BY RequireSilent DEF StillHealthy

LEMMA IsolatedDebtFollows ==
    ASSUME NEW m, NEW u, NEW change
    PROVE  Follows(m, ChangeIsolatedDebt(m, u, change))
<1>. DEFINE c == CHOOSE a \in IsolationOf(m, u) : TRUE
            debt == IF m.isolatedDebt[c] + change > 0 THEN m.isolatedDebt[c] + change ELSE 0
            n == [m EXCEPT !.isolatedDebt[c] = debt]
            e == IsolationModeTotalDebtUpdated(Pool, c, debt)
<1>1. Silent(m, n)
  <2>. HIDE DEF debt, c
  <2>. QED
    BY DEF Silent, Shaped, SameSettings
<1>2. Fits(e) /\ e.name \notin SettingNames
  BY AddressesFit DEF IsolationModeTotalDebtUpdated, Fits, SettingNames, SwitchNames
<1>3. ChangeIsolatedDebt(m, u, change) = IF IsolationOf(m, u) = {} THEN m ELSE Emit(n, e)
  BY DEF ChangeIsolatedDebt
<1>. HIDE DEF n, e
<1>4. Follows(m, Emit(n, e))
  BY <1>1, <1>2, SilentFollows, EmitOn
<1>. QED
  BY <1>3, <1>4, FollowsItself

LEMMA AllowanceSpentFollows ==
    ASSUME NEW m, NEW kind \in {"sToken", "vToken"}, NEW from \in Users, NEW to \in Users,
           NEW a \in Assets, NEW amount
    PROVE  Follows(m, decreaseBorrowAllowance(m, kind, from, to, a, amount))
BY ApproveFollows, FollowsItself DEF decreaseBorrowAllowance

LEMMA BurnDebtFollows ==
    ASSUME NEW m, NEW kind \in {"sToken", "vToken"}, NEW u \in Users, NEW a \in Assets, NEW amount
    PROVE  Follows(m, burnDebt(m, kind, u, a, amount))
<1>1. CASE kind = "sToken"
  BY <1>1, StableBurnFollows DEF burnDebt
<1>2. CASE kind = "vToken"
  BY <1>2, BurnScaledFollows DEF burnDebt, Holders
<1>. QED
  BY <1>1, <1>2

LEMMA ReportInterestFollows ==
    ASSUME NEW m, NEW u, NEW a \in Assets
    PROVE  Follows(m, ReportInterest(m, u, a))
<1>. DEFINE e == MintEvent(m, "bToken", u, a, Increase(m, "bToken", u, a))
<1>1. Fits(e) /\ e.name \notin SettingNames
  BY TokenEventsFit
<1>2. ReportInterest(m, u, a) \in {m, Emit(m, e)}
  BY DEF ReportInterest
<1>. HIDE DEF e
<1>. QED
  BY <1>1, <1>2, EmitFollows, FollowsItself

LEMMA MoveFollows ==
    ASSUME NEW m, NEW from \in Holders, NEW to \in Holders, NEW a \in Assets, NEW amount
    PROVE  Follows(m, MoveBTokens(m, from, to, a, amount))
<1>. DEFINE scaled == RayDiv(amount, m.index["bToken"][a])
            reported == IF from = to THEN ReportInterest(m, from, a)
                        ELSE ReportInterest(ReportInterest(m, from, a), to, a)
            taken == Touch(reported, "bToken", from, a, -scaled)
            given == Touch(taken, "bToken", to, a, scaled)
<1>1. Follows(m, reported)
  BY ReportInterestFollows, FollowsOn
<1>. HIDE DEF reported, scaled
<1>2. Silent(reported, taken) /\ Silent(taken, given)
  BY TouchSilent
<1>3. MoveBTokens(m, from, to, a, amount) = given
  BY DEF MoveBTokens, reported, scaled
<1>. HIDE DEF taken, given
<1>. QED
  BY <1>1, <1>2, <1>3, SilentOn, SilentFollows, FollowsOn

LEMMA TransferEventFits ==
    ASSUME NEW m, NEW from, NEW to, NEW a \in Assets, NEW amount
    PROVE  /\ Fits(BalanceTransferEvent(m, from, to, a, amount))
           /\ BalanceTransferEvent(m, from, to, a, amount).name \notin SettingNames
<1>1. TokenOf("bToken", a) \in Emitters
  BY AddressesFit
<1>. QED
  BY <1>1 DEF BalanceTransferEvent, BalanceTransfer, Fits, SettingNames, SwitchNames

LEMMA LiquidationTransferFollows ==
    ASSUME NEW m, NEW from \in Holders, NEW to \in Holders, NEW a \in Assets, NEW amount
    PROVE  Follows(m, transferOnLiquidation(m, from, to, a, amount))
BY MoveFollows, TransferEventFits, EmitOn DEF transferOnLiquidation

LEMMA DebtTokensFollow ==
    ASSUME NEW m, NEW u \in Users, NEW d \in Assets, NEW amount
    PROVE  Follows(m, burnDebtTokens(m, u, d, amount))
<1>. DEFINE variable == BalanceOf(m, "vToken", u, d)
            rest == IF variable # 0 THEN burnScaled(m, "vToken", u, d, variable) ELSE m
<1>1. u \in Holders
  BY DEF Holders
<1>2. Follows(m, rest)
  BY <1>1, BurnScaledFollows, FollowsItself
<1>3. burnDebtTokens(m, u, d, amount) =
        IF variable >= amount THEN burnScaled(m, "vToken", u, d, amount)
                              ELSE stableBurn(rest, u, d, amount - variable)
  BY DEF burnDebtTokens
<1>. HIDE DEF rest, variable
<1>4. Follows(rest, stableBurn(rest, u, d, amount - variable))
  BY StableBurnFollows
<1>. QED
  BY <1>1, <1>2, <1>3, <1>4, BurnScaledFollows, FollowsOn

LEMMA FeeFollows ==
    ASSUME NEW m, NEW u \in Users, NEW c \in Assets, NEW fee
    PROVE  Follows(m, PayFee(m, u, c, fee))
<1>1. u \in Holders /\ Treasury \in Holders
  BY DEF Holders
<1>2. \A amount : Follows(m, transferOnLiquidation(m, u, Treasury, c, amount))
  BY <1>1, LiquidationTransferFollows
<1>. QED
  BY <1>2, FollowsItself DEF PayFee

LEMMA SeizeFollows ==
    ASSUME NEW m, NEW l \in Users, NEW u \in Users, NEW c \in Assets, NEW seized,
           NEW receive \in BOOLEAN
    PROVE  Follows(m, SeizeCollateral(m, l, u, c, seized, receive))
<1>. DEFINE transferred == transferOnLiquidation(m, u, l, c, seized)
            given == AutomaticUse(transferred, l, c, BalanceOf(m, "bToken", l, c) = 0)
            updated == updateInterestRates(updateState(m, c), c)
            burnt == burnScaled(updated, "bToken", u, c, seized)
            paid == MoveCash(burnt, c, -seized)
<1>1. u \in Holders /\ l \in Holders
  BY DEF Holders
<1>2. Follows(m, transferred) /\ Follows(transferred, given)
  <2>1. Follows(m, transferred)
    BY <1>1, LiquidationTransferFollows
  <2>. HIDE DEF transferred
  <2>. QED
    BY <2>1, AutomaticUseFollows
<1>3. Follows(m, updated)
  BY ReserveStepsSilent, SilentFollows, RatesFollow, FollowsOn
<1>4. Follows(updated, burnt)
  <2>. HIDE DEF updated
  <2>. QED
    BY <1>1, BurnScaledFollows
<1>5. Follows(burnt, paid)
  <2>. HIDE DEF burnt
  <2>. QED
    BY ReserveStepsSilent, SilentFollows
<1>6. SeizeCollateral(m, l, u, c, seized, receive) = IF receive THEN given ELSE paid
  BY DEF SeizeCollateral
<1>. HIDE DEF transferred, given, updated, burnt, paid
<1>. QED
  BY <1>2, <1>3, <1>4, <1>5, <1>6, FollowsOn

-------------------------------------------------------------------------------
(* Whole calls.                                                            *)

LEMMA UsersHold == \A u \in Users : u \in Holders
BY DEF Holders

LEMMA PoolEventFollows ==
    ASSUME NEW l, NEW m, NEW e, Follows(l, m), e.address = Pool, e.name \notin SettingNames
    PROVE  Follows(l, Emit(m, e))
<1>1. Fits(e)
  BY AddressesFit DEF Fits, SettingNames
<1>. QED
  BY <1>1, EmitOn

LEMMA UpdatedFollows ==
    ASSUME NEW m, NEW a
    PROVE  Follows(m, updateInterestRates(updateState(m, a), a))
<1>1. Follows(m, updateState(m, a))
  BY ReserveStepsSilent, SilentFollows
<1>. QED
  BY <1>1, RatesFollow, FollowsOn

LEMMA MintPositionFollows ==
    ASSUME NEW m, NEW u \in Users, NEW a \in Assets, NEW amount
    PROVE  Follows(m, MintPosition(m, u, a, amount))
<1>. DEFINE updated == updateInterestRates(updateState(m, a), a)
            minted == mintScaled(updated, "bToken", u, a, amount)
            first == m.position[u, a].bToken.balance = 0
<1>1. Follows(m, updated)
  BY UpdatedFollows
<1>2. MintPosition(m, u, a, amount) = AutomaticUse(minted, u, a, first)
  BY DEF MintPosition
<1>. HIDE DEF updated, first
<1>3. Follows(updated, minted)
  BY MintScaledFollows, UsersHold
<1>. HIDE DEF minted
<1>. QED
  BY <1>1, <1>2, <1>3, AutomaticUseFollows, FollowsOn

LEMMA SupplyFollows ==
    ASSUME NEW m, NEW u \in Users, NEW a \in Assets, NEW amount
    PROVE  Follows(m, executeSupply(m, u, a, amount))
<1>. DEFINE paid == MoveCash(m, a, amount)
            minted == MintPosition(paid, u, a, amount)
            e == SupplyEvent(Pool, a, u, u, amount)
<1>1. Follows(m, paid)
  BY ReserveStepsSilent, SilentFollows
<1>2. e.address = Pool /\ e.name \notin SettingNames
  BY DEF SupplyEvent, SettingNames, SwitchNames
<1>3. executeSupply(m, u, a, amount) = Emit(minted, e)
  BY DEF executeSupply
<1>. HIDE DEF paid, e
<1>4. Follows(paid, minted)
  BY MintPositionFollows
<1>. HIDE DEF minted
<1>. QED
  BY <1>1, <1>2, <1>3, <1>4, FollowsOn, PoolEventFollows

LEMMA MintUnbackedFollows ==
    ASSUME NEW m, NEW u \in Users, NEW a \in Assets, NEW amount
    PROVE  Follows(m, executeMintUnbacked(m, u, a, amount))
<1>. DEFINE lent == [m EXCEPT !.unbacked[a] = @ + amount]
            minted == MintPosition(lent, u, a, amount)
            e == MintUnbackedEvent(Pool, a, u, u, amount)
<1>1. Follows(m, lent)
  <2>1. Silent(m, lent)
    BY DEF Silent, Shaped, SameSettings
  <2>. QED
    BY <2>1, SilentFollows
<1>2. e.address = Pool /\ e.name \notin SettingNames
  BY DEF MintUnbackedEvent, SettingNames, SwitchNames
<1>3. executeMintUnbacked(m, u, a, amount) = Emit(minted, e)
  BY DEF executeMintUnbacked
<1>. HIDE DEF lent, e
<1>4. Follows(lent, minted)
  BY MintPositionFollows
<1>. HIDE DEF minted
<1>. QED
  BY <1>1, <1>2, <1>3, <1>4, FollowsOn, PoolEventFollows

LEMMA WithdrawFollows ==
    ASSUME NEW m, NEW u \in Users, NEW a \in Assets, NEW amount
    PROVE  Follows(m, executeWithdraw(m, u, a, amount))
<1>. DEFINE updated == updateInterestRates(updateState(m, a), a)
            isCollateral == m.position[u, a].collateral
            switched == IF isCollateral /\ amount = BalanceOf(m, "bToken", u, a)
                        THEN setUsingAsCollateral(updated, u, a, FALSE) ELSE updated
            burnt == burnScaled(switched, "bToken", u, a, amount)
            paid == MoveCash(burnt, a, -amount)
            checked == IF isCollateral THEN StillHealthy(paid, u) ELSE paid
            e == WithdrawEvent(Pool, a, u, u, amount)
<1>1. Follows(m, updated)
  BY UpdatedFollows
<1>2. e.address = Pool /\ e.name \notin SettingNames
  BY DEF WithdrawEvent, SettingNames, SwitchNames
<1>3. executeWithdraw(m, u, a, amount) = Emit(checked, e)
  BY DEF executeWithdraw
<1>. HIDE DEF updated, e, isCollateral
<1>4. Follows(updated, switched)
  BY SwitchFollows, FollowsItself
<1>. HIDE DEF switched
<1>5. Follows(switched, burnt)
  BY BurnScaledFollows, UsersHold
<1>. HIDE DEF burnt
<1>6. Follows(burnt, paid)
  BY ReserveStepsSilent, SilentFollows
<1>. HIDE DEF paid
<1>7. Follows(paid, checked)
  BY HealthSilent, SilentFollows, FollowsItself
<1>. HIDE DEF checked
<1>8. Follows(m, checked)
  BY <1>1, <1>4, <1>5, <1>6, <1>7, FollowsOn
<1>. QED
  BY <1>2, <1>3, <1>8, PoolEventFollows

LEMMA BorrowFollows ==
    ASSUME NEW m, NEW caller \in Users, NEW u \in Users, NEW a \in Assets, NEW amount,
           NEW kind \in {"sToken", "vToken"}, NEW release \in BOOLEAN
    PROVE  Follows(m, executeBorrow(m, caller, u, a, amount, kind, release))
<1>. DEFINE required == Require(updateState(m, a), HasCollateral(m, u))
            allowed == decreaseBorrowAllowance(required, kind, u, caller, a, amount)
            minted == IF kind = "sToken" THEN stableMint(allowed, caller, u, a, amount)
                                         ELSE mintScaled(allowed, kind, u, a, amount)
            isolated == ChangeIsolatedDebt(minted, u, amount)
            updated == updateInterestRates(isolated, a)
            paid == IF release THEN MoveCash(updated, a, -amount) ELSE updated
            e == BorrowEvent(Pool, a, caller, u, amount, kind)
<1>1. Follows(m, required)
  BY ReserveStepsSilent, RequireSilent, SilentOn, SilentFollows
<1>2. e.address = Pool /\ e.name \notin SettingNames
  BY DEF BorrowEvent, SettingNames, SwitchNames
<1>3. executeBorrow(m, caller, u, a, amount, kind, release) = Emit(paid, e)
  BY DEF executeBorrow
<1>. HIDE DEF required, e
<1>4. Follows(required, allowed)
  BY AllowanceSpentFollows
<1>. HIDE DEF allowed
<1>5. Follows(allowed, minted)
  <2>1. CASE kind = "sToken"
    BY <2>1, StableMintFollows
  <2>2. CASE kind = "vToken"
    BY <2>2, MintScaledFollows, UsersHold
  <2>. QED
    BY <2>1, <2>2
<1>. HIDE DEF minted
<1>6. Follows(minted, isolated)
  BY IsolatedDebtFollows
<1>. HIDE DEF isolated
<1>7. Follows(isolated, updated)
  BY RatesFollow
<1>. HIDE DEF updated
<1>8. Follows(updated, paid)
  BY ReserveStepsSilent, SilentFollows, FollowsItself
<1>. HIDE DEF paid
<1>9. Follows(m, paid)
  BY <1>1, <1>4, <1>5, <1>6, <1>7, <1>8, FollowsOn
<1>. QED
  BY <1>2, <1>3, <1>9, PoolEventFollows

LEMMA RepayFollows ==
    ASSUME NEW m, NEW caller \in Users, NEW u \in Users, NEW a \in Assets, NEW amount,
           NEW kind \in {"sToken", "vToken"}, NEW useBTokens \in BOOLEAN
    PROVE  Follows(m, executeRepay(m, caller, u, a, amount, kind, useBTokens))
<1>. DEFINE debt == DebtOfKind(m, kind, u, a)
            payback == IF amount < debt THEN amount ELSE debt
            required == Require(updateState(m, a), debt > 0)
            burnt == burnDebt(required, kind, u, a, payback)
            updated == updateInterestRates(burnt, a)
            isolated == ChangeIsolatedDebt(updated, u, -payback)
            paid == IF useBTokens THEN burnScaled(isolated, "bToken", caller, a, payback)
                                  ELSE MoveCash(isolated, a, payback)
            e == RepayEvent(Pool, a, u, caller, payback, useBTokens)
<1>1. Follows(m, required)
  <2>. HIDE DEF debt
  <2>. QED
    BY ReserveStepsSilent, RequireSilent, SilentOn, SilentFollows
<1>2. e.address = Pool /\ e.name \notin SettingNames
  BY DEF RepayEvent, SettingNames, SwitchNames
<1>3. executeRepay(m, caller, u, a, amount, kind, useBTokens) = Emit(paid, e)
  BY DEF executeRepay
<1>. HIDE DEF required, e, payback, debt
<1>4. Follows(required, burnt)
  BY BurnDebtFollows
<1>. HIDE DEF burnt
<1>5. Follows(burnt, updated)
  BY RatesFollow
<1>. HIDE DEF updated
<1>6. Follows(updated, isolated)
  BY IsolatedDebtFollows
<1>. HIDE DEF isolated
<1>7. Follows(isolated, paid)
  BY BurnScaledFollows, UsersHold, ReserveStepsSilent, SilentFollows
<1>. HIDE DEF paid
<1>8. Follows(m, paid)
  BY <1>1, <1>4, <1>5, <1>6, <1>7, FollowsOn
<1>. QED
  BY <1>2, <1>3, <1>8, PoolEventFollows

LEMMA RebalanceFollows ==
    ASSUME NEW m, NEW u \in Users, NEW a \in Assets
    PROVE  Follows(m, executeRebalanceStableBorrowRate(m, u, a))
<1>. DEFINE debt == StableDebt(m, u, a)
            required == Require(updateState(m, a), debt > 0)
            burnt == stableBurn(required, u, a, debt)
            minted == stableMint(burnt, u, u, a, debt)
            updated == updateInterestRates(minted, a)
            e == RebalanceStableBorrowRateEvent(Pool, a, u)
<1>1. Follows(m, required)
  <2>. HIDE DEF debt
  <2>. QED
    BY ReserveStepsSilent, RequireSilent, SilentOn, SilentFollows
<1>2. e.address = Pool /\ e.name \notin SettingNames
  BY DEF RebalanceStableBorrowRateEvent, SettingNames, SwitchNames
<1>3. executeRebalanceStableBorrowRate(m, u, a) = Emit(updated, e)
  BY DEF executeRebalanceStableBorrowRate
<1>. HIDE DEF required, e, debt
<1>4. Follows(required, burnt)
  BY StableBurnFollows
<1>. HIDE DEF burnt
<1>5. Follows(burnt, minted)
  BY StableMintFollows
<1>. HIDE DEF minted
<1>6. Follows(minted, updated)
  BY RatesFollow
<1>. HIDE DEF updated
<1>7. Follows(m, updated)
  BY <1>1, <1>4, <1>5, <1>6, FollowsOn
<1>. QED
  BY <1>2, <1>3, <1>7, PoolEventFollows

LEMMA SwapFollows ==
    ASSUME NEW m, NEW u \in Users, NEW a \in Assets, NEW kind \in {"sToken", "vToken"}
    PROVE  Follows(m, executeSwapBorrowRateMode(m, u, a, kind))
<1>. DEFINE debt == DebtOfKind(m, kind, u, a)
            required == Require(updateState(m, a), debt > 0)
            burnt == burnDebt(required, kind, u, a, debt)
            minted == IF kind = "sToken" THEN mintScaled(burnt, "vToken", u, a, debt)
                                         ELSE stableMint(burnt, u, u, a, debt)
            updated == updateInterestRates(minted, a)
            e == SwapBorrowRateModeEvent(Pool, a, u, kind)
<1>1. Follows(m, required)
  <2>. HIDE DEF debt
  <2>. QED
    BY ReserveStepsSilent, RequireSilent, SilentOn, SilentFollows
<1>2. e.address = Pool /\ e.name \notin SettingNames
  BY DEF SwapBorrowRateModeEvent, SettingNames, SwitchNames
<1>3. executeSwapBorrowRateMode(m, u, a, kind) = Emit(updated, e)
  BY DEF executeSwapBorrowRateMode
<1>. HIDE DEF required, e, debt
<1>4. Follows(required, burnt)
  BY BurnDebtFollows
<1>. HIDE DEF burnt
<1>5. Follows(burnt, minted)
  BY MintScaledFollows, StableMintFollows, UsersHold
<1>. HIDE DEF minted
<1>6. Follows(minted, updated)
  BY RatesFollow
<1>. HIDE DEF updated
<1>7. Follows(m, updated)
  BY <1>1, <1>4, <1>5, <1>6, FollowsOn
<1>. QED
  BY <1>2, <1>3, <1>7, PoolEventFollows

LEMMA UseReserveFollows ==
    ASSUME NEW m, NEW u \in Users, NEW a \in Assets, NEW use \in BOOLEAN
    PROVE  Follows(m, executeUseReserveAsCollateral(m, u, a, use))
<1>. DEFINE allowed == Require(m, /\ m.position[u, a].bToken.balance > 0
                                  /\ use # m.position[u, a].collateral
                                  /\ use => CanUseAsCollateral(m, u, a))
            switched == setUsingAsCollateral(allowed, u, a, use)
<1>1. Follows(m, allowed)
  BY RequireSilent, SilentFollows
<1>2. executeUseReserveAsCollateral(m, u, a, use) = StillHealthy(switched, u)
  BY DEF executeUseReserveAsCollateral
<1>. HIDE DEF allowed
<1>3. Follows(allowed, switched)
  BY SwitchFollows
<1>. HIDE DEF switched
<1>. QED
  BY <1>1, <1>2, <1>3, HealthSilent, SilentFollows, FollowsOn

LEMMA TransferFollows ==
    ASSUME NEW m, NEW from \in Users, NEW to \in Users, NEW a \in Assets, NEW amount
    PROVE  Follows(m, transfer(m, from, to, a, amount))
<1>. DEFINE transferred == MoveBTokens(m, from, to, a, amount)
            isCollateral == m.position[from, a].collateral
            checked == IF isCollateral THEN StillHealthy(transferred, from) ELSE transferred
            disabled == IF isCollateral /\ amount = BalanceOf(m, "bToken", from, a)
                        THEN setUsingAsCollateral(checked, from, a, FALSE) ELSE checked
            enabled == AutomaticUse(disabled, to, a, BalanceOf(m, "bToken", to, a) = 0)
            e == BalanceTransferEvent(m, from, to, a, amount)
<1>1. Follows(m, transferred)
  BY MoveFollows, UsersHold
<1>2. Fits(e) /\ e.name \notin SettingNames
  BY TransferEventFits
<1>3. transfer(m, from, to, a, amount) = Emit(enabled, e)
  BY DEF transfer
<1>. HIDE DEF transferred, e, isCollateral
<1>4. Follows(transferred, checked)
  BY HealthSilent, SilentFollows, FollowsItself
<1>. HIDE DEF checked
<1>5. Follows(checked, disabled)
  BY SwitchFollows, FollowsItself
<1>. HIDE DEF disabled
<1>6. Follows(disabled, enabled)
  BY AutomaticUseFollows
<1>. HIDE DEF enabled
<1>7. Follows(m, enabled)
  BY <1>1, <1>4, <1>5, <1>6, FollowsOn
<1>. QED
  BY <1>2, <1>3, <1>7, EmitOn

LEMMA LiquidationFollows ==
    ASSUME NEW m, NEW l \in Users, NEW u \in Users, NEW c \in Assets, NEW d \in Assets,
           NEW covered, NEW seized, NEW fee, NEW receive \in BOOLEAN
    PROVE  Follows(m, executeLiquidationCall(m, l, u, c, d, covered, seized, fee, receive))
<1>. DEFINE balance == BalanceOf(m, "bToken", u, c)
            allowed == Require(updateState(m, d),
                               /\ m.position[u, c].collateral
                               /\ covered <= Debt(m, u, d)
                               /\ seized + fee <= balance)
            switched == IF seized + fee = balance
                        THEN setUsingAsCollateral(allowed, u, c, FALSE) ELSE allowed
            burnt == burnDebtTokens(switched, u, d, covered)
            updated == updateInterestRates(burnt, d)
            repaid == ChangeIsolatedDebt(updated, u, -covered)
            seizure == SeizeCollateral(repaid, l, u, c, seized, receive)
            taken == PayFee(seizure, u, c, fee)
            paid == MoveCash(taken, d, covered)
            e == LiquidationCallEvent(Pool, c, d, u, covered, seized, l)
<1>1. Follows(m, allowed)
  <2>. HIDE DEF balance
  <2>. QED
    BY ReserveStepsSilent, RequireSilent, SilentOn, SilentFollows
<1>2. e.address = Pool /\ e.name \notin SettingNames
  BY DEF LiquidationCallEvent, SettingNames, SwitchNames
<1>3. executeLiquidationCall(m, l, u, c, d, covered, seized, fee, receive) = Emit(paid, e)
  BY DEF executeLiquidationCall
<1>. HIDE DEF allowed, e, balance
<1>4. Follows(allowed, switched)
  BY SwitchFollows, FollowsItself
<1>. HIDE DEF switched
<1>5. Follows(switched, burnt)
  BY DebtTokensFollow
<1>. HIDE DEF burnt
<1>6. Follows(burnt, updated)
  BY RatesFollow
<1>. HIDE DEF updated
<1>7. Follows(updated, repaid)
  BY IsolatedDebtFollows
<1>. HIDE DEF repaid
<1>8. Follows(repaid, seizure)
  BY SeizeFollows
<1>. HIDE DEF seizure
<1>9. Follows(seizure, taken)
  BY FeeFollows
<1>. HIDE DEF taken
<1>10. Follows(taken, paid)
  BY ReserveStepsSilent, SilentFollows
<1>. HIDE DEF paid
<1>11. Follows(m, repaid)
  BY <1>1, <1>4, <1>5, <1>6, <1>7, FollowsOn
<1>12. Follows(m, paid)
  BY <1>8, <1>9, <1>10, <1>11, FollowsOn
<1>. QED
  BY <1>2, <1>3, <1>12, PoolEventFollows

LEMMA BackUnbackedFollows ==
    ASSUME NEW m, NEW u \in Users, NEW a \in Assets, NEW amount, NEW fee
    PROVE  Follows(m, executeBackUnbacked(m, u, a, amount, fee))
<1>. DEFINE backing == IF amount < m.unbacked[a] THEN amount ELSE m.unbacked[a]
            toProtocol == PercentMul(fee, m.bridgeFee)
            paid == cumulate(updateState(m, a), a, fee - toProtocol, toProtocol)
            backed == [paid EXCEPT !.unbacked[a] = @ - backing]
            updated == updateInterestRates(backed, a)
            transferred == MoveCash(updated, a, backing + fee)
            e == BackUnbackedEvent(Pool, a, u, backing, fee)
<1>1. Follows(m, paid)
  <2>. HIDE DEF toProtocol
  <2>. QED
    BY ReserveStepsSilent, SilentOn, SilentFollows
<1>2. e.address = Pool /\ e.name \notin SettingNames
  BY DEF BackUnbackedEvent, SettingNames, SwitchNames
<1>3. executeBackUnbacked(m, u, a, amount, fee) = Emit(transferred, e)
  BY DEF executeBackUnbacked
<1>. HIDE DEF paid, e, backing
<1>4. Follows(paid, backed)
  <2>1. Silent(paid, backed)
    BY DEF Silent, Shaped, SameSettings
  <2>. QED
    BY <2>1, SilentFollows
<1>. HIDE DEF backed
<1>5. Follows(backed, updated)
  BY RatesFollow
<1>. HIDE DEF updated
<1>6. Follows(updated, transferred)
  BY ReserveStepsSilent, SilentFollows
<1>. HIDE DEF transferred
<1>7. Follows(m, transferred)
  BY <1>1, <1>4, <1>5, <1>6, FollowsOn
<1>. QED
  BY <1>2, <1>3, <1>7, PoolEventFollows

LEMMA TreasuryMintFollows ==
    ASSUME NEW m, NEW a \in Assets
    PROVE  Follows(m, executeMintToTreasury(m, a))
<1>. DEFINE amount == RayMul(m.accrued[a], m.index["bToken"][a])
            required == Require(m, m.accrued[a] # 0)
            emptied == [required EXCEPT !.accrued[a] = 0]
            minted == mintScaled(emptied, "bToken", Treasury, a, amount)
            e == MintedToTreasury(Pool, a, amount)
<1>1. Follows(m, required)
  BY RequireSilent, SilentFollows
<1>2. e.address = Pool /\ e.name \notin SettingNames
  BY DEF MintedToTreasury, SettingNames, SwitchNames
<1>3. executeMintToTreasury(m, a) = Emit(minted, e)
  BY DEF executeMintToTreasury
<1>. HIDE DEF required, e, amount
<1>4. Follows(required, emptied)
  <2>1. Silent(required, emptied)
    BY DEF Silent, Shaped, SameSettings
  <2>. QED
    BY <2>1, SilentFollows
<1>. HIDE DEF emptied
<1>5. Follows(emptied, minted)
  <2>1. Treasury \in Holders
    BY DEF Holders
  <2>. QED
    BY <2>1, MintScaledFollows
<1>. HIDE DEF minted
<1>6. Follows(m, minted)
  BY <1>1, <1>4, <1>5, FollowsOn
<1>. QED
  BY <1>2, <1>3, <1>6, PoolEventFollows

LEMMA BridgeFeeFollows ==
    ASSUME NEW m, NEW fee
    PROVE  Follows(m, updateBridgeProtocolFee(m, fee))
<1>. DEFINE n == [m EXCEPT !.bridgeFee = fee]
            e == BridgeProtocolFeeUpdated(PoolConfigurator, fee)
<1>1. Silent(m, n)
  BY DEF Silent, Shaped, SameSettings
<1>2. Fits(e) /\ e.name \notin SettingNames
  BY AddressesFit DEF BridgeProtocolFeeUpdated, Fits, SettingNames, SwitchNames
<1>3. updateBridgeProtocolFee(m, fee) = Emit(n, e)
  BY DEF updateBridgeProtocolFee
<1>. HIDE DEF n, e
<1>. QED
  BY <1>1, <1>2, <1>3, SilentFollows, EmitOn

LEMMA LoanRepaymentFollows ==
    ASSUME NEW m, NEW loan
    PROVE  Follows(m, handleFlashLoanRepayment(m, loan))
<1>. DEFINE toProtocol == PercentMul(loan.premium, FlashPremiumToProtocol)
            paid == cumulate(updateState(m, loan.asset), loan.asset, loan.premium - toProtocol,
                             toProtocol)
            updated == updateInterestRates(paid, loan.asset)
            transferred == MoveCash(updated, loan.asset, loan.amount + loan.premium)
            e == FlashLoanEvent(Pool, loan.initiator, loan.asset, loan.amount, loan.premium)
<1>1. Follows(m, paid)
  <2>. HIDE DEF toProtocol
  <2>. QED
    BY ReserveStepsSilent, SilentOn, SilentFollows
<1>2. e.address = Pool /\ e.name \notin SettingNames
  BY DEF FlashLoanEvent, SettingNames, SwitchNames
<1>3. handleFlashLoanRepayment(m, loan) = Emit(transferred, e)
  BY DEF handleFlashLoanRepayment
<1>. HIDE DEF paid, e
<1>4. Follows(paid, updated)
  BY RatesFollow
<1>. HIDE DEF updated
<1>5. Follows(updated, transferred)
  BY ReserveStepsSilent, SilentFollows
<1>. HIDE DEF transferred
<1>6. Follows(m, transferred)
  BY <1>1, <1>4, <1>5, FollowsOn
<1>. QED
  BY <1>2, <1>3, <1>6, PoolEventFollows

LEMMA LoanKeptFollows ==
    ASSUME NEW m, NEW loan, loan.initiator \in Users, loan.asset \in Assets,
           NEW kind \in {"sToken", "vToken"}
    PROVE  Follows(m, KeepAsDebt(m, loan, kind))
<1>. DEFINE borrowed == executeBorrow(m, loan.initiator, loan.initiator, loan.asset, loan.amount,
                                      kind, FALSE)
            e == FlashLoanEvent(Pool, loan.initiator, loan.asset, loan.amount, 0)
<1>1. Follows(m, borrowed)
  BY BorrowFollows
<1>2. e.address = Pool /\ e.name \notin SettingNames
  BY DEF FlashLoanEvent, SettingNames, SwitchNames
<1>3. KeepAsDebt(m, loan, kind) = Emit(borrowed, e)
  BY DEF KeepAsDebt
<1>. HIDE DEF borrowed, e
<1>. QED
  BY <1>1, <1>2, <1>3, PoolEventFollows

LEMMA UserCallFollows ==
    ASSUME NEW u \in Users, NEW a \in Assets,
           \/ SupplyCall(u, a) \/ WithdrawCall(u, a) \/ BorrowCall(u, a) \/ RepayCall(u, a)
           \/ RebalanceCall(u, a) \/ SwapCall(u, a) \/ CollateralCall(u, a) \/ TransferCall(u, a)
           \/ LiquidationCall(u, a) \/ MintUnbackedCall(u, a) \/ BackUnbackedCall(u, a)
           \/ ApproveDelegationCall(u, a)
    PROVE  Follows(market, market') /\ UNCHANGED <<flash, sealed>>
<1>1. CASE SupplyCall(u, a)
  BY <1>1, SupplyFollows DEF SupplyCall, Call
<1>2. CASE WithdrawCall(u, a)
  BY <1>2, WithdrawFollows DEF WithdrawCall, Call
<1>3. CASE BorrowCall(u, a)
  BY <1>3, BorrowFollows DEF BorrowCall, Call
<1>4. CASE RepayCall(u, a)
  BY <1>4, RepayFollows DEF RepayCall, Call
<1>5. CASE RebalanceCall(u, a)
  BY <1>5, RebalanceFollows DEF RebalanceCall, Call
<1>6. CASE SwapCall(u, a)
  BY <1>6, SwapFollows DEF SwapCall, Call
<1>7. CASE CollateralCall(u, a)
  BY <1>7, UseReserveFollows DEF CollateralCall, Call
<1>8. CASE TransferCall(u, a)
  BY <1>8, TransferFollows DEF TransferCall, Call
<1>9. CASE LiquidationCall(u, a)
  BY <1>9, LiquidationFollows DEF LiquidationCall, Call
<1>10. CASE MintUnbackedCall(u, a)
  BY <1>10, MintUnbackedFollows DEF MintUnbackedCall, Call
<1>11. CASE BackUnbackedCall(u, a)
  BY <1>11, BackUnbackedFollows DEF BackUnbackedCall, Call
<1>12. CASE ApproveDelegationCall(u, a)
  BY <1>12, ApproveFollows DEF ApproveDelegationCall, Call
<1>. QED
  BY <1>1, <1>2, <1>3, <1>4, <1>5, <1>6, <1>7, <1>8, <1>9, <1>10, <1>11, <1>12

LEMMA OtherCallFollows ==
    ASSUME \/ \E u \in Users : SetUserEModeCall(u)
           \/ \E a \in Assets : MintToTreasuryCall(a)
           \/ UpdateBridgeFeeCall
    PROVE  Follows(market, market') /\ UNCHANGED <<flash, sealed>>
<1>1. CASE \E u \in Users : SetUserEModeCall(u)
  BY <1>1, LedgerAssumption, SetEModeFollows DEF SetUserEModeCall, Call
<1>2. CASE \E a \in Assets : MintToTreasuryCall(a)
  BY <1>2, TreasuryMintFollows DEF MintToTreasuryCall, Call
<1>3. CASE UpdateBridgeFeeCall
  BY <1>3, BridgeFeeFollows DEF UpdateBridgeFeeCall, Call
<1>. QED
  BY <1>1, <1>2, <1>3

LEMMA LoanStartFollows ==
    ASSUME NEW u \in Users, NEW a \in Assets, FlashLoanStart(u, a)
    PROVE  /\ Follows(market, market') /\ ~sealed /\ UNCHANGED sealed
           /\ \E loan : /\ flash' = <<loan>> /\ loan.before = market
                        /\ loan.initiator = u /\ loan.asset = a
<1>1. PICK amount \in Amounts, authorised \in BOOLEAN :
        /\ ~sealed /\ sealed' = sealed
        /\ market' = MoveCash(market, a, -amount)
        /\ flash' = <<[asset |-> a, amount |-> amount, initiator |-> u,
                       premium |-> IF authorised THEN 0 ELSE PercentMul(amount, FlashPremium),
                       before |-> market]>>
  BY Zenon DEF FlashLoanStart
<1>2. Follows(market, market')
  BY <1>1, ReserveStepsSilent, SilentFollows
<1>. QED
  BY <1>1, <1>2

LEMMA LoanEndFollows ==
    ASSUME FlashLoanEnd, NEW loan, flash = <<loan>>, loan.initiator \in Users,
           loan.asset \in Assets
    PROVE  Follows(market, market') /\ flash' = <<>> /\ UNCHANGED sealed
<1>1. PICK l \in {flash[i] : i \in DOMAIN flash} :
        \E next \in {handleFlashLoanRepayment(market, l)}
                    \cup {KeepAsDebt(market, l, kind) : kind \in {"sToken", "vToken"}} :
           market' = next
  BY Zenon DEF FlashLoanEnd
<1>2. l = loan
  BY <1>1
<1>3. \/ market' = handleFlashLoanRepayment(market, loan)
      \/ \E kind \in {"sToken", "vToken"} : market' = KeepAsDebt(market, loan, kind)
  BY <1>1, <1>2, Zenon
<1>. QED
  BY <1>3, LoanRepaymentFollows, LoanKeptFollows DEF FlashLoanEnd

LEMMA TickSilent ==
    ASSUME Tick
    PROVE  Silent(market, market') /\ market.log = <<>> /\ UNCHANGED <<flash, sealed>>
<1>. DEFINE stable(a) == {u \in Users : market.position[u, a].principal > 0}
            grows(a) == IF a \in {b \in Assets : \E u \in Users : Debt(market, u, b) > 0}
                        THEN 1 ELSE 0
<1>0. PICK earned \in 0..1, short \in 0..1 : market' =
        [market EXCEPT
            !.index = [kind \in DOMAIN @ |-> [a \in Assets |-> @[kind][a] + grows(a)]],
            !.earning = [a \in Assets |-> @[a] + earned * grows(a)],
            !.stableGrowth = [a \in Assets |-> IF stable(a) = {} THEN @[a]
                                 ELSE @[a] + StableInterest * Cardinality(stable(a)) - short],
            !.position = [p \in DOMAIN @ |-> Accrue(@[p])]]
  BY Zenon DEF Tick
<1>. HIDE DEF stable, grows
<1>1. PICK i, e, s : market' =
        [market EXCEPT !.index = i, !.earning = e, !.stableGrowth = s,
                       !.position = [p \in DOMAIN @ |-> Accrue(@[p])]]
  BY <1>0, Zenon
<1>2. SUFFICES ASSUME Shaped(market)
               PROVE  Shaped(market') /\ market'.log = market.log /\ SameSettings(market, market')
  BY DEF Tick, Silent
<1>. DEFINE position == [p \in DOMAIN market.position |-> Accrue(market.position[p])]
<1>3. /\ DOMAIN position = Holders \X Assets
      /\ \A p \in Holders \X Assets :
           /\ DOMAIN position[p] = {"bToken", "vToken", "principal", "interest", "collateral"}
           /\ position[p].collateral = market.position[p].collateral
  BY <1>2 DEF Shaped, Accrue
<1>4. market' = [market EXCEPT !.index = i, !.earning = e, !.stableGrowth = s,
                               !.position = position]
  BY <1>1
<1>. HIDE DEF position
<1>5. /\ DOMAIN market' = {"index", "position", "underlying", "stableTotal", "stableGrowth",
                           "earning", "accrued", "unbacked", "isolatedDebt", "eMode",
                           "bridgeFee", "allowance", "log", "reverted"}
      /\ market'.position = position /\ market'.eMode = market.eMode
      /\ market'.allowance = market.allowance /\ market'.log = market.log
  BY <1>2, <1>4 DEF Shaped
<1>6. Shaped(market')
  <2>1. DOMAIN market.eMode = Users /\ DOMAIN market.allowance = Allowances
    BY <1>2 DEF Shaped
  <2>2. DOMAIN market'.position = Holders \X Assets
    BY <1>3, <1>5, Zenon
  <2>3. \A p \in Holders \X Assets :
          DOMAIN market'.position[p] = {"bToken", "vToken", "principal", "interest", "collateral"}
    BY <1>3, <1>5, Zenon
  <2>4. DOMAIN market'.eMode = Users /\ DOMAIN market'.allowance = Allowances
    BY <1>5, <2>1, Zenon
  <2>. QED
    BY <1>5, <2>2, <2>3, <2>4, Zenon DEF Shaped
<1>7. SameSettings(market, market')
  BY <1>3, <1>5 DEF SameSettings, Holders
<1>. QED
  BY <1>5, <1>6, <1>7

-------------------------------------------------------------------------------
(* Amounts: the state that events carry the changes of.                    *)

Kinds == {"bToken", "vToken"}

Keys == ({"cash"} \X Assets) \cup ({"principal", "bToken", "vToken"} \X Users \X Assets)

\* The cash of an asset, and what a user has or owes in it.
Ledger(m, k) ==
    CASE k[1] = "cash" -> m.underlying[k[2]]
      [] k[1] = "principal" -> m.position[k[2], k[3]].principal
      [] OTHER -> m.position[k[2], k[3]][k[1]].balance

MintName(kind) == IF kind = "bToken" THEN "BTokenMint" ELSE "VTokenMint"
BurnName(kind) == IF kind = "bToken" THEN "BTokenBurn" ELSE "VTokenBurn"

Issued(e) == e.value - e.balanceIncrease
Redeemed(e) == e.value + e.balanceIncrease

\* What an event says of the cash of an asset.
CashCredit(e, a) ==
    CASE e.name = "BTokenMint" /\ e.address[2] = a /\ e.onBehalfOf \in Users -> Issued(e)
      [] e.name = "BTokenBurn" /\ e.address[2] = a -> -Redeemed(e)
      [] e.name = "VTokenMint" /\ e.address[2] = a -> -Issued(e)
      [] e.name = "VTokenBurn" /\ e.address[2] = a -> Redeemed(e)
      [] e.name = "STokenMint" /\ e.address[2] = a -> -(e.amount - e.balanceIncrease)
      [] e.name = "STokenBurn" /\ e.address[2] = a -> e.amount + e.balanceIncrease
      [] e.name = "FlashLoan" /\ e.asset = a -> e.premium
      [] e.name = "MintUnbacked" /\ e.reserve = a -> -e.amount
      [] e.name = "BackUnbacked" /\ e.reserve = a -> e.amount + e.fee
      [] OTHER -> 0

\* Of the stable debt of a user.
PrincipalCredit(e, u, a) ==
    CASE e.name = "STokenMint" /\ e.address[2] = a /\ e.onBehalfOf = u -> e.amount
      [] e.name = "STokenBurn" /\ e.address[2] = a /\ e.from = u -> -e.amount
      [] OTHER -> 0

\* Of the scaled balance of a user in a token.
ScaledCredit(e, kind, u, a) ==
    CASE e.name = MintName(kind) /\ e.address[2] = a /\ e.onBehalfOf = u ->
            graphRayDiv(Issued(e), e.index)
      [] e.name = BurnName(kind) /\ e.address[2] = a /\ e.from = u ->
            -graphRayDiv(Redeemed(e), e.index)
      [] e.name = "BalanceTransfer" /\ kind = "bToken" /\ e.address[2] = a /\ e.from = u -> -e.value
      [] e.name = "BalanceTransfer" /\ kind = "bToken" /\ e.address[2] = a /\ e.to = u -> e.value
      [] OTHER -> 0

Credit(e, k) ==
    CASE k[1] = "cash" -> CashCredit(e, k[2])
      [] k[1] = "principal" -> PrincipalCredit(e, k[2], k[3])
      [] OTHER -> ScaledCredit(e, k[1], k[2], k[3])

\* By how much it may say too much.
Loss(e, k) ==
    IF /\ k[1] \in Kinds /\ e.name = MintName(k[1])
       /\ e.address[2] = k[3] /\ e.onBehalfOf = k[2] /\ e.value < e.balanceIncrease
    THEN 1 ELSE 0

\* A ledger changes by what an event says, or by one less where it may say too much.
Books(e, k, change) == Credit(e, k) - Loss(e, k) <= change /\ change <= Credit(e, k)

-------------------------------------------------------------------------------
(* Numbers.                                                                *)

Counted(m) ==
    /\ m.index \in [Kinds -> [Assets -> Nat \ {0}]]
    /\ \A u \in Holders, a \in Assets :
         /\ \A kind \in Kinds :
              /\ DOMAIN m.position[u, a][kind] = {"balance", "index"}
              /\ m.position[u, a][kind].balance \in Nat /\ m.position[u, a][kind].index \in Nat
         /\ m.position[u, a].principal \in Nat /\ m.position[u, a].interest \in Nat
    /\ {m.underlying, m.stableTotal, m.stableGrowth, m.unbacked} \subseteq [Assets -> Int]
    /\ {m.accrued, m.earning} \subseteq [Assets -> Nat]
    /\ m.bridgeFee \in 0..PERCENTAGE_FACTOR

Measured(e) ==
    /\ e.name \in {"BTokenMint", "VTokenMint", "BTokenBurn", "VTokenBurn"} =>
         /\ e.address \in Kinds \X Assets
         /\ e.value \in Int /\ e.balanceIncrease \in Int /\ e.index \in Nat \ {0}
    /\ e.name \in {"BTokenMint", "BTokenBurn"} => e.address[1] = "bToken"
    /\ e.name \in {"VTokenMint", "VTokenBurn"} => e.address[1] = "vToken"
    /\ e.name = "BTokenMint" => e.onBehalfOf \in Holders
    /\ e.name = "VTokenMint" => e.onBehalfOf \in Users
    /\ e.name \in {"BTokenBurn", "VTokenBurn"} => e.from \in Users
    /\ e.name = "BalanceTransfer" =>
         /\ e.address \in {"bToken"} \X Assets
         /\ e.from \in Users /\ e.to \in Holders /\ e.from # e.to
         /\ e.value \in Nat /\ e.index \in Nat \ {0}
    /\ e.name \in {"STokenMint", "STokenBurn"} =>
         /\ e.address \in {"sToken"} \X Assets
         /\ e.amount \in Int /\ e.balanceIncrease \in Int /\ e.newTotalSupply \in Int
    /\ e.name = "STokenMint" => e.onBehalfOf \in Users
    /\ e.name = "STokenBurn" => e.from \in Users
    /\ e.name = "FlashLoan" => e.asset \in Assets /\ e.premium \in Int
    /\ e.name = "ReserveDataUpdated" =>
         e.reserve \in Assets /\ e.liquidityIndex \in Int /\ e.variableBorrowIndex \in Int
    /\ e.name = "MintUnbacked" => e.reserve \in Assets /\ e.amount \in Int
    /\ e.name = "BackUnbacked" => e.reserve \in Assets /\ e.amount \in Int /\ e.fee \in Int
    /\ e.name \in SwitchNames => e.reserve \in Assets /\ e.user \in Users
    /\ e.name = "Repay" => e.reserve \in Assets
    /\ e.name = "LiquidationCall" => e.collateralAsset \in Assets /\ e.debtAsset \in Assets

\* A market whose numbers are right unless the call has reverted.
Sound(m) ==
    /\ IsMarket(m) /\ m.reverted \in BOOLEAN
    /\ ~m.reverted => Counted(m) /\ \A i \in DOMAIN m.log : Measured(m.log[i])

Live(m) == Sound(m) /\ ~m.reverted

\* T is what a ledger reads after each event of s from the first to the last.
Trace(s, first, last, k, T) ==
    /\ \A i \in first..last : T[i] \in Int
    /\ \A i \in first + 1..last : Books(s[i], k, T[i] - T[i - 1])

\* What the pool owes the treasury grows, unless a mint is announced.
Grows(m, n) ==
    \A a \in Assets :
       \/ m.accrued[a] <= n.accrued[a]
       \/ \E i \in Len(m.log) + 1..Len(n.log) :
             n.log[i].name = "BTokenMint" /\ n.log[i].address = TokenOf("bToken", a)

\* The events between m and n account for what a ledger reads in n, but for x.
Moves(m, n, k, x) ==
    Sound(m) =>
      /\ Sound(n) /\ (m.reverted => n.reverted)
      /\ ~n.reverted =>
           /\ x \in Int
           /\ Len(m.log) <= Len(n.log)
           /\ \A i \in 1..Len(m.log) : n.log[i] = m.log[i]
           /\ Grows(m, n)
           /\ \E T : /\ Trace(n.log, Len(m.log), Len(n.log), k, T)
                     /\ T[Len(m.log)] = Ledger(m, k) /\ T[Len(n.log)] = Ledger(n, k) + x

LEMMA CountedIndex ==
    ASSUME NEW m, Counted(m), NEW kind \in Kinds, NEW a \in Assets
    PROVE  m.index[kind][a] \in Nat \ {0}
BY DEF Counted

LEMMA CountedPosition ==
    ASSUME NEW m, Counted(m), NEW u \in Holders, NEW a \in Assets
    PROVE  /\ \A kind \in Kinds :
                /\ DOMAIN m.position[u, a][kind] = {"balance", "index"}
                /\ m.position[u, a][kind].balance \in Nat /\ m.position[u, a][kind].index \in Nat
           /\ m.position[u, a].principal \in Nat /\ m.position[u, a].interest \in Nat
BY Zenon DEF Counted

LEMMA LedgerInt ==
    ASSUME NEW m, Live(m), NEW k \in Keys
    PROVE  Ledger(m, k) \in Int
<1>0. Counted(m) /\ \A n \in Nat : n \in Int
  BY DEF Live, Sound
<1>1. CASE k \in {"cash"} \X Assets
  BY <1>0, <1>1 DEF Counted, Ledger
<1>2. CASE k \in {"principal", "bToken", "vToken"} \X Users \X Assets
  <2>1. PICK u \in Holders, a \in Assets, kind \in {"principal", "bToken", "vToken"} :
          k[1] = kind /\ k[2] = u /\ k[3] = a
    BY <1>2 DEF Holders
  <2>2. CASE kind = "principal"
    <3>1. Ledger(m, k) = m.position[u, a].principal
      BY <2>1, <2>2 DEF Ledger
    <3>2. m.position[u, a].principal \in Nat
      BY <1>0, CountedPosition
    <3>. QED
      BY <1>0, <3>1, <3>2, Zenon
  <2>3. CASE kind \in Kinds
    <3>1. Ledger(m, k) = m.position[u, a][kind].balance
      BY <2>1, <2>3 DEF Kinds, Ledger
    <3>2. m.position[u, a][kind].balance \in Nat
      BY <1>0, <2>3, CountedPosition
    <3>. QED
      BY <1>0, <3>1, <3>2, Zenon
  <2>. QED
    BY <2>2, <2>3 DEF Kinds
<1>. QED
  BY <1>1, <1>2 DEF Keys

LEMMA AccruedNat ==
    ASSUME NEW m, Live(m), NEW a \in Assets
    PROVE  m.accrued[a] \in Nat
BY DEF Live, Sound, Counted

LEMMA SoundLog ==
    ASSUME NEW m, Sound(m)
    PROVE  Len(m.log) \in Nat /\ DOMAIN m.log = 1..Len(m.log) /\ IsLog(m.log)
BY LogBounds DEF Sound, IsMarket

LEMMA GrowsItself ==
    ASSUME NEW m, Sound(m), ~m.reverted
    PROVE  Grows(m, m)
BY AccruedNat DEF Grows, Live

LEMMA MovesItself ==
    ASSUME NEW m, NEW k \in Keys
    PROVE  Moves(m, m, k, 0)
<1>. SUFFICES ASSUME Sound(m), ~m.reverted
              PROVE  \E T : /\ Trace(m.log, Len(m.log), Len(m.log), k, T)
                            /\ T[Len(m.log)] = Ledger(m, k) /\ T[Len(m.log)] = Ledger(m, k) + 0
  BY SoundLog, GrowsItself DEF Moves
<1>1. Ledger(m, k) \in Int /\ Len(m.log) \in Nat
  BY LedgerInt, SoundLog DEF Live
<1>. DEFINE T == [i \in {Len(m.log)} |-> Ledger(m, k)]
<1>2. Trace(m.log, Len(m.log), Len(m.log), k, T)
  BY <1>1 DEF Trace
<1>3. T[Len(m.log)] = Ledger(m, k)
  OBVIOUS
<1>. HIDE DEF T
<1>. QED
  BY <1>1, <1>2, <1>3

\* Nothing is emitted: a ledger changes by less than it should.
LEMMA QuietMoves ==
    ASSUME NEW m, NEW n, NEW k \in Keys, NEW x, Silent(m, n),
           Sound(m) => /\ n.reverted \in BOOLEAN /\ (m.reverted => n.reverted)
                       /\ ~n.reverted => /\ x \in Int /\ Counted(n)
                                         /\ \A a \in Assets : m.accrued[a] <= n.accrued[a]
                                         /\ Ledger(m, k) = Ledger(n, k) + x
    PROVE  Moves(m, n, k, x)
<1>. SUFFICES ASSUME Sound(m) PROVE Moves(m, n, k, x)
  BY DEF Moves
<1>1. IsMarket(n) /\ n.log = m.log
  <2>1. Shaped(n) /\ n.log = m.log
    BY DEF Silent, Sound, IsMarket
  <2>. QED
    BY <2>1 DEF Sound, IsMarket
<1>2. Sound(n) /\ (m.reverted => n.reverted)
  BY <1>1 DEF Sound
<1>3. ASSUME ~n.reverted
      PROVE  \E T : /\ Trace(n.log, Len(m.log), Len(n.log), k, T)
                    /\ T[Len(m.log)] = Ledger(m, k) /\ T[Len(n.log)] = Ledger(n, k) + x
  <2>1. Live(m)
    BY <1>2, <1>3 DEF Live
  <2>2. Ledger(m, k) \in Int /\ Len(m.log) \in Nat
    BY <2>1, LedgerInt, SoundLog
  <2>. DEFINE T == [i \in {Len(m.log)} |-> Ledger(m, k)]
  <2>3. Trace(n.log, Len(m.log), Len(n.log), k, T)
    BY <1>1, <2>2 DEF Trace
  <2>4. T[Len(m.log)] = Ledger(m, k)
    OBVIOUS
  <2>. HIDE DEF T
  <2>. QED
    BY <1>1, <1>3, <2>3, <2>4
<1>4. ~n.reverted => Grows(m, n)
  BY DEF Grows
<1>. QED
  BY <1>1, <1>2, <1>3, <1>4, SoundLog DEF Moves

\* One event is emitted, over whatever else changes.
LEMMA EventMoves ==
    ASSUME NEW m, NEW n, NEW k \in Keys, NEW x, NEW e, Follows(m, n),
           Sound(m) => /\ n.reverted \in BOOLEAN /\ (m.reverted => n.reverted)
                       /\ n.log = Append(m.log, e)
                       /\ ~n.reverted => /\ x \in Int /\ Counted(n) /\ Measured(e)
                                         /\ \A a \in Assets :
                                              \/ m.accrued[a] <= n.accrued[a]
                                              \/ /\ e.name = "BTokenMint"
                                                 /\ e.address = TokenOf("bToken", a)
                                         /\ Books(e, k, (Ledger(n, k) + x) - Ledger(m, k))
    PROVE  Moves(m, n, k, x)
<1>. SUFFICES ASSUME Sound(m) PROVE Moves(m, n, k, x)
  BY DEF Moves
<1>1. /\ IsMarket(n) /\ Len(m.log) \in Nat /\ Len(n.log) = Len(m.log) + 1
      /\ DOMAIN n.log = 1..(Len(m.log) + 1) /\ DOMAIN m.log = 1..Len(m.log)
      /\ \A i \in 1..Len(m.log) : n.log[i] = m.log[i]
      /\ n.log[Len(m.log) + 1] = e
  <2>1. IsMarket(m) /\ IsLog(m.log) /\ n.log = Append(m.log, e)
    BY DEF Sound, IsMarket
  <2>2. IsMarket(n)
    BY <2>1 DEF Follows
  <2>. QED
    BY <2>1, <2>2, LogAppended
<1>2. Sound(n) /\ (m.reverted => n.reverted)
  BY <1>1 DEF Sound
<1>3. ASSUME ~n.reverted
      PROVE  \E T : /\ Trace(n.log, Len(m.log), Len(n.log), k, T)
                    /\ T[Len(m.log)] = Ledger(m, k) /\ T[Len(n.log)] = Ledger(n, k) + x
  <2>1. Live(m)
    BY <1>2, <1>3 DEF Live
  <2>2. Ledger(m, k) \in Int /\ Ledger(n, k) + x \in Int
    BY <1>2, <1>3, <2>1, LedgerInt DEF Live
  <2>0. Books(e, k, (Ledger(n, k) + x) - Ledger(m, k))
    BY <1>3
  <2>. DEFINE l == Len(m.log)
              before == Ledger(m, k)
              after == Ledger(n, k) + x
              T == [i \in l..l + 1 |-> IF i = l THEN before ELSE after]
  <2>3. Books(e, k, after - before)
    BY <2>0, Zenon
  <2>4. before \in Int /\ after \in Int /\ l \in Nat
    BY <1>1, <2>2
  <2>. HIDE DEF before, after, l
  <2>5. T[l] = before /\ T[l + 1] = after
    BY <2>4
  <2>6. /\ \A i \in l..l + 1 : T[i] \in Int
        /\ \A i \in l + 1..l + 1 : i = l + 1 /\ i - 1 = l
    BY <2>4
  <2>. HIDE DEF T
  <2>7. \A i \in l + 1..l + 1 : Books(n.log[i], k, T[i] - T[i - 1])
    BY <1>1, <2>3, <2>5, <2>6 DEF l
  <2>8. Trace(n.log, l, l + 1, k, T)
    BY <2>6, <2>7 DEF Trace
  <2>. QED
    BY <1>1, <2>5, <2>8 DEF before, after, l
<1>4. ~n.reverted => Grows(m, n)
  BY <1>1 DEF Grows
<1>. QED
  BY <1>1, <1>2, <1>3, <1>4 DEF Moves

\* One step after another.
LEMMA MovesOn ==
    ASSUME NEW l, NEW m, NEW n, NEW k \in Keys, NEW x, NEW y, Moves(l, m, k, x), Moves(m, n, k, y)
    PROVE  Moves(l, n, k, x + y)
<1>. SUFFICES ASSUME Sound(l) PROVE Moves(l, n, k, x + y)
  BY DEF Moves
<1>1. Sound(m) /\ Sound(n) /\ (l.reverted => n.reverted) /\ (~n.reverted => ~m.reverted)
      /\ (~m.reverted => ~l.reverted)
  BY DEF Moves, Sound
<1>. SUFFICES ASSUME ~n.reverted PROVE Moves(l, n, k, x + y)
  BY <1>1 DEF Moves
<1>2. /\ x \in Int /\ y \in Int
      /\ Len(l.log) <= Len(m.log) /\ Len(m.log) <= Len(n.log)
      /\ \A i \in 1..Len(l.log) : m.log[i] = l.log[i]
      /\ \A i \in 1..Len(m.log) : n.log[i] = m.log[i]
      /\ Grows(l, m) /\ Grows(m, n)
  BY <1>1 DEF Moves
<1>. DEFINE a == Len(l.log)
            b == Len(m.log)
            c == Len(n.log)
<1>3. a \in Nat /\ b \in Nat /\ c \in Nat /\ a <= b /\ b <= c
  BY <1>1, <1>2, SoundLog
<1>4. PICK T : Trace(m.log, a, b, k, T) /\ T[a] = Ledger(l, k) /\ T[b] = Ledger(m, k) + x
  BY <1>1 DEF Moves
<1>5. PICK U : Trace(n.log, b, c, k, U) /\ U[b] = Ledger(m, k) /\ U[c] = Ledger(n, k) + y
  BY <1>1 DEF Moves
<1>6. Ledger(l, k) \in Int /\ Ledger(m, k) \in Int /\ Ledger(n, k) \in Int
  BY <1>1, LedgerInt DEF Live
<1>. DEFINE V == [i \in a..c |-> IF i <= b THEN T[i] ELSE U[i] + x]
<1>7. Grows(l, n)
  <2>1. ASSUME NEW r \in Assets, ~(l.accrued[r] <= n.accrued[r])
        PROVE  \E i \in a + 1..c :
                  n.log[i].name = "BTokenMint" /\ n.log[i].address = TokenOf("bToken", r)
    <3>1. ~(l.accrued[r] <= m.accrued[r]) \/ ~(m.accrued[r] <= n.accrued[r])
      BY <1>1, <2>1, AccruedNat DEF Live
    <3>2. CASE ~(l.accrued[r] <= m.accrued[r])
      <4>1. PICK i \in a + 1..b :
              m.log[i].name = "BTokenMint" /\ m.log[i].address = TokenOf("bToken", r)
        BY <1>2, <3>2 DEF Grows
      <4>2. i \in 1..b /\ i \in a + 1..c
        BY <1>3
      <4>. QED
        BY <1>2, <4>1, <4>2
    <3>3. CASE ~(m.accrued[r] <= n.accrued[r])
      <4>1. PICK i \in b + 1..c :
              n.log[i].name = "BTokenMint" /\ n.log[i].address = TokenOf("bToken", r)
        BY <1>2, <3>3 DEF Grows
      <4>2. i \in a + 1..c
        BY <1>3
      <4>. QED
        BY <4>1, <4>2
    <3>. QED
      BY <3>1, <3>2, <3>3
  <2>. QED
    BY <2>1 DEF Grows
<1>8. \A i \in 1..a : n.log[i] = l.log[i]
  BY <1>2, <1>3
<1>. HIDE DEF a, b, c
<1>9. /\ \A i \in a..b : V[i] = T[i] /\ T[i] \in Int
      /\ \A i \in b..c : V[i] = U[i] + x /\ U[i] \in Int
  <2>1. \A i \in a..b : T[i] \in Int
    BY <1>4 DEF Trace
  <2>2. \A i \in b..c : U[i] \in Int
    BY <1>5 DEF Trace
  <2>3. \A i \in a..b : V[i] = T[i]
    BY <1>3
  <2>4. ASSUME NEW i \in b..c PROVE V[i] = U[i] + x
    <3>1. CASE i = b
      BY <1>3, <1>4, <1>5, <3>1
    <3>2. CASE i # b
      BY <1>3, <3>2
    <3>. QED
      BY <3>1, <3>2
  <2>. QED
    BY <2>1, <2>2, <2>3, <2>4
<1>. HIDE DEF V
<1>10. ASSUME NEW i \in a + 1..c PROVE Books(n.log[i], k, V[i] - V[i - 1])
  <2>1. CASE i \in a + 1..b
    <3>1. Books(m.log[i], k, T[i] - T[i - 1])
      BY <1>4, <2>1 DEF Trace
    <3>2. n.log[i] = m.log[i] /\ i \in a..b /\ i - 1 \in a..b
      BY <1>2, <1>3, <2>1 DEF b
    <3>. QED
      BY <1>9, <3>1, <3>2
  <2>2. CASE i \in b + 1..c
    <3>1. Books(n.log[i], k, U[i] - U[i - 1])
      BY <1>5, <2>2 DEF Trace
    <3>2. i \in b..c /\ i - 1 \in b..c
      BY <1>3, <2>2
    <3>3. V[i] = U[i] + x /\ V[i - 1] = U[i - 1] + x /\ U[i] \in Int /\ U[i - 1] \in Int
      BY <1>9, <3>2
    <3>4. V[i] - V[i - 1] = U[i] - U[i - 1]
      BY <1>2, <3>3
    <3>. QED
      BY <3>1, <3>4
  <2>. QED
    BY <1>3, <2>1, <2>2
<1>11. Trace(n.log, a, c, k, V)
  <2>1. \A i \in a..c : V[i] \in Int
    BY <1>2, <1>3, <1>9
  <2>. QED
    BY <1>10, <2>1 DEF Trace
<1>12. V[a] = Ledger(l, k) /\ V[c] = Ledger(n, k) + (x + y)
  <2>1. V[a] = T[a] /\ V[c] = U[c] + x
    BY <1>3, <1>9
  <2>. QED
    BY <1>2, <1>4, <1>5, <1>6, <2>1
<1>. QED
  BY <1>1, <1>2, <1>3, <1>7, <1>8, <1>11, <1>12 DEF Moves, a, b, c

-------------------------------------------------------------------------------
(* What the steps of a call leave to be accounted for.                     *)

Cash(k, a, amount) == IF k[1] = "cash" /\ k[2] = a THEN amount ELSE 0

Held(k, kind, u, a, scaled) == IF k[1] = kind /\ k[2] = u /\ k[3] = a THEN scaled ELSE 0

LEMMA KeyCases ==
    ASSUME NEW k \in Keys
    PROVE  \/ k[1] = "cash" /\ k[2] \in Assets
           \/ k[1] \in {"principal", "bToken", "vToken"} /\ k[2] \in Users /\ k[3] \in Assets
BY DEF Keys

SamePositions(m, n) ==
    \A u \in Holders, a \in Assets :
       /\ n.position[u, a].bToken = m.position[u, a].bToken
       /\ n.position[u, a].vToken = m.position[u, a].vToken
       /\ n.position[u, a].principal = m.position[u, a].principal
       /\ n.position[u, a].interest = m.position[u, a].interest

SameAccounts(m, n) == n.underlying = m.underlying /\ SamePositions(m, n)

SameNumbers(m, n) ==
    /\ SameAccounts(m, n)
    /\ n.index = m.index /\ n.stableTotal = m.stableTotal /\ n.stableGrowth = m.stableGrowth
    /\ n.unbacked = m.unbacked /\ n.accrued = m.accrued /\ n.earning = m.earning
    /\ n.bridgeFee = m.bridgeFee

LEMMA SameLedger ==
    ASSUME NEW m, NEW n, SameAccounts(m, n), NEW k \in Keys
    PROVE  Ledger(n, k) = Ledger(m, k)
<1>1. CASE k[1] = "cash" /\ k[2] \in Assets
  BY <1>1 DEF Ledger, SameAccounts
<1>2. CASE k[1] \in {"principal", "bToken", "vToken"} /\ k[2] \in Users /\ k[3] \in Assets
  <2>1. PICK u \in Holders, a \in Assets : k[2] = u /\ k[3] = a
    BY <1>2 DEF Holders
  <2>2. /\ n.position[u, a].bToken = m.position[u, a].bToken
        /\ n.position[u, a].vToken = m.position[u, a].vToken
        /\ n.position[u, a].principal = m.position[u, a].principal
    BY Zenon DEF SameAccounts, SamePositions
  <2>3. CASE k[1] = "principal"
    BY <2>1, <2>2, <2>3 DEF Ledger
  <2>4. CASE k[1] = "bToken"
    BY <2>1, <2>2, <2>4 DEF Ledger
  <2>5. CASE k[1] = "vToken"
    BY <2>1, <2>2, <2>5 DEF Ledger
  <2>. QED
    BY <1>2, <2>3, <2>4, <2>5
<1>. QED
  BY <1>1, <1>2, KeyCases

LEMMA SameCounted ==
    ASSUME NEW m, NEW n, SamePositions(m, n), Counted(m), n.underlying \in [Assets -> Int],
           n.index \in [Kinds -> [Assets -> Nat \ {0}]],
           {n.stableTotal, n.stableGrowth, n.unbacked} \subseteq [Assets -> Int],
           {n.accrued, n.earning} \subseteq [Assets -> Nat],
           n.bridgeFee \in 0..PERCENTAGE_FACTOR
    PROVE  Counted(n)
<1>1. ASSUME NEW u \in Holders, NEW a \in Assets
      PROVE  /\ \A kind \in Kinds :
                  /\ DOMAIN n.position[u, a][kind] = {"balance", "index"}
                  /\ n.position[u, a][kind].balance \in Nat
                  /\ n.position[u, a][kind].index \in Nat
             /\ n.position[u, a].principal \in Nat /\ n.position[u, a].interest \in Nat
  <2>1. /\ n.position[u, a].bToken = m.position[u, a].bToken
        /\ n.position[u, a].vToken = m.position[u, a].vToken
        /\ n.position[u, a].principal = m.position[u, a].principal
        /\ n.position[u, a].interest = m.position[u, a].interest
    BY Zenon DEF SameAccounts, SamePositions
  <2>2. ASSUME NEW kind \in Kinds
        PROVE  n.position[u, a][kind] = m.position[u, a][kind]
    BY <2>1 DEF Kinds
  <2>3. /\ \A kind \in Kinds :
             /\ DOMAIN m.position[u, a][kind] = {"balance", "index"}
             /\ m.position[u, a][kind].balance \in Nat
             /\ m.position[u, a][kind].index \in Nat
        /\ m.position[u, a].principal \in Nat /\ m.position[u, a].interest \in Nat
    BY CountedPosition
  <2>. QED
    BY <2>1, <2>2, <2>3
<1>. QED
  BY <1>1 DEF Counted

LEMMA NumbersKept ==
    ASSUME NEW m, NEW n, SameNumbers(m, n), Counted(m)
    PROVE  /\ Counted(n)
           /\ \A k \in Keys : Ledger(n, k) = Ledger(m, k)
           /\ \A a \in Assets : m.accrued[a] <= n.accrued[a]
<1>1. Counted(n)
  <2>1. /\ m.index \in [Kinds -> [Assets -> Nat \ {0}]]
        /\ {m.stableTotal, m.stableGrowth, m.unbacked} \subseteq [Assets -> Int]
        /\ {m.accrued, m.earning} \subseteq [Assets -> Nat]
        /\ m.bridgeFee \in 0..PERCENTAGE_FACTOR
        /\ m.underlying \in [Assets -> Int]
    BY DEF Counted
  <2>. QED
    BY <2>1, SameCounted DEF SameNumbers, SameAccounts
<1>2. \A a \in Assets : m.accrued[a] \in Nat /\ n.accrued[a] = m.accrued[a]
  BY DEF SameNumbers, Counted
<1>. QED
  BY <1>1, <1>2, SameLedger DEF SameNumbers

LEMMA SameNumbersOn ==
    ASSUME NEW l, NEW m, NEW n, SameNumbers(l, m), SameNumbers(m, n)
    PROVE  SameNumbers(l, n)
BY DEF SameNumbers, SameAccounts, SamePositions

\* Nothing is counted and nothing said.
LEMMA IdleMoves ==
    ASSUME NEW m, NEW n, NEW k \in Keys, Silent(m, n),
           Sound(m) => /\ n.reverted \in BOOLEAN /\ (m.reverted => n.reverted)
                       /\ SameNumbers(m, n)
    PROVE  Moves(m, n, k, 0)
<1>1. ASSUME Sound(m), ~n.reverted
      PROVE  /\ Counted(n) /\ \A a \in Assets : m.accrued[a] <= n.accrued[a]
             /\ Ledger(m, k) = Ledger(n, k) + 0
  <2>1. Counted(m) /\ ~m.reverted
    BY <1>1 DEF Sound
  <2>2. Counted(n) /\ Ledger(n, k) = Ledger(m, k) /\ \A a \in Assets : m.accrued[a] <= n.accrued[a]
    BY <1>1, <2>1, NumbersKept
  <2>3. Ledger(m, k) \in Int
    BY <1>1, <2>1, LedgerInt DEF Live
  <2>. QED
    BY <2>2, <2>3
<1>2. 0 \in Int
  OBVIOUS
<1>. QED
  BY <1>1, <1>2, QuietMoves, Zenon

LEMMA RequireMoves ==
    ASSUME NEW m, NEW k \in Keys, NEW condition
    PROVE  Moves(m, Require(m, condition), k, 0)
<1>. DEFINE n == Require(m, condition)
<1>1. Silent(m, n)
  BY RequireSilent
<1>2. ASSUME Sound(m)
      PROVE  n.reverted \in BOOLEAN /\ (m.reverted => n.reverted) /\ SameNumbers(m, n)
  BY <1>2 DEF Sound, IsMarket, Shaped, Require, SameNumbers, SameAccounts, SamePositions
<1>. HIDE DEF n
<1>3. Moves(m, n, k, 0)
  BY <1>1, <1>2, IdleMoves, Zenon
<1>. QED
  BY <1>3 DEF n

\* An event over a market whose numbers stay.
LEMMA EmitMoves ==
    ASSUME NEW m, NEW k \in Keys, NEW e, Follows(m, Emit(m, e)), Loss(e, k) = 0,
           Live(m) => Measured(e) /\ Credit(e, k) \in Int
    PROVE  Moves(m, Emit(m, e), k, Credit(e, k))
<1>. DEFINE n == Emit(m, e)
            x == Credit(e, k)
<1>1. ASSUME Sound(m)
      PROVE  n.reverted = m.reverted /\ n.log = Append(m.log, e) /\ SameNumbers(m, n)
  BY <1>1 DEF Sound, IsMarket, Shaped, Emit, SameNumbers, SameAccounts, SamePositions
<1>2. ASSUME Sound(m), ~n.reverted
      PROVE  /\ x \in Int /\ Counted(n) /\ Measured(e)
             /\ \A a \in Assets : m.accrued[a] <= n.accrued[a]
             /\ Books(e, k, (Ledger(n, k) + x) - Ledger(m, k))
  <2>1. Live(m) /\ Counted(m)
    BY <1>1, <1>2 DEF Sound, Live
  <2>2. /\ Counted(n) /\ Ledger(n, k) = Ledger(m, k)
        /\ \A a \in Assets : m.accrued[a] <= n.accrued[a]
    BY <1>1, <1>2, <2>1, NumbersKept
  <2>3. x \in Int /\ Measured(e) /\ Ledger(m, k) \in Int
    BY <2>1, LedgerInt
  <2>4. (Ledger(n, k) + x) - Ledger(m, k) = x
    BY <2>2, <2>3
  <2>5. Books(e, k, x)
    BY <2>3 DEF Books
  <2>. QED
    BY <2>2, <2>3, <2>4, <2>5
<1>3. Sound(m) => n.reverted \in BOOLEAN /\ (m.reverted => n.reverted)
  BY <1>1 DEF Sound
<1>4. Follows(m, n)
  OBVIOUS
<1>. HIDE DEF n, x
<1>5. Moves(m, n, k, x)
  BY <1>1, <1>2, <1>3, <1>4, EventMoves
<1>. QED
  BY <1>5 DEF n, x

LEMMA IdleRequired ==
    ASSUME NEW m, NEW condition
    PROVE  Sound(m) => LET n == Require(m, condition)
                       IN  /\ n.reverted \in BOOLEAN /\ (m.reverted => n.reverted)
                           /\ n.log = m.log /\ Shaped(n) /\ SameNumbers(m, n)
                           /\ (~n.reverted => condition)
BY DEF Sound, IsMarket, Shaped, Require, SameNumbers, SameAccounts, SamePositions

LEMMA UpdateStateMoves ==
    ASSUME NEW m, NEW k \in Keys, NEW a \in Assets
    PROVE  Moves(m, updateState(m, a), k, 0)
<1>. DEFINE n == updateState(m, a)
<1>1. Silent(m, n)
  BY ReserveStepsSilent
<1>2. ASSUME Sound(m)
      PROVE  /\ n.reverted = m.reverted /\ SameAccounts(m, n)
             /\ n.index = m.index /\ n.stableTotal = m.stableTotal
             /\ n.stableGrowth = m.stableGrowth /\ n.unbacked = m.unbacked
             /\ n.bridgeFee = m.bridgeFee
             /\ n.accrued = [m.accrued EXCEPT ![a] = @ + m.earning[a]]
             /\ n.earning = [m.earning EXCEPT ![a] = 0]
  BY <1>2 DEF Sound, IsMarket, Shaped, updateState, SameAccounts, SamePositions
<1>. HIDE DEF n
<1>3. ASSUME Sound(m), ~n.reverted
      PROVE  /\ Counted(n) /\ \A b \in Assets : m.accrued[b] <= n.accrued[b]
             /\ Ledger(m, k) = Ledger(n, k) + 0
  <2>1. Counted(m) /\ Live(m)
    BY <1>2, <1>3 DEF Sound, Live
  <2>2. m.accrued \in [Assets -> Nat] /\ m.earning \in [Assets -> Nat]
    BY <2>1 DEF Counted
  <2>3. /\ n.accrued \in [Assets -> Nat] /\ n.earning \in [Assets -> Nat]
        /\ \A b \in Assets : m.accrued[b] <= n.accrued[b]
    BY <1>2, <1>3, <2>2
  <2>4. Counted(n)
    <3>1. /\ m.index \in [Kinds -> [Assets -> Nat \ {0}]]
          /\ {m.stableTotal, m.stableGrowth, m.unbacked} \subseteq [Assets -> Int]
          /\ m.bridgeFee \in 0..PERCENTAGE_FACTOR /\ m.underlying \in [Assets -> Int]
      BY <2>1 DEF Counted
    <3>. QED
      BY <1>2, <1>3, <2>1, <2>3, <3>1, SameCounted DEF SameAccounts
  <2>5. Ledger(n, k) = Ledger(m, k) /\ Ledger(m, k) \in Int
    BY <1>2, <1>3, <2>1, SameLedger, LedgerInt
  <2>. QED
    BY <2>3, <2>4, <2>5
<1>4. 0 \in Int /\ (Sound(m) => n.reverted \in BOOLEAN /\ (m.reverted => n.reverted))
  BY <1>2 DEF Sound
<1>5. Moves(m, n, k, 0)
  BY <1>1, <1>3, <1>4, QuietMoves, Zenon
<1>. QED
  BY <1>5 DEF n

\* Cash that comes must still be announced, cash that leaves has been.
LEMMA CashMoves ==
    ASSUME NEW m, NEW k \in Keys, NEW a \in Assets, NEW amount, Live(m) => amount \in Int
    PROVE  Moves(m, MoveCash(m, a, amount), k, Cash(k, a, -amount))
<1>. DEFINE paid == [m EXCEPT !.underlying[a] = @ + amount]
            n == Require(paid, m.underlying[a] + amount >= 0)
            x == Cash(k, a, -amount)
<1>0. MoveCash(m, a, amount) = n
  BY DEF MoveCash
<1>1. Silent(m, n)
  BY <1>0, ReserveStepsSilent
<1>2. ASSUME Sound(m)
      PROVE  /\ n.reverted \in BOOLEAN /\ (m.reverted => n.reverted)
             /\ n.position = m.position
             /\ n.index = m.index /\ n.stableTotal = m.stableTotal
             /\ n.stableGrowth = m.stableGrowth /\ n.unbacked = m.unbacked
             /\ n.bridgeFee = m.bridgeFee /\ n.accrued = m.accrued /\ n.earning = m.earning
             /\ n.underlying = [m.underlying EXCEPT ![a] = @ + amount]
  BY <1>2 DEF Sound, IsMarket, Shaped, Require
<1>. HIDE DEF n
<1>3. ASSUME Sound(m), ~n.reverted
      PROVE  /\ x \in Int /\ Counted(n) /\ \A b \in Assets : m.accrued[b] <= n.accrued[b]
             /\ Ledger(m, k) = Ledger(n, k) + x
  <2>1. Counted(m) /\ amount \in Int
    BY <1>2, <1>3 DEF Sound, Live
  <2>2. m.underlying \in [Assets -> Int] /\ m.accrued \in [Assets -> Nat]
    BY <2>1 DEF Counted
  <2>3. Counted(n)
    <3>1. n.underlying \in [Assets -> Int]
      BY <1>2, <1>3, <2>1, <2>2
    <3>2. /\ m.index \in [Kinds -> [Assets -> Nat \ {0}]]
          /\ {m.stableTotal, m.stableGrowth, m.unbacked} \subseteq [Assets -> Int]
          /\ {m.accrued, m.earning} \subseteq [Assets -> Nat]
          /\ m.bridgeFee \in 0..PERCENTAGE_FACTOR
      BY <2>1 DEF Counted
    <3>3. SamePositions(m, n)
      BY <1>2, <1>3 DEF SamePositions
    <3>. QED
      BY <1>2, <1>3, <2>1, <3>1, <3>2, <3>3, SameCounted
  <2>4. x \in Int
    BY <2>1 DEF Cash
  <2>5. CASE k[1] = "cash" /\ k[2] \in Assets
    <3>1. Ledger(n, k) = n.underlying[k[2]] /\ Ledger(m, k) = m.underlying[k[2]]
      BY <2>5 DEF Ledger
    <3>2. n.underlying[k[2]] = IF k[2] = a THEN m.underlying[a] + amount ELSE m.underlying[k[2]]
      BY <1>2, <1>3, <2>2, <2>5
    <3>3. x = IF k[2] = a THEN -amount ELSE 0
      BY <2>5 DEF Cash
    <3>4. m.underlying[k[2]] \in Int /\ m.underlying[a] \in Int
      BY <2>2, <2>5
    <3>5. Ledger(m, k) = Ledger(n, k) + x
      BY <2>1, <3>1, <3>2, <3>3, <3>4
    <3>. QED
      BY <1>2, <1>3, <2>2, <2>3, <2>4, <3>5
  <2>6. CASE k[1] \in {"principal", "bToken", "vToken"}
    <3>1. Ledger(n, k) = Ledger(m, k) /\ x = 0
      BY <1>2, <1>3, <2>6 DEF Ledger, Cash
    <3>2. Ledger(m, k) \in Int
      BY <1>2, <1>3, LedgerInt DEF Live
    <3>. QED
      BY <1>2, <1>3, <2>2, <2>3, <3>1, <3>2
  <2>. QED
    BY <1>2, <1>3, <2>2, <2>3, <2>4, <2>5, <2>6, KeyCases
<1>. HIDE DEF x
<1>4. Moves(m, n, k, x)
  BY <1>1, <1>2, <1>3, QuietMoves
<1>. QED
  BY <1>0, <1>4 DEF x

Balances(m, a) == [u \in Holders |-> m.position[u, a].bToken.balance]

LEMMA SupplyIsSum ==
    ASSUME NEW m, NEW a
    PROVE  Supply(m, a) = RayMul(Sum(Balances(m, a), Holders), m.index["bToken"][a])
<1>. DEFINE f == Balances(m, a)
            P(it) == it = [s \in SUBSET Holders |->
                       IF s = {} THEN 0
                       ELSE m.position[Pick(s), a].bToken.balance + it[s \ {Pick(s)}]]
            jt == CHOOSE it : P(it)
<1>0. IsFiniteSet(Holders)
  BY LedgerAssumption, FS_Singleton, FS_Union DEF Holders
<1>1. \A it : \A s \in SUBSET Holders :
        Added(f, it, s) = IF s = {} THEN 0
                          ELSE m.position[Pick(s), a].bToken.balance + it[s \ {Pick(s)}]
  <2>1. \A s \in SUBSET Holders : s # {} => Pick(s) \in Holders
    BY DEF Pick
  <2>2. \A h \in Holders : f[h] = m.position[h, a].bToken.balance
    BY DEF Balances
  <2>. HIDE DEF f
  <2>. QED
    BY <2>1, <2>2 DEF Added
<1>2. Supply(m, a) = RayMul(jt[Holders], m.index["bToken"][a])
  BY DEF Supply, MapThenSumSet, MapThenFoldSet, Pick
<1>. HIDE DEF f
<1>3. \A it : P(it) <=> AddsParts(it, f, Holders)
  BY <1>1 DEF AddsParts, Adds
<1>4. \E it : AddsParts(it, f, Holders)
  BY <1>0, SumsExist
<1>. HIDE DEF P
<1>5. P(jt)
  BY <1>3, <1>4
<1>6. AddsParts(jt, f, Holders)
  BY <1>3, <1>5
<1>. HIDE DEF jt
<1>7. Sum(f, Holders) = jt[Holders]
  BY <1>0, <1>6, SumValue
<1>. QED
  BY <1>2, <1>7 DEF f

LEMMA SupplyNat ==
    ASSUME NEW m, Counted(m), NEW a \in Assets
    PROVE  Supply(m, a) \in Nat
<1>1. m.index["bToken"][a] \in Nat
  BY CountedIndex DEF Kinds
<1>2. \A u \in Holders : Balances(m, a)[u] \in Nat
  BY CountedPosition DEF Balances, Kinds
<1>3. IsFiniteSet(Holders)
  BY LedgerAssumption, FS_Singleton, FS_Union DEF Holders
<1>4. Sum(Balances(m, a), Holders) \in Nat
  BY <1>2, <1>3, SumNat
<1>. QED
  BY <1>1, <1>4, SupplyIsSum, RayMulNat

LEMMA IndexGrows ==
    ASSUME NEW x \in Nat, NEW i \in Nat \ {0}
    PROVE  RayMul(x + RAY, i) \in Nat \ {0}
<1>1. RAY \in Nat /\ x + RAY \in Nat /\ x + RAY >= RAY
  BY MathAssumption
<1>2. RayMul(x + RAY, i) \in Nat
  BY <1>1, RayMulNat
<1>3. i <= RayMul(i, x + RAY)
  BY <1>1, ScaledZero
<1>4. i * (x + RAY) = (x + RAY) * i
  BY <1>1
<1>5. RayMul(i, x + RAY) = RayMul(x + RAY, i)
  BY <1>4 DEF RayMul
<1>. QED
  BY <1>2, <1>3, <1>5

LEMMA CumulateMoves ==
    ASSUME NEW m, NEW k \in Keys, NEW a \in Assets, NEW toLP, NEW toProtocol,
           Live(m) => toLP \in Nat /\ toProtocol \in Nat
    PROVE  Moves(m, cumulate(m, a, toLP, toProtocol), k, 0)
<1>. DEFINE n == cumulate(m, a, toLP, toProtocol)
            liquidity == Supply(m, a) + RayMul(m.accrued[a], m.index["bToken"][a])
            i == RayMul(RayDiv(toLP, liquidity) + RAY, m.index["bToken"][a])
            r == RayDiv(toProtocol, i)
            paid == [m EXCEPT !.index["bToken"][a] = i, !.accrued[a] = @ + r]
<1>0. n = IF liquidity = 0 THEN Require(m, FALSE) ELSE paid
  BY DEF cumulate
<1>1. Silent(m, n)
  BY ReserveStepsSilent
<1>2. ASSUME Sound(m)
      PROVE  /\ Require(m, FALSE).reverted
             /\ paid.reverted = m.reverted /\ SameAccounts(m, paid)
             /\ paid.stableTotal = m.stableTotal
             /\ paid.stableGrowth = m.stableGrowth /\ paid.unbacked = m.unbacked
             /\ paid.bridgeFee = m.bridgeFee
             /\ paid.accrued = [m.accrued EXCEPT ![a] = @ + r]
             /\ paid.earning = m.earning
             /\ paid.index = [m.index EXCEPT !["bToken"][a] = i]
  <2>. HIDE DEF i, r
  <2>. QED
    BY <1>2 DEF Sound, IsMarket, Shaped, Require, SameAccounts, SamePositions
<1>3. ASSUME Live(m), liquidity # 0
      PROVE  i \in Nat \ {0} /\ r \in Nat
  <2>1. Counted(m)
    BY <1>3 DEF Live, Sound
  <2>2. m.index["bToken"][a] \in Nat \ {0} /\ m.accrued[a] \in Nat
    BY <1>3, <2>1, AccruedNat, CountedIndex DEF Kinds
  <2>3. liquidity \in Nat \ {0}
    <3>1. Supply(m, a) \in Nat
      BY <2>1, SupplyNat
    <3>2. RayMul(m.accrued[a], m.index["bToken"][a]) \in Nat
      BY <2>2, RayMulNat
    <3>. QED
      BY <1>3, <3>1, <3>2
  <2>. HIDE DEF liquidity
  <2>4. RayDiv(toLP, liquidity) \in Nat
    BY <1>3, <2>3, RayDivNat
  <2>5. i \in Nat \ {0}
    BY <2>2, <2>4, IndexGrows
  <2>. HIDE DEF i
  <2>. QED
    BY <1>3, <2>5, RayDivNat
<1>. HIDE DEF n, liquidity, i, r, paid
<1>4. ASSUME Sound(m), ~n.reverted
      PROVE  /\ Counted(n) /\ \A b \in Assets : m.accrued[b] <= n.accrued[b]
             /\ Ledger(m, k) = Ledger(n, k) + 0
  <2>0. n = paid /\ liquidity # 0
    BY <1>0, <1>2, <1>4
  <2>1. Counted(m) /\ Live(m)
    BY <1>2, <1>4, <2>0 DEF Sound, Live
  <2>2. i \in Nat \ {0} /\ r \in Nat
    BY <1>3, <2>0, <2>1
  <2>3. /\ m.index \in [Kinds -> [Assets -> Nat \ {0}]]
        /\ {m.stableTotal, m.stableGrowth, m.unbacked} \subseteq [Assets -> Int]
        /\ m.accrued \in [Assets -> Nat] /\ m.earning \in [Assets -> Nat]
        /\ m.bridgeFee \in 0..PERCENTAGE_FACTOR /\ m.underlying \in [Assets -> Int]
    BY <2>1 DEF Counted
  <2>4. n.index \in [Kinds -> [Assets -> Nat \ {0}]]
    BY <1>2, <1>4, <2>0, <2>2, <2>3 DEF Kinds
  <2>5. /\ n.accrued \in [Assets -> Nat]
        /\ \A b \in Assets : m.accrued[b] <= n.accrued[b]
    BY <1>2, <1>4, <2>0, <2>2, <2>3
  <2>6. Counted(n)
    BY <1>2, <1>4, <2>0, <2>1, <2>3, <2>4, <2>5, SameCounted DEF SameAccounts
  <2>7. Ledger(n, k) = Ledger(m, k) /\ Ledger(m, k) \in Int
    BY <1>2, <1>4, <2>0, <2>1, SameLedger, LedgerInt
  <2>. QED
    BY <2>5, <2>6, <2>7
<1>5. 0 \in Int /\ (Sound(m) => n.reverted \in BOOLEAN /\ (m.reverted => n.reverted))
  <2>1. Sound(m) => Require(m, FALSE).reverted \in BOOLEAN
    BY DEF Sound, IsMarket, Shaped, Require
  <2>2. Sound(m) => m.reverted \in BOOLEAN
    BY DEF Sound
  <2>3. CASE n = paid
    <3>1. Sound(m) => n.reverted = m.reverted
      BY <1>2, <2>3, Zenon
    <3>. QED
      BY <2>2, <3>1
  <2>4. CASE n = Require(m, FALSE)
    <3>1. Sound(m) => n.reverted \in BOOLEAN /\ n.reverted
      BY <1>2, <2>1, <2>4, Zenon
    <3>. QED
      BY <3>1
  <2>. QED
    BY <1>0, <2>3, <2>4
<1>6. Moves(m, n, k, 0)
  BY <1>1, <1>4, <1>5, QuietMoves, Zenon
<1>. QED
  BY <1>6 DEF n

-------------------------------------------------------------------------------
(* Token steps.                                                            *)

\* What a step that touches no account but positions leaves.
Outside(m, n) ==
    /\ n.underlying = m.underlying /\ n.index = m.index
    /\ n.unbacked = m.unbacked /\ n.accrued = m.accrued /\ n.earning = m.earning
    /\ n.bridgeFee = m.bridgeFee

\* A balance has changed, and the index of its last change.
Touched(m, n, kind, u, a, scaled) ==
    /\ Outside(m, n) /\ n.stableTotal = m.stableTotal /\ n.stableGrowth = m.stableGrowth
    /\ ~n.reverted => m.position[u, a][kind].balance + scaled >= 0
    /\ \A v \in Holders, b \in Assets :
         /\ n.position[v, b].principal = m.position[v, b].principal
         /\ n.position[v, b].interest = m.position[v, b].interest
         /\ \A t \in Kinds :
              /\ DOMAIN n.position[v, b][t] = {"balance", "index"}
              /\ n.position[v, b][t].balance =
                   IF v = u /\ b = a /\ t = kind THEN m.position[u, a][kind].balance + scaled
                                                 ELSE m.position[v, b][t].balance
              /\ n.position[v, b][t].index =
                   IF v = u /\ b = a /\ t = kind THEN m.index[kind][a]
                                                 ELSE m.position[v, b][t].index

LEMMA TouchEffect ==
    ASSUME NEW m, Live(m), NEW kind \in Kinds, NEW u \in Holders, NEW a \in Assets, NEW scaled,
           NEW n, n = Touch(m, kind, u, a, scaled)
    PROVE  Touched(m, n, kind, u, a, scaled)
<1>. DEFINE q == [m EXCEPT !.position[<<u, a>>][kind].balance = @ + scaled,
                           !.position[<<u, a>>][kind].index = m.index[kind][a]]
            p == [m.position[u, a] EXCEPT ![kind].balance = @ + scaled,
                                          ![kind].index = m.index[kind][a]]
<1>1. Shaped(m) /\ Counted(m)
  BY DEF Live, Sound, IsMarket
<1>2. q.position = [m.position EXCEPT ![<<u, a>>] = p]
  BY <1>1 DEF Shaped
<1>3. /\ Outside(m, q) /\ q.stableTotal = m.stableTotal /\ q.stableGrowth = m.stableGrowth
      /\ DOMAIN q = DOMAIN m
  BY <1>1 DEF Shaped, Outside
<1>4. /\ DOMAIN m.position[u, a] = {"bToken", "vToken", "principal", "interest", "collateral"}
      /\ \A t \in Kinds : DOMAIN m.position[u, a][t] = {"balance", "index"}
  <2>1. DOMAIN m.position[u, a] = {"bToken", "vToken", "principal", "interest", "collateral"}
    BY <1>1 DEF Shaped
  <2>2. \A t \in Kinds : DOMAIN m.position[u, a][t] = {"balance", "index"}
    BY <1>1, CountedPosition, Zenon
  <2>. QED
    BY <2>1, <2>2
<1>5. /\ p.principal = m.position[u, a].principal /\ p.interest = m.position[u, a].interest
      /\ \A t \in Kinds :
           /\ DOMAIN p[t] = {"balance", "index"}
           /\ p[t].balance = IF t = kind THEN m.position[u, a][kind].balance + scaled
                                         ELSE m.position[u, a][t].balance
           /\ p[t].index = IF t = kind THEN m.index[kind][a] ELSE m.position[u, a][t].index
  BY <1>4 DEF Kinds
<1>6. n = Require(q, m.position[u, a][kind].balance + scaled >= 0)
  BY DEF Touch
<1>. HIDE DEF p, q
<1>7. /\ n.position = q.position /\ Outside(m, n)
      /\ n.stableTotal = m.stableTotal /\ n.stableGrowth = m.stableGrowth
      /\ ~n.reverted => m.position[u, a][kind].balance + scaled >= 0
  BY <1>1, <1>3, <1>6 DEF Require, Shaped, Outside
<1>8. ASSUME NEW v \in Holders, NEW b \in Assets
      PROVE  /\ DOMAIN m.position = Holders \X Assets
             /\ \A t \in Kinds : DOMAIN m.position[v, b][t] = {"balance", "index"}
  <2>1. DOMAIN m.position = Holders \X Assets
    BY <1>1 DEF Shaped
  <2>2. \A t \in Kinds : DOMAIN m.position[v, b][t] = {"balance", "index"}
    BY <1>1, CountedPosition, Zenon
  <2>. QED
    BY <2>1, <2>2
<1>9. ASSUME NEW v \in Holders, NEW b \in Assets
      PROVE  n.position[v, b] = IF v = u /\ b = a THEN p ELSE m.position[v, b]
  BY <1>2, <1>7, <1>8
<1>10. ASSUME NEW v \in Holders, NEW b \in Assets
       PROVE  /\ n.position[v, b].principal = m.position[v, b].principal
              /\ n.position[v, b].interest = m.position[v, b].interest
              /\ \A t \in Kinds :
                   /\ DOMAIN n.position[v, b][t] = {"balance", "index"}
                   /\ n.position[v, b][t].balance =
                        IF v = u /\ b = a /\ t = kind THEN m.position[u, a][kind].balance + scaled
                                                      ELSE m.position[v, b][t].balance
                   /\ n.position[v, b][t].index =
                        IF v = u /\ b = a /\ t = kind THEN m.index[kind][a]
                                                      ELSE m.position[v, b][t].index
  <2>1. CASE v = u /\ b = a
    BY <1>5, <1>9, <2>1
  <2>2. CASE ~(v = u /\ b = a)
    <3>1. n.position[v, b] = m.position[v, b]
      BY <1>9, <2>2
    <3>. QED
      BY <1>8, <2>2, <3>1, Zenon
  <2>. QED
    BY <2>1, <2>2
<1>. QED
  BY <1>7, <1>10, Zenon DEF Touched

LEMMA TouchCounts ==
    ASSUME NEW m, Live(m), NEW kind \in Kinds, NEW u \in Holders, NEW a \in Assets,
           NEW scaled \in Int, NEW n, n = Touch(m, kind, u, a, scaled), ~n.reverted
    PROVE  /\ Counted(n)
           /\ \A k \in Keys : Ledger(n, k) = Ledger(m, k) + Held(k, kind, u, a, scaled)
<1>. DEFINE x(k) == Held(k, kind, u, a, scaled)
<1>1. Counted(m)
  BY DEF Live, Sound
<1>2. /\ Outside(m, n) /\ n.stableTotal = m.stableTotal /\ n.stableGrowth = m.stableGrowth
      /\ m.position[u, a][kind].balance + scaled >= 0
      /\ \A v \in Holders, b \in Assets :
           /\ n.position[v, b].principal = m.position[v, b].principal
           /\ n.position[v, b].interest = m.position[v, b].interest
           /\ \A t \in Kinds :
                /\ DOMAIN n.position[v, b][t] = {"balance", "index"}
                /\ n.position[v, b][t].balance =
                     IF v = u /\ b = a /\ t = kind THEN m.position[u, a][kind].balance + scaled
                                                   ELSE m.position[v, b][t].balance
                /\ n.position[v, b][t].index =
                     IF v = u /\ b = a /\ t = kind THEN m.index[kind][a]
                                                   ELSE m.position[v, b][t].index
  <2>1. Touched(m, n, kind, u, a, scaled)
    BY TouchEffect
  <2>. QED
    BY <2>1, Zenon DEF Touched
<1>3. Counted(n)
  <2>1. ASSUME NEW v \in Holders, NEW b \in Assets
        PROVE  /\ \A t \in Kinds :
                    /\ DOMAIN n.position[v, b][t] = {"balance", "index"}
                    /\ n.position[v, b][t].balance \in Nat /\ n.position[v, b][t].index \in Nat
               /\ n.position[v, b].principal \in Nat /\ n.position[v, b].interest \in Nat
    <3>1. /\ m.position[v, b].principal \in Nat /\ m.position[v, b].interest \in Nat
          /\ \A t \in Kinds :
                m.position[v, b][t].balance \in Nat /\ m.position[v, b][t].index \in Nat
      BY <1>1, CountedPosition
    <3>2. m.position[u, a][kind].balance + scaled \in Nat
      <4>1. m.position[u, a][kind].balance \in Nat
        BY <1>1, CountedPosition
      <4>2. m.position[u, a][kind].balance + scaled >= 0
        BY <1>2
      <4>. DEFINE y == m.position[u, a][kind].balance
      <4>. HIDE DEF y
      <4>3. y \in Nat /\ y + scaled >= 0 => y + scaled \in Nat
        OBVIOUS
      <4>. QED
        BY <4>1, <4>2, <4>3 DEF y
    <3>3. m.index[kind][a] \in Nat
      BY <1>1, CountedIndex
    <3>4. ASSUME NEW t \in Kinds
          PROVE  /\ DOMAIN n.position[v, b][t] = {"balance", "index"}
                 /\ n.position[v, b][t].balance \in Nat /\ n.position[v, b][t].index \in Nat
      <4>1. CASE v = u /\ b = a /\ t = kind
        <5>1. /\ DOMAIN n.position[v, b][t] = {"balance", "index"}
              /\ n.position[v, b][t].balance = m.position[u, a][kind].balance + scaled
              /\ n.position[v, b][t].index = m.index[kind][a]
          BY <1>2, <4>1, Zenon
        <5>. QED
          BY <3>2, <3>3, <5>1, Zenon
      <4>2. CASE ~(v = u /\ b = a /\ t = kind)
        <5>1. /\ DOMAIN n.position[v, b][t] = {"balance", "index"}
              /\ n.position[v, b][t].balance = m.position[v, b][t].balance
              /\ n.position[v, b][t].index = m.position[v, b][t].index
          <6>1. /\ DOMAIN n.position[v, b][t] = {"balance", "index"}
                /\ n.position[v, b][t].balance =
                     IF v = u /\ b = a /\ t = kind THEN m.position[u, a][kind].balance + scaled
                                                   ELSE m.position[v, b][t].balance
                /\ n.position[v, b][t].index =
                     IF v = u /\ b = a /\ t = kind THEN m.index[kind][a]
                                                   ELSE m.position[v, b][t].index
            BY <1>2, Zenon
          <6>. QED
            BY <4>2, <6>1
        <5>. QED
          BY <3>1, <5>1, Zenon
      <4>. QED
        BY <4>1, <4>2
    <3>. QED
      BY <1>2, <3>1, <3>4
  <2>2. /\ m.index \in [Kinds -> [Assets -> Nat \ {0}]]
        /\ {m.underlying, m.stableTotal, m.stableGrowth, m.unbacked} \subseteq [Assets -> Int]
        /\ {m.accrued, m.earning} \subseteq [Assets -> Nat]
        /\ m.bridgeFee \in 0..PERCENTAGE_FACTOR
    BY <1>1 DEF Counted
  <2>3. /\ n.index \in [Kinds -> [Assets -> Nat \ {0}]]
        /\ {n.underlying, n.stableTotal, n.stableGrowth, n.unbacked} \subseteq [Assets -> Int]
        /\ {n.accrued, n.earning} \subseteq [Assets -> Nat]
        /\ n.bridgeFee \in 0..PERCENTAGE_FACTOR
    <3>1. /\ n.underlying = m.underlying /\ n.index = m.index
          /\ n.unbacked = m.unbacked /\ n.accrued = m.accrued /\ n.earning = m.earning
          /\ n.bridgeFee = m.bridgeFee
          /\ n.stableTotal = m.stableTotal /\ n.stableGrowth = m.stableGrowth
      BY <1>2, Zenon DEF Outside
    <3>. QED
      BY <2>2, <3>1
  <2>. QED
    BY <2>1, <2>3 DEF Counted
<1>4. ASSUME NEW k \in Keys
      PROVE  Ledger(n, k) = Ledger(m, k) + x(k)
  <2>0. Ledger(m, k) \in Int
    BY LedgerInt
  <2>1. CASE k[1] = "cash"
    <3>1. Ledger(n, k) = Ledger(m, k) /\ x(k) = 0
      BY <1>2, <2>1 DEF Ledger, Outside, Held, Kinds
    <3>. QED
      BY <2>0, <3>1
  <2>2. CASE k[1] = "principal" /\ k[2] \in Users /\ k[3] \in Assets
    <3>1. PICK v \in Holders, b \in Assets : v = k[2] /\ b = k[3]
      BY <2>2 DEF Holders
    <3>2. n.position[v, b].principal = m.position[v, b].principal
      BY <1>2
    <3>3. Ledger(n, k) = Ledger(m, k) /\ x(k) = 0
      BY <2>2, <3>1, <3>2 DEF Ledger, Held, Kinds
    <3>. QED
      BY <2>0, <3>3
  <2>3. CASE k[1] \in Kinds /\ k[2] \in Users /\ k[3] \in Assets
    <3>1. PICK t \in Kinds, v \in Holders, b \in Assets : t = k[1] /\ v = k[2] /\ b = k[3]
      BY <2>3 DEF Holders
    <3>2. n.position[v, b][t].balance =
            IF v = u /\ b = a /\ t = kind THEN m.position[u, a][kind].balance + scaled
                                          ELSE m.position[v, b][t].balance
      BY <1>2
    <3>3. Ledger(n, k) = n.position[v, b][t].balance /\ Ledger(m, k) = m.position[v, b][t].balance
      BY <3>1 DEF Ledger, Kinds
    <3>4. x(k) = IF v = u /\ b = a /\ t = kind THEN scaled ELSE 0
      BY <3>1 DEF Held
    <3>5. CASE v = u /\ b = a /\ t = kind
      BY <3>2, <3>3, <3>4, <3>5
    <3>6. CASE ~(v = u /\ b = a /\ t = kind)
      <4>1. Ledger(n, k) = Ledger(m, k) /\ x(k) = 0
        BY <3>2, <3>3, <3>4, <3>6
      <4>. QED
        BY <2>0, <4>1
    <3>. QED
      BY <3>5, <3>6
  <2>. QED
    BY <2>1, <2>2, <2>3, KeyCases DEF Kinds
<1>. QED
  BY <1>3, <1>4

\* A step that requires something, changes a balance and says so.
LEMMA TokenStep ==
    ASSUME NEW m, Sound(m), NEW kind \in Kinds, NEW u \in Holders, NEW a \in Assets,
           NEW condition, NEW scaled, Live(m) => scaled \in Int, NEW e,
           NEW n, n = Emit(Touch(Require(m, condition), kind, u, a, scaled), e)
    PROVE  /\ n.reverted \in BOOLEAN /\ (m.reverted => n.reverted)
           /\ n.log = Append(m.log, e)
           /\ ~n.reverted =>
                /\ Counted(n) /\ condition /\ n.accrued = m.accrued
                /\ \A k \in Keys : Ledger(n, k) = Ledger(m, k) + Held(k, kind, u, a, scaled)
<1>. DEFINE q == Require(m, condition)
            t == Touch(q, kind, u, a, scaled)
            touched == [q EXCEPT !.position[<<u, a>>][kind].balance = @ + scaled,
                                 !.position[<<u, a>>][kind].index = q.index[kind][a]]
<1>1. /\ q.reverted \in BOOLEAN /\ (m.reverted => q.reverted) /\ q.log = m.log
      /\ Shaped(q) /\ SameNumbers(m, q) /\ (~q.reverted => condition)
  BY IdleRequired
<1>2. t = Require(touched, q.position[u, a][kind].balance + scaled >= 0)
  BY DEF Touch
<1>. HIDE DEF q
<1>3. touched.reverted = q.reverted /\ touched.log = q.log /\ DOMAIN touched = DOMAIN q
  BY <1>1 DEF Shaped
<1>. HIDE DEF touched
<1>4. /\ t.reverted \in BOOLEAN /\ (q.reverted => t.reverted) /\ t.log = q.log
      /\ DOMAIN t = DOMAIN q
  BY <1>1, <1>2, <1>3 DEF Require, Shaped
<1>5. n = Emit(t, e)
  BY DEF q
<1>. HIDE DEF t
<1>6. n.reverted = t.reverted /\ n.log = Append(t.log, e) /\ SameNumbers(t, n)
  BY <1>1, <1>4, <1>5 DEF Emit, Shaped, SameNumbers, SameAccounts, SamePositions
<1>7. ASSUME ~n.reverted
      PROVE  /\ Counted(n) /\ condition /\ n.accrued = m.accrued
             /\ \A k \in Keys : Ledger(n, k) = Ledger(m, k) + Held(k, kind, u, a, scaled)
  <2>1. ~t.reverted /\ ~q.reverted /\ ~m.reverted
    BY <1>1, <1>4, <1>6, <1>7 DEF Sound
  <2>2. Live(m) /\ Counted(m)
    BY <2>1 DEF Live, Sound
  <2>3. Counted(q) /\ \A k \in Keys : Ledger(q, k) = Ledger(m, k)
    BY <1>1, <2>2, NumbersKept
  <2>4. Live(q)
    <3>1. IsMarket(q)
      BY <1>1 DEF Sound, IsMarket
    <3>2. \A i \in DOMAIN q.log : Measured(q.log[i])
      BY <1>1, <2>1 DEF Sound
    <3>. QED
      BY <1>1, <2>1, <2>3, <3>1, <3>2 DEF Live, Sound
  <2>5. scaled \in Int /\ t = Touch(q, kind, u, a, scaled)
    BY <2>2 DEF t
  <2>6. /\ Counted(t)
        /\ \A k \in Keys : Ledger(t, k) = Ledger(q, k) + Held(k, kind, u, a, scaled)
    BY <2>1, <2>4, <2>5, TouchCounts
  <2>7. Counted(n) /\ \A k \in Keys : Ledger(n, k) = Ledger(t, k)
    BY <1>6, <2>6, NumbersKept
  <2>8. Touched(q, t, kind, u, a, scaled)
    BY <2>4, <2>5, TouchEffect
  <2>9. n.accrued = m.accrued
    BY <1>1, <1>6, <2>8 DEF Touched, Outside, SameNumbers
  <2>. QED
    BY <1>1, <2>1, <2>3, <2>6, <2>7, <2>9
<1>. QED
  BY <1>1, <1>4, <1>6, <1>7

-------------------------------------------------------------------------------
(* What the events of the scaled tokens say.                               *)

LEMMA ScaledEvents ==
    ASSUME NEW m, NEW kind \in Kinds, NEW u, NEW a, NEW value
    PROVE  /\ LET e == MintEvent(m, kind, u, a, value)
              IN  /\ e.name = MintName(kind) /\ e.address = <<kind, a>> /\ e.onBehalfOf = u
                  /\ e.value = value /\ e.balanceIncrease = Increase(m, kind, u, a)
                  /\ e.index = m.index[kind][a]
           /\ LET e == BurnEvent(m, kind, u, a, value)
              IN  /\ e.name = BurnName(kind) /\ e.address = <<kind, a>> /\ e.from = u
                  /\ e.value = value /\ e.balanceIncrease = Increase(m, kind, u, a)
                  /\ e.index = m.index[kind][a]
BY DEF MintEvent, BurnEvent, BTokenMint, VTokenMint, BTokenBurn, VTokenBurn, MintName, BurnName,
       TokenOf, Kinds

LEMMA MintSays ==
    ASSUME NEW kind \in Kinds, NEW u \in Holders, NEW a \in Assets, NEW e,
           e.name = MintName(kind), e.address = <<kind, a>>, e.onBehalfOf = u, NEW k \in Keys
    PROVE  /\ k[1] = "cash" =>
                /\ Loss(e, k) = 0
                /\ Credit(e, k) = IF k[2] # a THEN 0
                                  ELSE IF kind = "vToken" THEN -Issued(e)
                                  ELSE IF u \in Users THEN Issued(e) ELSE 0
           /\ k[1] = kind /\ k[2] = u /\ k[3] = a =>
                /\ Loss(e, k) = IF e.value < e.balanceIncrease THEN 1 ELSE 0
                /\ Credit(e, k) = graphRayDiv(Issued(e), e.index)
           /\ k[1] # "cash" /\ ~(k[1] = kind /\ k[2] = u /\ k[3] = a) =>
                Loss(e, k) = 0 /\ Credit(e, k) = 0
<1>1. CASE k[1] = "cash"
  BY <1>1 DEF Credit, Loss, CashCredit, MintName, Kinds
<1>2. CASE k[1] = "principal"
  BY <1>2 DEF Credit, Loss, PrincipalCredit, MintName, Kinds
<1>3. CASE k[1] \in Kinds
  BY <1>3 DEF Credit, Loss, ScaledCredit, MintName, BurnName, Kinds
<1>. QED
  BY <1>1, <1>2, <1>3, KeyCases DEF Kinds

LEMMA BurnSays ==
    ASSUME NEW kind \in Kinds, NEW u \in Holders, NEW a \in Assets, NEW e,
           e.name = BurnName(kind), e.address = <<kind, a>>, e.from = u, NEW k \in Keys
    PROVE  /\ Loss(e, k) = 0
           /\ k[1] = "cash" =>
                Credit(e, k) = IF k[2] # a THEN 0
                               ELSE IF kind = "vToken" THEN Redeemed(e) ELSE -Redeemed(e)
           /\ k[1] = kind /\ k[2] = u /\ k[3] = a =>
                Credit(e, k) = -graphRayDiv(Redeemed(e), e.index)
           /\ k[1] # "cash" /\ ~(k[1] = kind /\ k[2] = u /\ k[3] = a) => Credit(e, k) = 0
<1>1. CASE k[1] = "cash"
  BY <1>1 DEF Credit, Loss, CashCredit, MintName, BurnName, Kinds
<1>2. CASE k[1] = "principal"
  BY <1>2 DEF Credit, Loss, PrincipalCredit, MintName, BurnName, Kinds
<1>3. CASE k[1] \in Kinds
  BY <1>3 DEF Credit, Loss, ScaledCredit, MintName, BurnName, Kinds
<1>. QED
  BY <1>1, <1>2, <1>3, KeyCases DEF Kinds

\* The mapping rounds as the tokens do, but for amounts below zero.
LEMMA RoundsAlike ==
    ASSUME NEW x \in Nat, NEW i \in Nat \ {0}
    PROVE  /\ RayDiv(x, i) \in Nat
           /\ graphRayDiv(x, i) = RayDiv(x, i)
           /\ graphRayDiv(-x, i) \in Int
           /\ -RayDiv(x, i) <= graphRayDiv(-x, i) /\ graphRayDiv(-x, i) <= 1 - RayDiv(x, i)
<1>. DEFINE y == x * RAY
            h == i \div 2
            p == (y + h) \div i
<1>1. y \in Nat /\ h \in Nat /\ 2 * h <= i /\ (-x) * RAY = -y
  BY MathAssumption, DivBounds
<1>. HIDE DEF y, h
<1>2. p \in Nat /\ i * p <= y + h /\ y + h < i * p + i
  BY <1>1, DivBounds
<1>3. RayDiv(x, i) = p
  BY DEF RayDiv, DivHalfUp, y, h
<1>4. graphRayDiv(x, i) = p
  <2>1. graphRayDiv(x, i) = Truncated(y + h, i)
    BY DEF graphRayDiv, y, h
  <2>. QED
    BY <1>1, <2>1 DEF Truncated
<1>5. graphRayDiv(-x, i) = Truncated(-y + h, i)
  <2>1. graphRayDiv(-x, i) = Truncated((-x) * RAY + h, i)
    BY DEF graphRayDiv, h
  <2>. QED
    BY <1>1, <2>1
<1>. HIDE DEF p
<1>6. CASE -y + h >= 0
  <2>1. -y + h \in Nat /\ -y + h < i /\ y + h <= i
    BY <1>1, <1>6
  <2>2. (-y + h) \div i = 0
    <3>. DEFINE z == -y + h
    <3>1. z \in Nat /\ i * 0 <= z /\ z < i * 0 + i
      BY <1>1, <2>1
    <3>. HIDE DEF z
    <3>2. z \div i = 0
      BY <3>1, DivUnique
    <3>. QED
      BY <3>2 DEF z
  <2>3. p <= 1
    <3>1. i * p < i * 2
      BY <1>1, <1>2, <2>1
    <3>. QED
      BY <1>2, <3>1
  <2>. QED
    BY <1>2, <1>3, <1>4, <1>5, <1>6, <2>2, <2>3 DEF Truncated
<1>7. CASE ~(-y + h >= 0)
  <2>. DEFINE r == (-(-y + h)) \div i
              z == -(-y + h)
  <2>1. z = y - h /\ z \in Nat
    BY <1>1, <1>7
  <2>. HIDE DEF z
  <2>2. z \div i \in Nat /\ i * (z \div i) <= z /\ z < i * (z \div i) + i
    BY <2>1, DivBounds
  <2>. DEFINE w == z \div i
  <2>3. graphRayDiv(-x, i) = -w
    BY <1>5, <1>7 DEF Truncated, z
  <2>. HIDE DEF w
  <2>4. w \in Nat /\ i * w <= y - h /\ y - h < i * w + i
    BY <2>1, <2>2 DEF w
  <2>5. w <= p
    <3>1. i * w < i * (p + 1)
      BY <1>1, <1>2, <2>4
    <3>. QED
      BY <1>2, <2>4, <3>1
  <2>6. p <= w + 1
    <3>1. i * p < i * (w + 2)
      BY <1>1, <1>2, <2>4
    <3>. QED
      BY <1>2, <2>4, <3>1
  <2>. QED
    BY <1>2, <1>3, <1>4, <2>3, <2>4, <2>5, <2>6
<1>. QED
  BY <1>6, <1>7, <1>1

LEMMA CountedNumbers ==
    ASSUME NEW m, Live(m), NEW kind \in Kinds, NEW u \in Holders, NEW a \in Assets
    PROVE  /\ m.index[kind][a] \in Nat \ {0} /\ m.position[u, a][kind].balance \in Nat
           /\ BalanceOf(m, kind, u, a) \in Nat /\ Increase(m, kind, u, a) \in Int
           /\ StableDebt(m, u, a) \in Nat /\ m.position[u, a].interest \in Nat
<1>1. Counted(m)
  BY DEF Live, Sound
<1>2. m.index[kind][a] \in Nat \ {0}
  BY <1>1, CountedIndex
<1>3. /\ m.position[u, a][kind].balance \in Nat /\ m.position[u, a][kind].index \in Nat
      /\ m.position[u, a].principal \in Nat /\ m.position[u, a].interest \in Nat
  BY <1>1, CountedPosition
<1>4. BalanceOf(m, kind, u, a) \in Nat
  BY <1>2, <1>3, RayMulNat DEF BalanceOf
<1>5. RayMul(m.position[u, a][kind].balance, m.position[u, a][kind].index) \in Nat
  BY <1>3, RayMulNat
<1>6. Increase(m, kind, u, a) \in Int
  <2>. DEFINE new == BalanceOf(m, kind, u, a)
              last == RayMul(m.position[u, a][kind].balance, m.position[u, a][kind].index)
  <2>1. new \in Nat /\ last \in Nat
    BY <1>4, <1>5
  <2>2. Increase(m, kind, u, a) = new - last
    BY DEF Increase
  <2>. HIDE DEF new, last
  <2>. QED
    BY <2>1, <2>2
<1>7. StableDebt(m, u, a) \in Nat
  <2>. DEFINE p == m.position[u, a].principal
              i == m.position[u, a].interest
  <2>1. p \in Nat /\ i \in Nat /\ StableDebt(m, u, a) = p + i
    BY <1>3 DEF StableDebt
  <2>. HIDE DEF p, i
  <2>. QED
    BY <2>1
<1>. QED
  BY <1>2, <1>3, <1>4, <1>6, <1>7

LEMMA ZeroDivides ==
    ASSUME NEW i \in Nat \ {0}
    PROVE  RayDiv(0, i) = 0 /\ graphRayDiv(0, i) = 0
<1>. DEFINE h == i \div 2
<1>1. h \in Nat /\ 2 * h <= i /\ 0 * RAY = 0
  BY MathAssumption, DivBounds
<1>2. i * 0 <= h /\ h < i * 0 + i
  BY <1>1
<1>3. h \div i = 0
  <2>. HIDE DEF h
  <2>. QED
    BY <1>1, <1>2, DivUnique
<1>4. 0 * RAY + h = h
  BY <1>1
<1>5. RayDiv(0, i) = 0
  BY <1>3, <1>4 DEF RayDiv, DivHalfUp
<1>. QED
  BY <1>5, RoundsAlike

\* What a mint of a scaled token leaves to be accounted for: who pays for it.
Issue(k, kind, u, a, amount) ==
    IF kind = "vToken" THEN Cash(k, a, -amount)
    ELSE IF u \in Users THEN Cash(k, a, amount) ELSE 0

LEMMA MintBooks ==
    ASSUME NEW kind \in Kinds, NEW u \in Holders, NEW a \in Assets, NEW k \in Keys, NEW e,
           e.name = MintName(kind), e.address = <<kind, a>>, e.onBehalfOf = u,
           NEW amount \in Int, Issued(e) = amount, graphRayDiv(amount, e.index) \in Int,
           NEW scaled \in Int, NEW before \in Int,
           scaled <= graphRayDiv(amount, e.index),
           graphRayDiv(amount, e.index) - (IF e.value < e.balanceIncrease THEN 1 ELSE 0) <= scaled
    PROVE  Books(e, k, ((before + Held(k, kind, u, a, scaled)) + Issue(k, kind, u, a, amount))
                         - before)
<1>. DEFINE h == Held(k, kind, u, a, scaled)
            x == Issue(k, kind, u, a, amount)
            g == graphRayDiv(amount, e.index)
            l == IF e.value < e.balanceIncrease THEN 1 ELSE 0
<1>1. g \in Int /\ l \in Int /\ scaled <= g /\ g - l <= scaled
  OBVIOUS
<1>2. CASE k[1] = "cash"
  <2>1. h = 0
    BY <1>2 DEF Held, Kinds
  <2>2. x \in Int /\ Credit(e, k) = x /\ Loss(e, k) = 0
    BY <1>2, MintSays DEF Issue, Cash, Kinds
  <2>. HIDE DEF h, x
  <2>3. ((before + h) + x) - before = x
    BY <2>1, <2>2
  <2>. QED
    BY <2>2, <2>3 DEF Books, h, x
<1>3. CASE k[1] = kind /\ k[2] = u /\ k[3] = a
  <2>1. h = scaled /\ x = 0
    BY <1>3 DEF Held, Issue, Cash, Kinds
  <2>2. Credit(e, k) = g /\ Loss(e, k) = l
    BY <1>3, MintSays
  <2>. HIDE DEF h, x, g, l
  <2>3. ((before + h) + x) - before = scaled
    BY <2>1
  <2>. QED
    BY <1>1, <2>2, <2>3 DEF Books, h, x
<1>4. CASE k[1] # "cash" /\ ~(k[1] = kind /\ k[2] = u /\ k[3] = a)
  <2>1. h = 0 /\ x = 0
    BY <1>4 DEF Held, Issue, Cash, Kinds
  <2>2. Credit(e, k) = 0 /\ Loss(e, k) = 0
    BY <1>4, MintSays
  <2>. HIDE DEF h, x
  <2>3. ((before + h) + x) - before = 0
    BY <2>1
  <2>. QED
    BY <2>2, <2>3 DEF Books, h, x
<1>. QED
  BY <1>2, <1>3, <1>4

LEMMA BurnBooks ==
    ASSUME NEW kind \in Kinds, NEW u \in Users, NEW a \in Assets, NEW k \in Keys, NEW e,
           e.name = BurnName(kind), e.address = <<kind, a>>, e.from = u,
           NEW amount \in Int, Redeemed(e) = amount,
           NEW scaled \in Int, NEW before \in Int, scaled = graphRayDiv(amount, e.index)
    PROVE  Books(e, k, ((before + Held(k, kind, u, a, -scaled)) + Issue(k, kind, u, a, -amount))
                         - before)
<1>. DEFINE h == Held(k, kind, u, a, -scaled)
            x == Issue(k, kind, u, a, -amount)
<1>0. u \in Holders
  BY DEF Holders
<1>2. CASE k[1] = "cash"
  <2>1. h = 0
    BY <1>2 DEF Held, Kinds
  <2>2. x \in Int /\ Credit(e, k) = x /\ Loss(e, k) = 0
    <3>1. /\ Loss(e, k) = 0
          /\ Credit(e, k) = IF k[2] # a THEN 0
                            ELSE IF kind = "vToken" THEN Redeemed(e) ELSE -Redeemed(e)
      BY <1>0, <1>2, BurnSays
    <3>2. x = IF k[2] # a THEN 0 ELSE IF kind = "vToken" THEN amount ELSE -amount
      BY <1>2 DEF Issue, Cash, Kinds
    <3>. QED
      BY <3>1, <3>2
  <2>. HIDE DEF h, x
  <2>3. ((before + h) + x) - before = x
    BY <2>1, <2>2
  <2>. QED
    BY <2>2, <2>3 DEF Books, h, x
<1>3. CASE k[1] = kind /\ k[2] = u /\ k[3] = a
  <2>1. h = -scaled /\ x = 0
    BY <1>3 DEF Held, Issue, Cash, Kinds
  <2>2. Credit(e, k) = -scaled /\ Loss(e, k) = 0
    BY <1>0, <1>3, BurnSays
  <2>. HIDE DEF h, x
  <2>3. ((before + h) + x) - before = -scaled
    BY <2>1
  <2>. QED
    BY <2>2, <2>3 DEF Books, h, x
<1>4. CASE k[1] # "cash" /\ ~(k[1] = kind /\ k[2] = u /\ k[3] = a)
  <2>1. h = 0 /\ x = 0
    BY <1>4 DEF Held, Issue, Cash, Kinds
  <2>2. Credit(e, k) = 0 /\ Loss(e, k) = 0
    BY <1>0, <1>4, BurnSays
  <2>. HIDE DEF h, x
  <2>3. ((before + h) + x) - before = 0
    BY <2>1
  <2>. QED
    BY <2>2, <2>3 DEF Books, h, x
<1>. QED
  BY <1>2, <1>3, <1>4

LEMMA IssueInt ==
    ASSUME NEW k, NEW kind, NEW u, NEW a, NEW amount \in Int
    PROVE  Issue(k, kind, u, a, amount) \in Int
BY DEF Issue, Cash

LEMMA ScaledMeasured ==
    ASSUME NEW m, Live(m), NEW kind \in Kinds, NEW u \in Holders, NEW a \in Assets,
           kind = "vToken" => u \in Users, NEW value \in Int
    PROVE  /\ Measured(MintEvent(m, kind, u, a, value))
           /\ u \in Users => Measured(BurnEvent(m, kind, u, a, value))
<1>1. m.index[kind][a] \in Nat \ {0} /\ Increase(m, kind, u, a) \in Int
  BY CountedNumbers
<1>. DEFINE i == Increase(m, kind, u, a)
            x == m.index[kind][a]
<1>2. MintEvent(m, kind, u, a, value) =
        IF kind = "bToken" THEN BTokenMint(TokenOf(kind, a), u, value, i, x)
                           ELSE VTokenMint(TokenOf(kind, a), u, value, i, x)
  BY DEF MintEvent
<1>3. BurnEvent(m, kind, u, a, value) =
        IF kind = "bToken" THEN BTokenBurn(TokenOf(kind, a), u, value, i, x)
                           ELSE VTokenBurn(TokenOf(kind, a), u, value, i, x)
  BY DEF BurnEvent
<1>. HIDE DEF i, x
<1>4. i \in Int /\ x \in Nat \ {0}
  BY <1>1 DEF i, x
<1>5. CASE kind = "bToken"
  BY <1>2, <1>3, <1>4, <1>5 DEF Measured, BTokenMint, BTokenBurn, TokenOf, Kinds, SwitchNames
<1>6. CASE kind = "vToken"
  BY <1>2, <1>3, <1>4, <1>6 DEF Measured, VTokenMint, VTokenBurn, TokenOf, Kinds, SwitchNames
<1>. QED
  BY <1>5, <1>6 DEF Kinds

LEMMA MintScaledMoves ==
    ASSUME NEW m, NEW k \in Keys, NEW kind \in Kinds, NEW u \in Holders, NEW a \in Assets,
           kind = "vToken" => u \in Users, NEW amount, Live(m) => amount \in Nat
    PROVE  Moves(m, mintScaled(m, kind, u, a, amount), k, Issue(k, kind, u, a, amount))
<1>. DEFINE scaled == RayDiv(amount, m.index[kind][a])
            e == MintEvent(m, kind, u, a, amount + Increase(m, kind, u, a))
            n == mintScaled(m, kind, u, a, amount)
            x == Issue(k, kind, u, a, amount)
<1>1. n = Emit(Touch(Require(m, scaled # 0), kind, u, a, scaled), e)
  BY DEF mintScaled
<1>2. Follows(m, n)
  BY MintScaledFollows DEF Kinds
<1>3. ASSUME Live(m)
      PROVE  /\ amount \in Nat /\ scaled \in Nat /\ Measured(e)
             /\ e.name = MintName(kind) /\ e.address = <<kind, a>> /\ e.onBehalfOf = u
             /\ Issued(e) = amount /\ graphRayDiv(amount, e.index) = scaled
             /\ ~(e.value < e.balanceIncrease)
  <2>. DEFINE i == Increase(m, kind, u, a)
              j == m.index[kind][a]
  <2>1. i \in Int /\ j \in Nat \ {0} /\ amount \in Nat
    BY <1>3, CountedNumbers
  <2>2. /\ e.name = MintName(kind) /\ e.address = <<kind, a>> /\ e.onBehalfOf = u
        /\ e.value = amount + i /\ e.balanceIncrease = i /\ e.index = j
    BY ScaledEvents
  <2>3. Measured(e)
    <3>1. amount + i \in Int
      BY <2>1
    <3>. QED
      BY <1>3, <3>1, ScaledMeasured
  <2>4. scaled \in Nat /\ graphRayDiv(amount, j) = scaled
    BY <2>1, RoundsAlike
  <2>. HIDE DEF e, i, j
  <2>5. Issued(e) = amount /\ ~(e.value < e.balanceIncrease)
    BY <2>1, <2>2 DEF Issued
  <2>. QED
    BY <2>1, <2>2, <2>3, <2>4, <2>5
<1>. HIDE DEF scaled, e, n
<1>4. ASSUME Sound(m)
      PROVE  /\ n.reverted \in BOOLEAN /\ (m.reverted => n.reverted) /\ n.log = Append(m.log, e)
             /\ ~n.reverted =>
                  /\ Counted(n) /\ n.accrued = m.accrued
                  /\ Ledger(n, k) = Ledger(m, k) + Held(k, kind, u, a, scaled)
  <2>1. Live(m) => scaled \in Int
    BY <1>3
  <2>. QED
    BY <1>1, <1>4, <2>1, TokenStep
<1>5. ASSUME Sound(m), ~n.reverted
      PROVE  /\ x \in Int /\ Measured(e)
             /\ \A b \in Assets : m.accrued[b] <= n.accrued[b]
             /\ Books(e, k, (Ledger(n, k) + x) - Ledger(m, k))
  <2>1. Live(m)
    BY <1>4, <1>5 DEF Live, Sound
  <2>2. x \in Int
    BY <1>3, <2>1, IssueInt
  <2>3. \A b \in Assets : m.accrued[b] <= n.accrued[b]
    BY <1>4, <1>5, <2>1, AccruedNat
  <2>4. Ledger(m, k) \in Int
    BY <2>1, LedgerInt
  <2>5. Books(e, k, ((Ledger(m, k) + Held(k, kind, u, a, scaled)) + Issue(k, kind, u, a, amount))
                      - Ledger(m, k))
    <3>1. amount \in Int /\ scaled \in Int
      BY <1>3, <2>1
    <3>2. /\ graphRayDiv(amount, e.index) \in Int /\ scaled <= graphRayDiv(amount, e.index)
          /\ graphRayDiv(amount, e.index)
               - (IF e.value < e.balanceIncrease THEN 1 ELSE 0) <= scaled
      BY <1>3, <2>1
    <3>. QED
      BY <1>3, <2>1, <2>4, <3>1, <3>2, MintBooks
  <2>. QED
    BY <1>3, <1>4, <1>5, <2>1, <2>2, <2>3, <2>5
<1>. HIDE DEF x
<1>6. Moves(m, n, k, x)
  BY <1>2, <1>4, <1>5, EventMoves
<1>. QED
  BY <1>6 DEF n, x

LEMMA BurnScaledMoves ==
    ASSUME NEW m, NEW k \in Keys, NEW kind \in Kinds, NEW u \in Users, NEW a \in Assets,
           NEW amount, Live(m) => amount \in Nat
    PROVE  Moves(m, burnScaled(m, kind, u, a, amount), k, Issue(k, kind, u, a, -amount))
<1>. DEFINE scaled == RayDiv(amount, m.index[kind][a])
            i == Increase(m, kind, u, a)
            j == m.index[kind][a]
            e == IF i > amount THEN MintEvent(m, kind, u, a, i - amount)
                               ELSE BurnEvent(m, kind, u, a, amount - i)
            n == burnScaled(m, kind, u, a, amount)
            x == Issue(k, kind, u, a, -amount)
<1>0. u \in Holders
  BY DEF Holders
<1>1. n = Emit(Touch(Require(m, scaled # 0), kind, u, a, -scaled), e)
  BY DEF burnScaled
<1>2. Follows(m, n)
  BY <1>0, BurnScaledFollows DEF Kinds
<1>3. ASSUME Live(m)
      PROVE  /\ amount \in Nat /\ scaled \in Nat /\ i \in Int /\ j \in Nat \ {0} /\ Measured(e)
             /\ graphRayDiv(amount, j) = scaled /\ graphRayDiv(-amount, j) \in Int
             /\ -scaled <= graphRayDiv(-amount, j) /\ graphRayDiv(-amount, j) <= 1 - scaled
  <2>1. i \in Int /\ j \in Nat \ {0} /\ amount \in Nat
    BY <1>0, <1>3, CountedNumbers
  <2>2. Measured(e)
    <3>1. i - amount \in Int /\ amount - i \in Int
      BY <2>1
    <3>2. Measured(MintEvent(m, kind, u, a, i - amount))
          /\ Measured(BurnEvent(m, kind, u, a, amount - i))
      BY <1>0, <1>3, <3>1, ScaledMeasured
    <3>. QED
      BY <3>2
  <2>. QED
    BY <2>1, <2>2, RoundsAlike
<1>4. /\ i > amount => /\ e.name = MintName(kind) /\ e.address = <<kind, a>> /\ e.onBehalfOf = u
                       /\ e.value = i - amount /\ e.balanceIncrease = i /\ e.index = j
      /\ ~(i > amount) => /\ e.name = BurnName(kind) /\ e.address = <<kind, a>> /\ e.from = u
                          /\ e.value = amount - i /\ e.balanceIncrease = i /\ e.index = j
  <2>. DEFINE mint == MintEvent(m, kind, u, a, i - amount)
              burn == BurnEvent(m, kind, u, a, amount - i)
  <2>1. /\ mint.name = MintName(kind) /\ mint.address = <<kind, a>> /\ mint.onBehalfOf = u
        /\ mint.value = i - amount /\ mint.balanceIncrease = i /\ mint.index = j
        /\ burn.name = BurnName(kind) /\ burn.address = <<kind, a>> /\ burn.from = u
        /\ burn.value = amount - i /\ burn.balanceIncrease = i /\ burn.index = j
    BY ScaledEvents
  <2>2. e = IF i > amount THEN mint ELSE burn
    OBVIOUS
  <2>. HIDE DEF mint, burn, e, i, j
  <2>. QED
    BY <2>1, <2>2
<1>. HIDE DEF scaled, e, n, i, j
<1>5. ASSUME Sound(m)
      PROVE  /\ n.reverted \in BOOLEAN /\ (m.reverted => n.reverted) /\ n.log = Append(m.log, e)
             /\ ~n.reverted =>
                  /\ Counted(n) /\ scaled # 0 /\ n.accrued = m.accrued
                  /\ Ledger(n, k) = Ledger(m, k) + Held(k, kind, u, a, -scaled)
  <2>1. Live(m) => -scaled \in Int
    BY <1>3
  <2>. QED
    BY <1>0, <1>1, <1>5, <2>1, TokenStep
<1>6. ASSUME Sound(m), ~n.reverted
      PROVE  /\ x \in Int /\ Measured(e)
             /\ \A b \in Assets : m.accrued[b] <= n.accrued[b]
             /\ Books(e, k, (Ledger(n, k) + x) - Ledger(m, k))
  <2>1. Live(m)
    BY <1>5, <1>6 DEF Live, Sound
  <2>2. x \in Int
    BY <1>3, <2>1, IssueInt
  <2>3. \A b \in Assets : m.accrued[b] <= n.accrued[b]
    BY <1>5, <1>6, <2>1, AccruedNat
  <2>4. Ledger(m, k) \in Int
    BY <2>1, LedgerInt
  <2>5. Books(e, k, ((Ledger(m, k) + Held(k, kind, u, a, -scaled))
                       + Issue(k, kind, u, a, -amount)) - Ledger(m, k))
    <3>1. CASE i > amount
      <4>1. /\ e.name = MintName(kind) /\ e.address = <<kind, a>> /\ e.onBehalfOf = u
            /\ e.value = i - amount /\ e.balanceIncrease = i /\ e.index = j
        BY <1>4, <3>1
      <4>2. Issued(e) = -amount
        BY <1>3, <2>1, <4>1 DEF Issued
      <4>3. e.value < e.balanceIncrease
        <5>1. amount # 0
          <6>1. SUFFICES ASSUME amount = 0 PROVE FALSE
            OBVIOUS
          <6>2. RayDiv(0, j) = 0
            BY <1>3, <2>1, ZeroDivides
          <6>. QED
            BY <1>5, <1>6, <6>1, <6>2 DEF scaled, j
        <5>. QED
          BY <1>3, <2>1, <4>1, <5>1
      <4>4. -amount \in Int /\ -scaled \in Int
        BY <1>3, <2>1
      <4>5. /\ graphRayDiv(-amount, e.index) \in Int /\ -scaled <= graphRayDiv(-amount, e.index)
            /\ graphRayDiv(-amount, e.index)
                 - (IF e.value < e.balanceIncrease THEN 1 ELSE 0) <= -scaled
        BY <1>3, <2>1, <4>1, <4>3
      <4>. QED
        BY <1>0, <2>4, <4>1, <4>2, <4>4, <4>5, MintBooks
    <3>2. CASE ~(i > amount)
      <4>1. /\ e.name = BurnName(kind) /\ e.address = <<kind, a>> /\ e.from = u
            /\ e.value = amount - i /\ e.balanceIncrease = i /\ e.index = j
        BY <1>4, <3>2
      <4>2. Redeemed(e) = amount
        BY <1>3, <2>1, <4>1 DEF Redeemed
      <4>3. amount \in Int /\ scaled \in Int /\ scaled = graphRayDiv(amount, e.index)
        BY <1>3, <2>1, <4>1
      <4>. QED
        BY <2>4, <4>1, <4>2, <4>3, BurnBooks
    <3>. QED
      BY <3>1, <3>2
  <2>. QED
    BY <1>3, <1>5, <1>6, <2>1, <2>2, <2>3, <2>5
<1>. HIDE DEF x
<1>7. Moves(m, n, k, x)
  BY <1>2, <1>5, <1>6, EventMoves
<1>. QED
  BY <1>7 DEF n, x

-------------------------------------------------------------------------------
(* Stable debts.                                                           *)

\* Interest has become principal, and the principal has changed.
Compounded(m, n, u, a, change, supply) ==
    /\ Outside(m, n)
    /\ n.stableTotal = [m.stableTotal EXCEPT ![a] = supply]
    /\ n.stableGrowth = [m.stableGrowth EXCEPT ![a] = 0]
    /\ ~n.reverted => m.position[u, a].principal + change >= 0
    /\ \A v \in Holders, b \in Assets :
         /\ n.position[v, b].bToken = m.position[v, b].bToken
         /\ n.position[v, b].vToken = m.position[v, b].vToken
         /\ n.position[v, b].principal =
              IF v = u /\ b = a THEN m.position[u, a].principal + change
                                ELSE m.position[v, b].principal
         /\ n.position[v, b].interest = IF v = u /\ b = a THEN 0 ELSE m.position[v, b].interest

LEMMA CompoundEffect ==
    ASSUME NEW m, Live(m), NEW u \in Holders, NEW a \in Assets, NEW change, NEW supply,
           NEW n, n = Compound(m, u, a, change, supply)
    PROVE  Compounded(m, n, u, a, change, supply)
<1>. DEFINE q == [m EXCEPT !.position[<<u, a>>].principal = @ + change,
                           !.position[<<u, a>>].interest = 0,
                           !.stableTotal[a] = supply, !.stableGrowth[a] = 0]
            p == [m.position[u, a] EXCEPT !.principal = @ + change, !.interest = 0]
<1>1. Shaped(m)
  BY DEF Live, Sound, IsMarket
<1>2. q.position = [m.position EXCEPT ![<<u, a>>] = p]
  BY <1>1 DEF Shaped
<1>3. /\ Outside(m, q) /\ q.stableTotal = [m.stableTotal EXCEPT ![a] = supply]
      /\ q.stableGrowth = [m.stableGrowth EXCEPT ![a] = 0]
      /\ DOMAIN q = DOMAIN m
  BY <1>1 DEF Shaped, Outside
<1>4. DOMAIN m.position[u, a] = {"bToken", "vToken", "principal", "interest", "collateral"}
  BY <1>1 DEF Shaped
<1>5. /\ p.bToken = m.position[u, a].bToken /\ p.vToken = m.position[u, a].vToken
      /\ p.principal = m.position[u, a].principal + change /\ p.interest = 0
  BY <1>4
<1>6. n = Require(q, m.position[u, a].principal + change >= 0)
  BY DEF Compound
<1>. HIDE DEF p, q
<1>7. /\ n.position = q.position /\ Outside(m, n)
      /\ n.stableTotal = q.stableTotal /\ n.stableGrowth = q.stableGrowth
      /\ ~n.reverted => m.position[u, a].principal + change >= 0
  BY <1>1, <1>3, <1>6 DEF Require, Shaped, Outside
<1>8. DOMAIN m.position = Holders \X Assets
  BY <1>1 DEF Shaped
<1>9. ASSUME NEW v \in Holders, NEW b \in Assets
      PROVE  n.position[v, b] = IF v = u /\ b = a THEN p ELSE m.position[v, b]
  BY <1>2, <1>7, <1>8
<1>10. ASSUME NEW v \in Holders, NEW b \in Assets
       PROVE  /\ n.position[v, b].bToken = m.position[v, b].bToken
              /\ n.position[v, b].vToken = m.position[v, b].vToken
              /\ n.position[v, b].principal =
                   IF v = u /\ b = a THEN m.position[u, a].principal + change
                                     ELSE m.position[v, b].principal
              /\ n.position[v, b].interest =
                   IF v = u /\ b = a THEN 0 ELSE m.position[v, b].interest
  <2>1. CASE v = u /\ b = a
    BY <1>5, <1>9, <2>1
  <2>2. CASE ~(v = u /\ b = a)
    BY <1>9, <2>2
  <2>. QED
    BY <2>1, <2>2
<1>. QED
  BY <1>3, <1>7, <1>10 DEF Compounded

LEMMA CompoundCounts ==
    ASSUME NEW m, Live(m), NEW u \in Holders, NEW a \in Assets, NEW change \in Int,
           NEW supply \in Int, NEW n, n = Compound(m, u, a, change, supply), ~n.reverted
    PROVE  /\ Counted(n) /\ n.accrued = m.accrued
           /\ \A k \in Keys : Ledger(n, k) = Ledger(m, k) + Held(k, "principal", u, a, change)
<1>1. Counted(m)
  BY DEF Live, Sound
<1>2. Compounded(m, n, u, a, change, supply)
  BY CompoundEffect
<1>3. ASSUME NEW v \in Holders, NEW b \in Assets
      PROVE  /\ n.position[v, b].bToken = m.position[v, b].bToken
             /\ n.position[v, b].vToken = m.position[v, b].vToken
             /\ n.position[v, b].principal =
                  IF v = u /\ b = a THEN m.position[u, a].principal + change
                                    ELSE m.position[v, b].principal
             /\ n.position[v, b].interest =
                  IF v = u /\ b = a THEN 0 ELSE m.position[v, b].interest
  BY <1>2, Zenon DEF Compounded
<1>4. m.position[u, a].principal + change \in Nat
  <2>. DEFINE y == m.position[u, a].principal
  <2>1. y \in Nat
    BY <1>1, CountedPosition
  <2>2. y + change >= 0
    BY <1>2 DEF Compounded
  <2>. HIDE DEF y
  <2>3. y + change \in Nat
    BY <2>1, <2>2
  <2>. QED
    BY <2>3 DEF y
<1>5. Counted(n)
  <2>1. ASSUME NEW v \in Holders, NEW b \in Assets
        PROVE  /\ \A t \in Kinds :
                    /\ DOMAIN n.position[v, b][t] = {"balance", "index"}
                    /\ n.position[v, b][t].balance \in Nat /\ n.position[v, b][t].index \in Nat
               /\ n.position[v, b].principal \in Nat /\ n.position[v, b].interest \in Nat
    <3>1. /\ m.position[v, b].principal \in Nat /\ m.position[v, b].interest \in Nat
          /\ \A t \in Kinds :
               /\ DOMAIN m.position[v, b][t] = {"balance", "index"}
               /\ m.position[v, b][t].balance \in Nat /\ m.position[v, b][t].index \in Nat
      BY <1>1, CountedPosition
    <3>2. \A t \in Kinds : n.position[v, b][t] = m.position[v, b][t]
      BY <1>3 DEF Kinds
    <3>3. n.position[v, b].principal \in Nat /\ n.position[v, b].interest \in Nat
      <4>1. CASE v = u /\ b = a
        <5>1. /\ n.position[v, b].principal = m.position[u, a].principal + change
              /\ n.position[v, b].interest = 0
          BY <1>3, <4>1
        <5>2. 0 \in Nat
          OBVIOUS
        <5>. QED
          BY <1>4, <5>1, <5>2, Zenon
      <4>2. CASE ~(v = u /\ b = a)
        <5>1. /\ n.position[v, b].principal = m.position[v, b].principal
              /\ n.position[v, b].interest = m.position[v, b].interest
          BY <1>3, <4>2
        <5>. QED
          BY <3>1, <5>1
      <4>. QED
        BY <4>1, <4>2
    <3>. QED
      BY <3>1, <3>2, <3>3
  <2>2. /\ m.index \in [Kinds -> [Assets -> Nat \ {0}]]
        /\ {m.underlying, m.stableTotal, m.stableGrowth, m.unbacked} \subseteq [Assets -> Int]
        /\ {m.accrued, m.earning} \subseteq [Assets -> Nat]
        /\ m.bridgeFee \in 0..PERCENTAGE_FACTOR
    BY <1>1 DEF Counted
  <2>3. /\ n.underlying = m.underlying /\ n.index = m.index
        /\ n.unbacked = m.unbacked /\ n.accrued = m.accrued /\ n.earning = m.earning
        /\ n.bridgeFee = m.bridgeFee
        /\ n.stableTotal = [m.stableTotal EXCEPT ![a] = supply]
        /\ n.stableGrowth = [m.stableGrowth EXCEPT ![a] = 0]
    BY <1>2 DEF Compounded, Outside
  <2>4. /\ n.index \in [Kinds -> [Assets -> Nat \ {0}]]
        /\ {n.underlying, n.stableTotal, n.stableGrowth, n.unbacked} \subseteq [Assets -> Int]
        /\ {n.accrued, n.earning} \subseteq [Assets -> Nat]
        /\ n.bridgeFee \in 0..PERCENTAGE_FACTOR
    <3>1. n.stableTotal \in [Assets -> Int] /\ n.stableGrowth \in [Assets -> Int]
      BY <2>2, <2>3
    <3>. QED
      BY <2>2, <2>3, <3>1
  <2>. QED
    BY <2>1, <2>4 DEF Counted
<1>6. n.accrued = m.accrued /\ n.underlying = m.underlying
  BY <1>2 DEF Compounded, Outside
<1>7. ASSUME NEW k \in Keys
      PROVE  Ledger(n, k) = Ledger(m, k) + Held(k, "principal", u, a, change)
  <2>. DEFINE h == Held(k, "principal", u, a, change)
  <2>0. Ledger(m, k) \in Int
    BY LedgerInt
  <2>1. CASE k[1] = "cash"
    <3>1. Ledger(n, k) = Ledger(m, k) /\ h = 0
      BY <1>6, <2>1 DEF Ledger, Held
    <3>. QED
      BY <2>0, <3>1
  <2>2. CASE k[1] = "principal" /\ k[2] \in Users /\ k[3] \in Assets
    <3>1. PICK v \in Holders, b \in Assets : v = k[2] /\ b = k[3]
      BY <2>2 DEF Holders
    <3>2. n.position[v, b].principal =
            IF v = u /\ b = a THEN m.position[u, a].principal + change
                              ELSE m.position[v, b].principal
      BY <1>3
    <3>3. /\ Ledger(n, k) = n.position[v, b].principal
          /\ Ledger(m, k) = m.position[v, b].principal
      BY <2>2, <3>1 DEF Ledger
    <3>4. h = IF v = u /\ b = a THEN change ELSE 0
      BY <2>2, <3>1 DEF Held
    <3>5. CASE v = u /\ b = a
      BY <3>2, <3>3, <3>4, <3>5
    <3>6. CASE ~(v = u /\ b = a)
      <4>1. Ledger(n, k) = Ledger(m, k) /\ h = 0
        BY <3>2, <3>3, <3>4, <3>6
      <4>. QED
        BY <2>0, <4>1
    <3>. QED
      BY <3>5, <3>6
  <2>3. CASE k[1] \in Kinds /\ k[2] \in Users /\ k[3] \in Assets
    <3>1. PICK t \in Kinds, v \in Holders, b \in Assets : t = k[1] /\ v = k[2] /\ b = k[3]
      BY <2>3 DEF Holders
    <3>2. n.position[v, b][t] = m.position[v, b][t]
      BY <1>3 DEF Kinds
    <3>3. Ledger(n, k) = n.position[v, b][t].balance /\ Ledger(m, k) = m.position[v, b][t].balance
      BY <3>1 DEF Ledger, Kinds
    <3>4. h = 0
      BY <3>1 DEF Held, Kinds
    <3>5. Ledger(n, k) = Ledger(m, k)
      BY <3>2, <3>3
    <3>. QED
      BY <2>0, <3>4, <3>5
  <2>. QED
    BY <2>1, <2>2, <2>3, KeyCases DEF Kinds
<1>. QED
  BY <1>5, <1>6, <1>7

\* An event of the stable token over its change.
LEMMA StableStep ==
    ASSUME NEW m, NEW k \in Keys, NEW u \in Users, NEW a \in Assets, NEW change, NEW supply,
           NEW e, NEW n, n = Emit(Compound(m, u, a, change, supply), e), Follows(m, n),
           NEW x,
           Live(m) => /\ change \in Int /\ supply \in Int /\ x \in Int /\ Measured(e)
                      /\ Books(e, k, ((Ledger(m, k) + Held(k, "principal", u, a, change)) + x)
                                       - Ledger(m, k))
    PROVE  Moves(m, n, k, x)
<1>. DEFINE q == [m EXCEPT !.position[<<u, a>>].principal = @ + change,
                           !.position[<<u, a>>].interest = 0,
                           !.stableTotal[a] = supply, !.stableGrowth[a] = 0]
            t == Compound(m, u, a, change, supply)
<1>0. u \in Holders
  BY DEF Holders
<1>1. t = Require(q, m.position[u, a].principal + change >= 0)
  BY DEF Compound
<1>2. ASSUME Sound(m)
      PROVE  DOMAIN q = DOMAIN m /\ q.reverted = m.reverted /\ q.log = m.log
  BY <1>2 DEF Sound, IsMarket, Shaped
<1>3. n = Emit(t, e)
  OBVIOUS
<1>. HIDE DEF q
<1>4. ASSUME Sound(m)
      PROVE  /\ t.reverted \in BOOLEAN /\ (m.reverted => t.reverted) /\ t.log = m.log
             /\ DOMAIN t = DOMAIN m
  <2>1. m.reverted \in BOOLEAN /\ Shaped(m)
    BY <1>4 DEF Sound, IsMarket
  <2>. HIDE DEF t
  <2>. QED
    BY <1>1, <1>2, <1>4, <2>1 DEF Require, Shaped
<1>. HIDE DEF t
<1>5. ASSUME Sound(m)
      PROVE  /\ n.reverted = t.reverted /\ n.log = Append(m.log, e) /\ SameNumbers(t, n)
  <2>1. Shaped(m)
    BY <1>5 DEF Sound, IsMarket
  <2>. QED
    BY <1>3, <1>4, <1>5, <2>1 DEF Emit, Shaped, SameNumbers, SameAccounts, SamePositions
<1>6. ASSUME Sound(m), ~n.reverted
      PROVE  /\ x \in Int /\ Counted(n) /\ Measured(e)
             /\ \A b \in Assets : m.accrued[b] <= n.accrued[b]
             /\ Books(e, k, (Ledger(n, k) + x) - Ledger(m, k))
  <2>1. Live(m) /\ ~t.reverted
    BY <1>4, <1>5, <1>6 DEF Live, Sound
  <2>2. /\ Counted(t) /\ t.accrued = m.accrued
        /\ Ledger(t, k) = Ledger(m, k) + Held(k, "principal", u, a, change)
    BY <1>0, <2>1, CompoundCounts DEF t
  <2>3. Counted(n) /\ Ledger(n, k) = Ledger(t, k)
    BY <1>5, <1>6, <2>2, NumbersKept
  <2>4. n.accrued = m.accrued
    BY <1>5, <1>6, <2>2 DEF SameNumbers
  <2>5. \A b \in Assets : m.accrued[b] <= n.accrued[b]
    BY <2>1, <2>4, AccruedNat
  <2>. QED
    BY <2>1, <2>2, <2>3, <2>5
<1>7. Sound(m) => n.reverted \in BOOLEAN /\ (m.reverted => n.reverted)
  BY <1>4, <1>5
<1>. QED
  BY <1>5, <1>6, <1>7, EventMoves

LEMMA StableSays ==
    ASSUME NEW u \in Users, NEW a \in Assets, NEW e, e.address = TokenOf("sToken", a),
           NEW amount \in Int, NEW change \in Int,
           \/ /\ e.name = "STokenMint" /\ e.onBehalfOf = u
              /\ e.amount = change /\ e.amount - e.balanceIncrease = amount
           \/ /\ e.name = "STokenBurn" /\ e.from = u
              /\ e.amount = -change /\ e.amount + e.balanceIncrease = -amount,
           NEW k \in Keys, NEW before \in Int
    PROVE  /\ Cash(k, a, -amount) \in Int
           /\ Books(e, k, ((before + Held(k, "principal", u, a, change)) + Cash(k, a, -amount))
                            - before)
<1>. DEFINE h == Held(k, "principal", u, a, change)
            x == Cash(k, a, -amount)
<1>0. x \in Int
  BY DEF Cash
<1>1. Loss(e, k) = 0
  BY DEF Loss, MintName, Kinds
<1>2. CASE k[1] = "cash"
  <2>1. h = 0
    BY <1>2 DEF Held
  <2>2. Credit(e, k) = x
    BY <1>2 DEF Credit, CashCredit, Cash, TokenOf
  <2>. HIDE DEF h, x
  <2>3. ((before + h) + x) - before = x
    BY <1>0, <2>1
  <2>. QED
    BY <1>0, <1>1, <2>2, <2>3 DEF Books, h, x
<1>3. CASE k[1] = "principal"
  <2>1. x = 0 /\ h \in Int
    BY <1>3 DEF Held, Cash
  <2>2. Credit(e, k) = h
    BY <1>3 DEF Credit, PrincipalCredit, Held, TokenOf
  <2>. HIDE DEF h, x
  <2>3. ((before + h) + x) - before = h
    BY <2>1
  <2>. QED
    BY <1>0, <1>1, <2>1, <2>2, <2>3 DEF Books, h, x
<1>4. CASE k[1] \in Kinds
  <2>1. x = 0 /\ h = 0
    BY <1>4 DEF Held, Cash, Kinds
  <2>2. Credit(e, k) = 0
    BY <1>4 DEF Credit, ScaledCredit, MintName, BurnName, Kinds
  <2>. HIDE DEF h, x
  <2>3. ((before + h) + x) - before = 0
    BY <2>1
  <2>4. Books(e, k, ((before + h) + x) - before)
    BY <1>1, <2>2, <2>3 DEF Books
  <2>. QED
    BY <1>0, <2>4 DEF h, x
<1>. QED
  BY <1>0, <1>2, <1>3, <1>4, KeyCases DEF Kinds

LEMMA StableMintMoves ==
    ASSUME NEW m, NEW k \in Keys, NEW caller, NEW u \in Users, NEW a \in Assets, NEW amount,
           Live(m) => amount \in Nat
    PROVE  Moves(m, stableMint(m, caller, u, a, amount), k, Cash(k, a, -amount))
<1>. DEFINE i == m.position[u, a].interest
            supply == m.stableTotal[a] + m.stableGrowth[a] + amount
            e == STokenMint(TokenOf("sToken", a), caller, u, amount + i, i, supply)
            n == stableMint(m, caller, u, a, amount)
            x == Cash(k, a, -amount)
<1>1. n = Emit(Compound(m, u, a, amount + i, supply), e) /\ Follows(m, n)
  BY StableMintFollows DEF stableMint
<1>2. /\ e.name = "STokenMint" /\ e.address = TokenOf("sToken", a) /\ e.onBehalfOf = u
      /\ e.amount = amount + i /\ e.balanceIncrease = i /\ e.newTotalSupply = supply
  BY DEF STokenMint
<1>3. ASSUME Live(m)
      PROVE  amount \in Nat /\ i \in Nat /\ supply \in Int /\ Ledger(m, k) \in Int
  <2>1. m.stableTotal \in [Assets -> Int] /\ m.stableGrowth \in [Assets -> Int]
    BY <1>3 DEF Live, Sound, Counted
  <2>2. i \in Nat
    BY <1>3, CountedNumbers, UsersHold DEF Kinds
  <2>3. supply \in Int
    <3>. DEFINE t == m.stableTotal[a]
                g == m.stableGrowth[a]
    <3>1. t \in Int /\ g \in Int /\ amount \in Nat
      BY <1>3, <2>1
    <3>. HIDE DEF t, g
    <3>2. supply = t + g + amount
      BY DEF t, g
    <3>. HIDE DEF supply
    <3>. QED
      BY <3>1, <3>2
  <2>. QED
    BY <1>3, <2>2, <2>3, LedgerInt
<1>. HIDE DEF i, supply, e, n
<1>4. ASSUME Live(m)
      PROVE  /\ amount + i \in Int /\ supply \in Int /\ x \in Int /\ Measured(e)
             /\ Books(e, k, ((Ledger(m, k) + Held(k, "principal", u, a, amount + i)) + x)
                              - Ledger(m, k))
  <2>1. amount + i \in Int /\ supply \in Int /\ i \in Int /\ amount \in Int /\ Ledger(m, k) \in Int
    BY <1>3, <1>4
  <2>2. Measured(e)
    BY <1>2, <2>1 DEF Measured, TokenOf, SwitchNames
  <2>3. e.amount - e.balanceIncrease = amount
    BY <1>2, <1>3, <1>4
  <2>. QED
    BY <1>2, <2>1, <2>2, <2>3, StableSays
<1>. HIDE DEF x
<1>5. Moves(m, n, k, x)
  BY <1>1, <1>4, StableStep
<1>. QED
  BY <1>5 DEF n, x

LEMMA StableBurnMoves ==
    ASSUME NEW m, NEW k \in Keys, NEW u \in Users, NEW a \in Assets, NEW amount,
           Live(m) => amount \in Nat
    PROVE  Moves(m, stableBurn(m, u, a, amount), k, Cash(k, a, amount))
<1>. DEFINE i == m.position[u, a].interest
            previous == m.stableTotal[a] + m.stableGrowth[a]
            supply == IF previous <= amount THEN 0 ELSE previous - amount
            token == TokenOf("sToken", a)
            e == IF i > amount THEN STokenMint(token, u, u, i - amount, i, supply)
                               ELSE STokenBurn(token, u, amount - i, i, supply)
            n == stableBurn(m, u, a, amount)
            x == Cash(k, a, amount)
<1>1. n = Emit(Compound(m, u, a, i - amount, supply), e) /\ Follows(m, n)
  BY StableBurnFollows DEF stableBurn
<1>2. /\ e.address = token
      /\ i > amount => /\ e.name = "STokenMint" /\ e.onBehalfOf = u
                       /\ e.amount = i - amount /\ e.balanceIncrease = i
                       /\ e.newTotalSupply = supply
      /\ ~(i > amount) => /\ e.name = "STokenBurn" /\ e.from = u
                          /\ e.amount = amount - i /\ e.balanceIncrease = i
                          /\ e.newTotalSupply = supply
  <2>. HIDE DEF i, supply
  <2>. QED
    BY DEF STokenMint, STokenBurn
<1>3. ASSUME Live(m)
      PROVE  amount \in Nat /\ i \in Nat /\ supply \in Int /\ Ledger(m, k) \in Int
  <2>1. m.stableTotal \in [Assets -> Int] /\ m.stableGrowth \in [Assets -> Int]
    BY <1>3 DEF Live, Sound, Counted
  <2>2. i \in Nat
    BY <1>3, CountedNumbers, UsersHold DEF Kinds
  <2>3. supply \in Int
    <3>. DEFINE t == m.stableTotal[a]
                g == m.stableGrowth[a]
    <3>1. t \in Int /\ g \in Int /\ amount \in Nat
      BY <1>3, <2>1
    <3>. HIDE DEF t, g
    <3>2. supply = IF t + g <= amount THEN 0 ELSE (t + g) - amount
      BY DEF t, g
    <3>. HIDE DEF supply
    <3>. QED
      BY <3>1, <3>2
  <2>. QED
    BY <1>3, <2>2, <2>3, LedgerInt
<1>. HIDE DEF i, supply, e, n
<1>4. ASSUME Live(m)
      PROVE  /\ i - amount \in Int /\ supply \in Int /\ x \in Int /\ Measured(e)
             /\ Books(e, k, ((Ledger(m, k) + Held(k, "principal", u, a, i - amount)) + x)
                              - Ledger(m, k))
  <2>1. i - amount \in Int /\ supply \in Int /\ i \in Int /\ -amount \in Int /\ amount \in Int
        /\ amount - i \in Int /\ Ledger(m, k) \in Int /\ -(-amount) = amount
    BY <1>3, <1>4
  <2>2. Measured(e)
    <3>1. CASE i > amount
      BY <1>2, <2>1, <3>1 DEF Measured, TokenOf, SwitchNames
    <3>2. CASE ~(i > amount)
      BY <1>2, <2>1, <3>2 DEF Measured, TokenOf, SwitchNames
    <3>. QED
      BY <3>1, <3>2
  <2>3. \/ /\ e.name = "STokenMint" /\ e.onBehalfOf = u
           /\ e.amount = i - amount /\ e.amount - e.balanceIncrease = -amount
        \/ /\ e.name = "STokenBurn" /\ e.from = u
           /\ e.amount = -(i - amount) /\ e.amount + e.balanceIncrease = -(-amount)
    BY <1>2, <1>3, <1>4
  <2>4. Cash(k, a, -(-amount)) = x
    BY <2>1
  <2>. QED
    BY <1>2, <2>1, <2>2, <2>3, <2>4, StableSays
<1>. HIDE DEF x
<1>5. Moves(m, n, k, x)
  BY <1>1, <1>4, StableStep
<1>. QED
  BY <1>5 DEF n, x

-------------------------------------------------------------------------------
(* Accounting for several steps.                                           *)

LEMMA MovesBy ==
    ASSUME NEW m, NEW n, NEW k, NEW x, NEW y, Moves(m, n, k, x), Live(m) => x = y
    PROVE  Moves(m, n, k, y)
<1>1. CASE Live(m)
  BY <1>1, Zenon
<1>2. CASE ~Sound(m)
  BY <1>2, Zenon DEF Moves
<1>3. CASE Sound(m) /\ m.reverted
  <2>1. Sound(n) /\ n.reverted
    BY <1>3, Zenon DEF Moves
  <2>. QED
    BY <1>3, <2>1, Zenon DEF Moves
<1>. QED
  BY <1>1, <1>2, <1>3 DEF Live

LEMMA ThenIdle ==
    ASSUME NEW l, NEW m, NEW n, NEW k \in Keys, NEW x, Moves(l, m, k, x), Moves(m, n, k, 0)
    PROVE  Moves(l, n, k, x)
<1>1. Moves(l, n, k, x + 0)
  BY MovesOn
<1>2. ASSUME Sound(l), ~n.reverted PROVE x + 0 = x
  <2>1. Sound(m) /\ ~m.reverted
    BY <1>2 DEF Moves, Sound
  <2>2. x \in Int
    BY <1>2, <2>1 DEF Moves
  <2>. QED
    BY <2>2
<1>. DEFINE y == x + 0
<1>3. Moves(l, n, k, y)
  BY <1>1
<1>4. ASSUME Sound(l), ~n.reverted PROVE y = x
  BY <1>2, <1>4
<1>. HIDE DEF y
<1>. SUFFICES ASSUME Sound(l) PROVE Moves(l, n, k, x)
  BY Zenon DEF Moves
<1>5. Sound(n) /\ (l.reverted => n.reverted)
  BY <1>3, Zenon DEF Moves
<1>6. CASE n.reverted
  BY <1>5, <1>6, Zenon DEF Moves
<1>7. CASE ~n.reverted
  BY <1>3, <1>4, <1>7, Zenon
<1>. QED
  BY <1>6, <1>7

LEMMA IdleThen ==
    ASSUME NEW l, NEW m, NEW n, NEW k \in Keys, NEW x, Moves(l, m, k, 0), Moves(m, n, k, x)
    PROVE  Moves(l, n, k, x)
<1>. DEFINE y == 0 + x
<1>1. Moves(l, n, k, y)
  BY MovesOn
<1>2. ASSUME Sound(l), ~n.reverted PROVE y = x
  <2>1. Sound(m) /\ ~m.reverted
    BY <1>2 DEF Moves, Sound
  <2>2. x \in Int
    BY <1>2, <2>1 DEF Moves
  <2>. QED
    BY <2>2
<1>. HIDE DEF y
<1>. SUFFICES ASSUME Sound(l) PROVE Moves(l, n, k, x)
  BY Zenon DEF Moves
<1>5. Sound(n) /\ (l.reverted => n.reverted)
  BY <1>1, Zenon DEF Moves
<1>6. CASE n.reverted
  BY <1>5, <1>6, Zenon DEF Moves
<1>7. CASE ~n.reverted
  BY <1>1, <1>2, <1>7, Zenon
<1>. QED
  BY <1>6, <1>7

\* Cash that was announced and moved.
LEMMA MovesCancel ==
    ASSUME NEW l, NEW m, NEW n, NEW k \in Keys, NEW x, NEW y, Moves(l, m, k, x), Moves(m, n, k, y),
           Live(l) => x + y = 0
    PROVE  Moves(l, n, k, 0)
<1>1. Moves(l, n, k, x + y)
  BY MovesOn
<1>. DEFINE z == x + y
<1>2. Live(l) => z = 0
  OBVIOUS
<1>. HIDE DEF z
<1>3. Moves(l, n, k, z)
  BY <1>1 DEF z
<1>. QED
  BY <1>2, <1>3, MovesBy

-------------------------------------------------------------------------------
(* Events about nothing that is counted.                                   *)

MoneyNames ==
    {"BTokenMint", "BTokenBurn", "VTokenMint", "VTokenBurn", "STokenMint", "STokenBurn",
     "BalanceTransfer", "FlashLoan", "MintUnbacked", "BackUnbacked"}

LEMMA PlainSaysNothing ==
    ASSUME NEW e, e.name \notin MoneyNames, NEW k \in Keys
    PROVE  Credit(e, k) = 0 /\ Loss(e, k) = 0
<1>1. CASE k[1] = "cash"
  BY <1>1 DEF Credit, Loss, CashCredit, MoneyNames, Kinds
<1>2. CASE k[1] = "principal"
  BY <1>2 DEF Credit, Loss, PrincipalCredit, MoneyNames, Kinds
<1>3. CASE k[1] \in Kinds
  BY <1>3 DEF Credit, Loss, ScaledCredit, MintName, BurnName, MoneyNames, Kinds
<1>. QED
  BY <1>1, <1>2, <1>3, KeyCases DEF Kinds

LEMMA PlainMoves ==
    ASSUME NEW m, NEW n, NEW k \in Keys, NEW e, Follows(m, n), e.name \notin MoneyNames,
           Live(m) => Measured(e),
           Sound(m) => /\ n.reverted \in BOOLEAN /\ (m.reverted => n.reverted)
                       /\ n.log = Append(m.log, e)
                       /\ SameNumbers(m, n)
    PROVE  Moves(m, n, k, 0)
<1>1. Credit(e, k) = 0 /\ Loss(e, k) = 0
  BY PlainSaysNothing
<1>2. ASSUME Sound(m), ~n.reverted
      PROVE  /\ 0 \in Int /\ Counted(n) /\ Measured(e)
             /\ \A a \in Assets : m.accrued[a] <= n.accrued[a]
             /\ Books(e, k, (Ledger(n, k) + 0) - Ledger(m, k))
  <2>1. Live(m) /\ Counted(m)
    BY <1>2 DEF Sound, Live
  <2>2. /\ Counted(n) /\ Ledger(n, k) = Ledger(m, k)
        /\ \A a \in Assets : m.accrued[a] <= n.accrued[a]
    BY <1>2, <2>1, NumbersKept
  <2>3. Ledger(m, k) \in Int
    BY <2>1, LedgerInt
  <2>. DEFINE b == Ledger(n, k)
  <2>. HIDE DEF b
  <2>4. (b + 0) - b = 0
    BY <2>2, <2>3 DEF b
  <2>5. Books(e, k, 0)
    BY <1>1 DEF Books
  <2>. QED
    BY <2>1, <2>2, <2>4, <2>5 DEF b
<1>3. Moves(m, n, k, 0)
  BY <1>2, EventMoves, Zenon
<1>. QED
  BY <1>3

LEMMA EmitPlainMoves ==
    ASSUME NEW m, NEW k \in Keys, NEW e, Follows(m, Emit(m, e)), e.name \notin MoneyNames,
           Live(m) => Measured(e)
    PROVE  Moves(m, Emit(m, e), k, 0)
<1>. DEFINE n == Emit(m, e)
<1>1. ASSUME Sound(m)
      PROVE  /\ n.reverted \in BOOLEAN /\ (m.reverted => n.reverted)
             /\ n.log = Append(m.log, e) /\ SameNumbers(m, n)
  BY <1>1 DEF Sound, IsMarket, Shaped, Emit, SameNumbers, SameAccounts, SamePositions
<1>2. Follows(m, n)
  OBVIOUS
<1>. HIDE DEF n
<1>3. Moves(m, n, k, 0)
  BY <1>1, <1>2, PlainMoves, Zenon
<1>. QED
  BY <1>3 DEF n

LEMMA RatesMove ==
    ASSUME NEW m, NEW k \in Keys, NEW a \in Assets
    PROVE  Moves(m, updateInterestRates(m, a), k, 0)
<1>. DEFINE e == ReserveDataUpdated(Pool, a, m.index["bToken"][a], m.index["vToken"][a])
<1>1. updateInterestRates(m, a) = Emit(m, e) /\ Follows(m, Emit(m, e))
  BY RatesFollow DEF updateInterestRates
<1>2. e.name \notin MoneyNames
  BY DEF ReserveDataUpdated, MoneyNames
<1>3. Live(m) => Measured(e)
  <2>1. Live(m) => m.index["bToken"][a] \in Int /\ m.index["vToken"][a] \in Int
    BY CountedIndex DEF Live, Sound, Kinds
  <2>. QED
    BY <2>1 DEF ReserveDataUpdated, Measured, SwitchNames
<1>. HIDE DEF e
<1>. QED
  BY <1>1, <1>2, <1>3, EmitPlainMoves, Zenon

LEMMA SwitchMoves ==
    ASSUME NEW m, NEW k \in Keys, NEW u \in Users, NEW a \in Assets, NEW use \in BOOLEAN
    PROVE  Moves(m, setUsingAsCollateral(m, u, a, use), k, 0)
<1>. DEFINE c == [m EXCEPT !.position[<<u, a>>].collateral = use]
            e == IF use THEN ReserveUsedAsCollateralEnabled(Pool, a, u)
                        ELSE ReserveUsedAsCollateralDisabled(Pool, a, u)
            n == Emit(c, e)
<1>1. setUsingAsCollateral(m, u, a, use) = n /\ Follows(m, n)
  BY SwitchFollows DEF setUsingAsCollateral
<1>2. e.name \notin MoneyNames /\ Measured(e)
  BY DEF ReserveUsedAsCollateralEnabled, ReserveUsedAsCollateralDisabled, MoneyNames, Measured,
         SwitchNames
<1>3. ASSUME Sound(m)
      PROVE  /\ n.reverted \in BOOLEAN /\ (m.reverted => n.reverted)
             /\ n.log = Append(m.log, e) /\ SameNumbers(m, n)
  <2>1. Shaped(m) /\ m.reverted \in BOOLEAN
    BY <1>3 DEF Sound, IsMarket
  <2>. HIDE DEF e
  <2>2. \A v \in Holders, b \in Assets :
          /\ c.position[v, b].bToken = m.position[v, b].bToken
          /\ c.position[v, b].vToken = m.position[v, b].vToken
          /\ c.position[v, b].principal = m.position[v, b].principal
          /\ c.position[v, b].interest = m.position[v, b].interest
    BY <2>1 DEF Shaped
  <2>3. /\ DOMAIN c = DOMAIN m /\ c.reverted = m.reverted /\ c.log = m.log
        /\ c.underlying = m.underlying /\ c.index = m.index /\ c.stableTotal = m.stableTotal
        /\ c.stableGrowth = m.stableGrowth /\ c.unbacked = m.unbacked /\ c.accrued = m.accrued
        /\ c.earning = m.earning /\ c.bridgeFee = m.bridgeFee
    BY <2>1 DEF Shaped
  <2>. HIDE DEF c
  <2>4. SameNumbers(m, c)
    BY <2>2, <2>3 DEF SameNumbers, SameAccounts, SamePositions
  <2>5. n.reverted = c.reverted /\ n.log = Append(c.log, e) /\ SameNumbers(c, n)
    BY <2>1, <2>3 DEF Emit, Shaped, SameNumbers, SameAccounts, SamePositions
  <2>. QED
    BY <2>1, <2>3, <2>4, <2>5, SameNumbersOn
<1>. HIDE DEF n, e
<1>4. Moves(m, n, k, 0)
  BY <1>1, <1>2, <1>3, PlainMoves, Zenon
<1>. QED
  BY <1>1, <1>4, Zenon

LEMMA ApproveMoves ==
    ASSUME NEW m, NEW k \in Keys, NEW kind \in {"sToken", "vToken"}, NEW from \in Users,
           NEW to \in Users, NEW a \in Assets, NEW amount
    PROVE  Moves(m, approve(m, kind, from, to, a, amount), k, 0)
<1>. DEFINE key == <<kind, from, to, a>>
            r == Require(m, amount >= 0)
            c == [r EXCEPT !.allowance[key] = amount]
            e == AllowanceEvent(kind, from, to, a, amount)
            n == Emit(c, e)
<1>1. approve(m, kind, from, to, a, amount) = n /\ Follows(m, n)
  BY ApproveFollows DEF approve
<1>2. e.name \notin MoneyNames /\ Measured(e)
  BY DEF AllowanceEvent, SBorrowAllowanceDelegated, VBorrowAllowanceDelegated, MoneyNames, Measured,
         SwitchNames
<1>3. ASSUME Sound(m)
      PROVE  /\ n.reverted \in BOOLEAN /\ (m.reverted => n.reverted)
             /\ n.log = Append(m.log, e) /\ SameNumbers(m, n)
  <2>1. /\ r.reverted \in BOOLEAN /\ (m.reverted => r.reverted)
        /\ r.log = m.log /\ Shaped(r) /\ SameNumbers(m, r)
    BY <1>3, IdleRequired
  <2>. HIDE DEF e, r
  <2>2. /\ DOMAIN c = DOMAIN r /\ c.reverted = r.reverted /\ c.log = r.log
        /\ SameNumbers(r, c)
    BY <2>1 DEF Shaped, SameNumbers, SameAccounts, SamePositions
  <2>. HIDE DEF c
  <2>3. n.reverted = c.reverted /\ n.log = Append(c.log, e) /\ SameNumbers(c, n)
    BY <2>1, <2>2 DEF Emit, Shaped, SameNumbers, SameAccounts, SamePositions
  <2>. QED
    BY <2>1, <2>2, <2>3, SameNumbersOn
<1>. HIDE DEF n, e
<1>4. Moves(m, n, k, 0)
  BY <1>1, <1>2, <1>3, PlainMoves, Zenon
<1>. QED
  BY <1>1, <1>4, Zenon

LEMMA IsolatedDebtMoves ==
    ASSUME NEW m, NEW k \in Keys, NEW u, NEW change
    PROVE  Moves(m, ChangeIsolatedDebt(m, u, change), k, 0)
<1>. DEFINE b == CHOOSE a \in IsolationOf(m, u) : TRUE
            debt == IF m.isolatedDebt[b] + change > 0 THEN m.isolatedDebt[b] + change ELSE 0
            c == [m EXCEPT !.isolatedDebt[b] = debt]
            e == IsolationModeTotalDebtUpdated(Pool, b, debt)
            n == Emit(c, e)
<1>1. ChangeIsolatedDebt(m, u, change) = IF IsolationOf(m, u) = {} THEN m ELSE n
  BY DEF ChangeIsolatedDebt
<1>2. e.name \notin MoneyNames /\ Measured(e)
  BY DEF IsolationModeTotalDebtUpdated, MoneyNames, Measured, SwitchNames
<1>3. CASE IsolationOf(m, u) = {}
  BY <1>1, <1>3, MovesItself
<1>4. CASE IsolationOf(m, u) # {}
  <2>1. Follows(m, n)
    BY <1>1, <1>4, IsolatedDebtFollows
  <2>2. ASSUME Sound(m)
        PROVE  /\ n.reverted \in BOOLEAN /\ (m.reverted => n.reverted)
               /\ n.log = Append(m.log, e) /\ SameNumbers(m, n)
    <3>1. Shaped(m) /\ m.reverted \in BOOLEAN
      BY <2>2 DEF Sound, IsMarket
    <3>. HIDE DEF e, b, debt
    <3>2. DOMAIN c = DOMAIN m /\ c.reverted = m.reverted /\ c.log = m.log /\ SameNumbers(m, c)
      BY <3>1 DEF Shaped, SameNumbers, SameAccounts, SamePositions
    <3>. HIDE DEF c
    <3>3. n.reverted = c.reverted /\ n.log = Append(c.log, e) /\ SameNumbers(c, n)
      BY <3>1, <3>2 DEF Emit, Shaped, SameNumbers, SameAccounts, SamePositions
    <3>. QED
      BY <3>1, <3>2, <3>3, SameNumbersOn
  <2>. HIDE DEF n, e
  <2>3. Moves(m, n, k, 0)
    BY <1>2, <2>1, <2>2, PlainMoves, Zenon
  <2>. QED
    BY <1>1, <1>4, <2>3
<1>. QED
  BY <1>3, <1>4

LEMMA AutomaticUseMoves ==
    ASSUME NEW m, NEW k \in Keys, NEW u \in Users, NEW a \in Assets, NEW first
    PROVE  Moves(m, AutomaticUse(m, u, a, first), k, 0)
<1>1. Moves(m, setUsingAsCollateral(m, u, a, TRUE), k, 0)
  BY SwitchMoves
<1>2. AutomaticUse(m, u, a, first) \in {m, setUsingAsCollateral(m, u, a, TRUE)}
  BY DEF AutomaticUse
<1>. QED
  BY <1>1, <1>2, MovesItself

LEMMA HealthMoves ==
    ASSUME NEW m, NEW k \in Keys, NEW u
    PROVE  Moves(m, StillHealthy(m, u), k, 0)
BY RequireMoves DEF StillHealthy

LEMMA AllowanceSpentMoves ==
    ASSUME NEW m, NEW k \in Keys, NEW kind \in {"sToken", "vToken"}, NEW from \in Users,
           NEW to \in Users, NEW a \in Assets, NEW amount
    PROVE  Moves(m, decreaseBorrowAllowance(m, kind, from, to, a, amount), k, 0)
BY ApproveMoves, MovesItself DEF decreaseBorrowAllowance

LEMMA PoolEventMoves ==
    ASSUME NEW l, NEW m, NEW k \in Keys, NEW x, NEW e, Moves(l, m, k, x), e.address = Pool,
           e.name \notin SettingNames, e.name \notin MoneyNames, Live(m) => Measured(e)
    PROVE  Moves(l, Emit(m, e), k, x)
<1>1. Follows(m, Emit(m, e))
  BY FollowsItself, PoolEventFollows
<1>2. Moves(m, Emit(m, e), k, 0)
  BY <1>1, EmitPlainMoves, Zenon
<1>. QED
  BY <1>2, ThenIdle, Zenon

LEMMA LiveBefore ==
    ASSUME NEW m, NEW n, NEW k, NEW x, Moves(m, n, k, x), Sound(m), Live(n)
    PROVE  Live(m)
BY DEF Moves, Live

LEMMA MintCollateralMoves ==
    ASSUME NEW m, NEW k \in Keys, NEW u \in Users, NEW a \in Assets, NEW amount,
           Live(m) => amount \in Nat
    PROVE  Moves(m, mintScaled(m, "bToken", u, a, amount), k, Cash(k, a, amount))
<1>1. Moves(m, mintScaled(m, "bToken", u, a, amount), k, Issue(k, "bToken", u, a, amount))
  BY MintScaledMoves, UsersHold DEF Kinds
<1>2. Issue(k, "bToken", u, a, amount) = Cash(k, a, amount)
  BY DEF Issue
<1>. QED
  BY <1>1, <1>2, MovesBy

LEMMA MintDebtMoves ==
    ASSUME NEW m, NEW k \in Keys, NEW u \in Users, NEW a \in Assets, NEW amount,
           Live(m) => amount \in Nat
    PROVE  Moves(m, mintScaled(m, "vToken", u, a, amount), k, Cash(k, a, -amount))
<1>1. Moves(m, mintScaled(m, "vToken", u, a, amount), k, Issue(k, "vToken", u, a, amount))
  BY MintScaledMoves, UsersHold DEF Kinds
<1>2. Issue(k, "vToken", u, a, amount) = Cash(k, a, -amount)
  BY DEF Issue
<1>. QED
  BY <1>1, <1>2, MovesBy

LEMMA BurnCollateralMoves ==
    ASSUME NEW m, NEW k \in Keys, NEW u \in Users, NEW a \in Assets, NEW amount,
           Live(m) => amount \in Nat
    PROVE  Moves(m, burnScaled(m, "bToken", u, a, amount), k, Cash(k, a, -amount))
<1>1. Moves(m, burnScaled(m, "bToken", u, a, amount), k, Issue(k, "bToken", u, a, -amount))
  BY BurnScaledMoves DEF Kinds
<1>2. Issue(k, "bToken", u, a, -amount) = Cash(k, a, -amount)
  BY DEF Issue
<1>. QED
  BY <1>1, <1>2, MovesBy

LEMMA BurnVariableMoves ==
    ASSUME NEW m, NEW k \in Keys, NEW u \in Users, NEW a \in Assets, NEW amount,
           Live(m) => amount \in Nat
    PROVE  Moves(m, burnScaled(m, "vToken", u, a, amount), k, Cash(k, a, amount))
<1>1. Moves(m, burnScaled(m, "vToken", u, a, amount), k, Issue(k, "vToken", u, a, -amount))
  BY BurnScaledMoves DEF Kinds
<1>2. ASSUME Live(m) PROVE Issue(k, "vToken", u, a, -amount) = Cash(k, a, amount)
  <2>1. -(-amount) = amount
    BY <1>2
  <2>. QED
    BY <2>1 DEF Issue
<1>. QED
  BY <1>1, <1>2, MovesBy

LEMMA BurnDebtMoves ==
    ASSUME NEW m, NEW k \in Keys, NEW kind \in {"sToken", "vToken"}, NEW u \in Users,
           NEW a \in Assets, NEW amount, Live(m) => amount \in Nat
    PROVE  Moves(m, burnDebt(m, kind, u, a, amount), k, Cash(k, a, amount))
<1>1. CASE kind = "sToken"
  BY <1>1, StableBurnMoves DEF burnDebt
<1>2. CASE kind = "vToken"
  BY <1>2, BurnVariableMoves DEF burnDebt
<1>. QED
  BY <1>1, <1>2

\* Interest on collateral is reported without any amount.
LEMMA ReportInterestMoves ==
    ASSUME NEW m, NEW k \in Keys, NEW u \in Holders, NEW a \in Assets
    PROVE  Moves(m, ReportInterest(m, u, a), k, 0)
<1>. DEFINE i == Increase(m, "bToken", u, a)
            e == MintEvent(m, "bToken", u, a, i)
            n == Emit(m, e)
<1>1. ReportInterest(m, u, a) = IF i > 0 THEN n ELSE m
  BY DEF ReportInterest
<1>2. CASE ~(i > 0)
  BY <1>1, <1>2, MovesItself
<1>3. CASE i > 0
  <2>1. Follows(m, n)
    BY <1>1, <1>3, ReportInterestFollows
  <2>2. ASSUME Sound(m)
        PROVE  /\ n.reverted = m.reverted /\ n.log = Append(m.log, e) /\ SameNumbers(m, n)
    <3>. HIDE DEF e
    <3>. QED
      BY <2>2 DEF Sound, IsMarket, Shaped, Emit, SameNumbers, SameAccounts, SamePositions
  <2>3. ASSUME Live(m)
        PROVE  /\ i \in Int /\ Measured(e) /\ m.index["bToken"][a] \in Nat \ {0}
    <3>1. i \in Int /\ m.index["bToken"][a] \in Nat \ {0}
      BY <2>3, CountedNumbers DEF Kinds
    <3>2. Measured(e)
      BY <2>3, <3>1, ScaledMeasured DEF Kinds
    <3>. QED
      BY <3>1, <3>2
  <2>4. /\ e.name = MintName("bToken") /\ e.address = <<"bToken", a>> /\ e.onBehalfOf = u
        /\ e.value = i /\ e.balanceIncrease = i /\ e.index = m.index["bToken"][a]
    BY ScaledEvents DEF Kinds
  <2>. HIDE DEF e, n, i
  <2>5. ASSUME Sound(m), ~n.reverted
        PROVE  /\ 0 \in Int /\ Counted(n) /\ Measured(e)
               /\ \A b \in Assets : m.accrued[b] <= n.accrued[b]
               /\ Books(e, k, (Ledger(n, k) + 0) - Ledger(m, k))
    <3>1. Live(m) /\ Counted(m)
      BY <2>2, <2>5 DEF Sound, Live
    <3>2. /\ Counted(n) /\ Ledger(n, k) = Ledger(m, k)
          /\ \A b \in Assets : m.accrued[b] <= n.accrued[b]
      BY <2>2, <2>5, <3>1, NumbersKept
    <3>. DEFINE l == Ledger(m, k)
                g == graphRayDiv(0, e.index)
                h == Held(k, "bToken", u, a, 0)
                x == Issue(k, "bToken", u, a, 0)
    <3>3. l \in Int
      BY <3>1, LedgerInt
    <3>4. Issued(e) = 0 /\ ~(e.value < e.balanceIncrease)
      BY <2>3, <2>4, <3>1 DEF Issued
    <3>5. g = 0
      BY <2>3, <2>4, <3>1, ZeroDivides
    <3>6. h = 0 /\ x = 0
      BY DEF Held, Issue, Cash
    <3>7. Books(e, k, ((l + h) + x) - l)
      <4>1. 0 \in Int /\ g \in Int /\ 0 <= g
            /\ g - (IF e.value < e.balanceIncrease THEN 1 ELSE 0) <= 0
        BY <3>4, <3>5
      <4>. HIDE DEF l
      <4>. QED
        BY <2>4, <3>3, <3>4, <4>1, MintBooks DEF Kinds
    <3>. HIDE DEF l, g, h, x
    <3>8. ((l + h) + x) - l = (l + 0) - l
      BY <3>3, <3>6
    <3>. QED
      BY <2>3, <3>1, <3>2, <3>7, <3>8 DEF l
  <2>6. Sound(m) => n.reverted \in BOOLEAN /\ (m.reverted => n.reverted)
    BY <2>2 DEF Sound
  <2>7. Moves(m, n, k, 0)
    BY <2>1, <2>2, <2>5, <2>6, EventMoves, Zenon
  <2>. QED
    BY <1>1, <1>3, <2>7
<1>. QED
  BY <1>2, <1>3

LEMMA TouchMoves ==
    ASSUME NEW m, NEW k \in Keys, NEW kind \in Kinds, NEW u \in Holders, NEW a \in Assets,
           NEW scaled, NEW rest, Live(m) => scaled \in Int /\ rest = -scaled
    PROVE  Moves(m, Touch(m, kind, u, a, scaled), k, Held(k, kind, u, a, rest))
<1>. DEFINE touched == [m EXCEPT !.position[<<u, a>>][kind].balance = @ + scaled,
                                 !.position[<<u, a>>][kind].index = m.index[kind][a]]
            n == Touch(m, kind, u, a, scaled)
            x == Held(k, kind, u, a, rest)
            y == Held(k, kind, u, a, scaled)
<1>1. Silent(m, n)
  BY TouchSilent DEF Kinds
<1>2. n = Require(touched, m.position[u, a][kind].balance + scaled >= 0)
  BY DEF Touch
<1>3. ASSUME Sound(m)
      PROVE  n.reverted \in BOOLEAN /\ (m.reverted => n.reverted)
  <2>1. touched.reverted = m.reverted /\ DOMAIN touched = DOMAIN m
    BY <1>3 DEF Sound, IsMarket, Shaped
  <2>2. m.reverted \in BOOLEAN /\ Shaped(m)
    BY <1>3 DEF Sound, IsMarket
  <2>. HIDE DEF touched, n
  <2>. QED
    BY <1>2, <2>1, <2>2 DEF Require, Shaped
<1>. HIDE DEF touched
<1>4. ASSUME Sound(m), ~n.reverted
      PROVE  /\ x \in Int /\ Counted(n) /\ \A b \in Assets : m.accrued[b] <= n.accrued[b]
             /\ Ledger(m, k) = Ledger(n, k) + x
  <2>1. Live(m)
    BY <1>3, <1>4 DEF Sound, Live
  <2>2. scaled \in Int /\ rest = -scaled
    BY <2>1
  <2>3. Counted(n) /\ Ledger(n, k) = Ledger(m, k) + y
    BY <1>4, <2>1, <2>2, TouchCounts
  <2>4. Touched(m, n, kind, u, a, scaled)
    BY <2>1, <2>2, TouchEffect
  <2>5. n.accrued = m.accrued
    BY <2>4 DEF Touched, Outside
  <2>6. x \in Int /\ y \in Int /\ x = -y
    BY <2>2 DEF Held
  <2>. HIDE DEF x, y, n
  <2>7. Ledger(m, k) \in Int
    BY <2>1, LedgerInt
  <2>8. Ledger(m, k) = Ledger(n, k) + x
    BY <2>3, <2>6, <2>7
  <2>9. \A b \in Assets : m.accrued[b] <= n.accrued[b]
    BY <2>1, <2>5, AccruedNat
  <2>. QED
    BY <2>3, <2>6, <2>8, <2>9
<1>. HIDE DEF n, x
<1>5. Moves(m, n, k, x)
  BY <1>1, <1>3, <1>4, QuietMoves
<1>. QED
  BY <1>5 DEF n, x

\* A transfer is announced after it.
Given(k, from, to, a, scaled) ==
    Held(k, "bToken", from, a, scaled) + Held(k, "bToken", to, a, -scaled)

LEMMA MoveMoves ==
    ASSUME NEW m, NEW k \in Keys, NEW from \in Holders, NEW to \in Holders, from # to,
           NEW a \in Assets, NEW amount, NEW scaled, scaled = RayDiv(amount, m.index["bToken"][a]),
           Live(m) => scaled \in Int
    PROVE  Moves(m, MoveBTokens(m, from, to, a, amount), k, Given(k, from, to, a, scaled))
<1>. DEFINE first == ReportInterest(m, from, a)
            reported == ReportInterest(first, to, a)
            taken == Touch(reported, "bToken", from, a, -scaled)
            given == Touch(taken, "bToken", to, a, scaled)
            x == Held(k, "bToken", from, a, scaled)
            y == Held(k, "bToken", to, a, -scaled)
<1>1. MoveBTokens(m, from, to, a, amount) = given
  BY DEF MoveBTokens
<1>2. Moves(m, first, k, 0) /\ Moves(first, reported, k, 0)
  BY ReportInterestMoves
<1>. HIDE DEF first
<1>3. Moves(m, reported, k, 0)
  BY <1>2, ThenIdle
<1>. HIDE DEF reported
<1>. SUFFICES ASSUME Sound(m) PROVE Moves(m, MoveBTokens(m, from, to, a, amount), k, x + y)
  BY DEF Moves, Given
<1>4. Moves(reported, taken, k, x)
  <2>1. Live(reported) => -scaled \in Int /\ scaled = -(-scaled)
    BY <1>3, LiveBefore
  <2>. QED
    BY <2>1, TouchMoves DEF Kinds
<1>5. Moves(m, taken, k, x)
  BY <1>3, <1>4, IdleThen
<1>. HIDE DEF taken
<1>6. Moves(taken, given, k, y)
  <2>1. Live(taken) => scaled \in Int
    BY <1>5, LiveBefore
  <2>. QED
    BY <2>1, TouchMoves DEF Kinds
<1>7. Moves(m, given, k, x + y)
  BY <1>5, <1>6, MovesOn
<1>. QED
  BY <1>1, <1>7

LEMMA TransferSays ==
    ASSUME NEW k \in Keys, NEW from \in Users, NEW to \in Holders, from # to, NEW a \in Assets,
           NEW scaled \in Nat, NEW i \in Nat \ {0}, NEW e,
           e = BalanceTransfer(TokenOf("bToken", a), from, to, scaled, i)
    PROVE  /\ Measured(e) /\ Loss(e, k) = 0 /\ Credit(e, k) \in Int
           /\ Given(k, from, to, a, scaled) + Credit(e, k) = 0
<1>1. /\ e.name = "BalanceTransfer" /\ e.address = <<"bToken", a>> /\ e.from = from /\ e.to = to
      /\ e.value = scaled /\ e.index = i
  BY DEF BalanceTransfer, TokenOf
<1>2. Measured(e)
  BY <1>1 DEF Measured, SwitchNames
<1>3. Loss(e, k) = 0
  BY <1>1 DEF Loss, MintName, Kinds
<1>4. CASE k[1] \in {"cash", "principal", "vToken"}
  <2>1. Credit(e, k) = 0
    BY <1>1, <1>4 DEF Credit, CashCredit, PrincipalCredit, ScaledCredit, MintName, BurnName
  <2>2. Given(k, from, to, a, scaled) = 0
    BY <1>4 DEF Given, Held
  <2>. QED
    BY <1>2, <1>3, <2>1, <2>2
<1>5. CASE k[1] = "bToken"
  <2>1. Credit(e, k) = IF k[3] # a THEN 0 ELSE IF k[2] = from THEN -scaled
                       ELSE IF k[2] = to THEN scaled ELSE 0
    BY <1>1, <1>5 DEF Credit, ScaledCredit, MintName, BurnName
  <2>2. Given(k, from, to, a, scaled) =
          (IF k[2] = from /\ k[3] = a THEN scaled ELSE 0)
            + (IF k[2] = to /\ k[3] = a THEN -scaled ELSE 0)
    BY <1>5 DEF Given, Held
  <2>. QED
    BY <1>2, <1>3, <2>1, <2>2
<1>. QED
  BY <1>4, <1>5, KeyCases

LEMMA LiquidationTransferMoves ==
    ASSUME NEW m, NEW k \in Keys, NEW from \in Users, NEW to \in Holders, from # to,
           NEW a \in Assets, NEW amount, Live(m) => amount \in Nat
    PROVE  Moves(m, transferOnLiquidation(m, from, to, a, amount), k, 0)
<1>. DEFINE scaled == RayDiv(amount, m.index["bToken"][a])
            n == MoveBTokens(m, from, to, a, amount)
            e == BalanceTransfer(TokenOf("bToken", a), from, to, scaled, m.index["bToken"][a])
<1>0. from \in Holders
  BY UsersHold
<1>1. transferOnLiquidation(m, from, to, a, amount) = Emit(n, e)
  BY DEF transferOnLiquidation, BalanceTransferEvent
<1>2. Follows(n, Emit(n, e))
  <2>1. Fits(e) /\ e.name \notin SettingNames
    BY TransferEventFits DEF BalanceTransferEvent
  <2>. HIDE DEF n, e
  <2>. QED
    BY <2>1, EmitFollows
<1>3. ASSUME Live(m)
      PROVE  scaled \in Nat /\ m.index["bToken"][a] \in Nat \ {0}
  BY <1>3, CountedNumbers, UsersHold, RayDivNat DEF Kinds
<1>4. Moves(m, n, k, Given(k, from, to, a, scaled))
  <2>1. Live(m) => scaled \in Int
    BY <1>3
  <2>. HIDE DEF scaled
  <2>2. scaled = RayDiv(amount, m.index["bToken"][a])
    BY DEF scaled
  <2>. QED
    BY <1>0, <2>1, <2>2, MoveMoves
<1>. SUFFICES ASSUME Sound(m) PROVE Moves(m, Emit(n, e), k, 0)
  BY <1>1 DEF Moves
<1>. HIDE DEF scaled, n
<1>5. Live(m) => /\ Measured(e) /\ Loss(e, k) = 0 /\ Credit(e, k) \in Int
                 /\ Given(k, from, to, a, scaled) + Credit(e, k) = 0
  BY <1>3, TransferSays
<1>6. Loss(e, k) = 0
  BY DEF Loss, BalanceTransfer, MintName, Kinds
<1>. HIDE DEF e
<1>7. Live(n) => Measured(e) /\ Credit(e, k) \in Int
  BY <1>4, <1>5, LiveBefore
<1>8. Moves(n, Emit(n, e), k, Credit(e, k))
  BY <1>2, <1>6, <1>7, EmitMoves, Zenon
<1>. QED
  BY <1>4, <1>5, <1>8, MovesCancel

-------------------------------------------------------------------------------
(* Calls account for what they change.                                     *)

LEMMA CashCancels ==
    ASSUME NEW k, NEW a, NEW amount \in Int
    PROVE  /\ Cash(k, a, amount) + Cash(k, a, -amount) = 0
           /\ Cash(k, a, -amount) + Cash(k, a, amount) = 0
           /\ Cash(k, a, -amount) + Cash(k, a, -(-amount)) = 0
           /\ Cash(k, a, amount) \in Int /\ Cash(k, a, -(-amount)) = Cash(k, a, amount)
<1>1. -(-amount) = amount
  OBVIOUS
<1>2. /\ Cash(k, a, amount) \in {amount, 0}
      /\ Cash(k, a, amount) = amount <=> Cash(k, a, -amount) = -amount
      /\ Cash(k, a, -amount) \in {-amount, 0}
      /\ (Cash(k, a, amount) = 0 <=> Cash(k, a, -amount) = 0)
  BY DEF Cash
<1>. QED
  BY <1>1, <1>2

LEMMA UpdatedMoves ==
    ASSUME NEW m, NEW k \in Keys, NEW a \in Assets
    PROVE  Moves(m, updateInterestRates(updateState(m, a), a), k, 0)
BY UpdateStateMoves, RatesMove, ThenIdle

LEMMA MintPositionMoves ==
    ASSUME NEW m, NEW k \in Keys, NEW u \in Users, NEW a \in Assets, NEW amount,
           Live(m) => amount \in Nat
    PROVE  Moves(m, MintPosition(m, u, a, amount), k, Cash(k, a, amount))
<1>. DEFINE updated == updateInterestRates(updateState(m, a), a)
            minted == mintScaled(updated, "bToken", u, a, amount)
            first == m.position[u, a].bToken.balance = 0
            n == AutomaticUse(minted, u, a, first)
<1>1. Moves(m, updated, k, 0)
  BY UpdatedMoves
<1>2. MintPosition(m, u, a, amount) = n
  BY DEF MintPosition
<1>. SUFFICES ASSUME Sound(m) PROVE Moves(m, n, k, Cash(k, a, amount))
  BY <1>2 DEF Moves
<1>. HIDE DEF updated, first
<1>3. Moves(updated, minted, k, Cash(k, a, amount))
  BY <1>1, LiveBefore, MintCollateralMoves
<1>. HIDE DEF minted
<1>4. Moves(minted, n, k, 0)
  BY AutomaticUseMoves
<1>. HIDE DEF n
<1>. QED
  BY <1>1, <1>3, <1>4, IdleThen, ThenIdle

LEMMA SupplyMoves ==
    ASSUME NEW m, Live(m), NEW k \in Keys, NEW u \in Users, NEW a \in Assets, NEW amount \in Nat
    PROVE  Moves(m, executeSupply(m, u, a, amount), k, 0)
<1>. DEFINE paid == MoveCash(m, a, amount)
            minted == MintPosition(paid, u, a, amount)
            e == SupplyEvent(Pool, a, u, u, amount)
<1>1. Moves(m, paid, k, Cash(k, a, -amount))
  BY CashMoves
<1>2. executeSupply(m, u, a, amount) = Emit(minted, e)
  BY DEF executeSupply
<1>3. /\ e.address = Pool /\ e.name \notin SettingNames /\ e.name \notin MoneyNames /\ Measured(e)
  BY DEF SupplyEvent, SettingNames, SwitchNames, MoneyNames, Measured
<1>. HIDE DEF paid, e
<1>4. Moves(paid, minted, k, Cash(k, a, amount))
  BY MintPositionMoves
<1>. HIDE DEF minted
<1>5. Moves(m, minted, k, 0)
  BY <1>1, <1>4, CashCancels, MovesCancel
<1>. QED
  BY <1>2, <1>3, <1>5, PoolEventMoves

LEMMA WithdrawMoves ==
    ASSUME NEW m, Live(m), NEW k \in Keys, NEW u \in Users, NEW a \in Assets, NEW amount \in Nat
    PROVE  Moves(m, executeWithdraw(m, u, a, amount), k, 0)
<1>. DEFINE updated == updateInterestRates(updateState(m, a), a)
            isCollateral == m.position[u, a].collateral
            switched == IF isCollateral /\ amount = BalanceOf(m, "bToken", u, a)
                        THEN setUsingAsCollateral(updated, u, a, FALSE) ELSE updated
            burnt == burnScaled(switched, "bToken", u, a, amount)
            paid == MoveCash(burnt, a, -amount)
            checked == IF isCollateral THEN StillHealthy(paid, u) ELSE paid
            e == WithdrawEvent(Pool, a, u, u, amount)
<1>1. Moves(m, updated, k, 0)
  BY UpdatedMoves
<1>2. executeWithdraw(m, u, a, amount) = Emit(checked, e)
  BY DEF executeWithdraw
<1>3. /\ e.address = Pool /\ e.name \notin SettingNames /\ e.name \notin MoneyNames /\ Measured(e)
  BY DEF WithdrawEvent, SettingNames, SwitchNames, MoneyNames, Measured
<1>. HIDE DEF updated, e, isCollateral
<1>4. Moves(updated, switched, k, 0)
  BY SwitchMoves, MovesItself
<1>. HIDE DEF switched
<1>5. Moves(switched, burnt, k, Cash(k, a, -amount))
  BY BurnCollateralMoves
<1>. HIDE DEF burnt
<1>6. Moves(burnt, paid, k, Cash(k, a, -(-amount)))
  BY CashMoves
<1>. HIDE DEF paid
<1>7. Moves(paid, checked, k, 0)
  BY HealthMoves, MovesItself
<1>. HIDE DEF checked
<1>8. Moves(m, burnt, k, Cash(k, a, -amount))
  BY <1>1, <1>4, <1>5, IdleThen
<1>9. Moves(m, paid, k, 0)
  BY <1>6, <1>8, CashCancels, MovesCancel
<1>. QED
  BY <1>2, <1>3, <1>7, <1>9, ThenIdle, PoolEventMoves

LEMMA BorrowMoves ==
    ASSUME NEW m, Live(m), NEW k \in Keys, NEW caller \in Users, NEW u \in Users,
           NEW a \in Assets, NEW amount \in Nat, NEW kind \in {"sToken", "vToken"},
           NEW release \in BOOLEAN
    PROVE  Moves(m, executeBorrow(m, caller, u, a, amount, kind, release), k,
                 IF release THEN 0 ELSE Cash(k, a, -amount))
<1>. DEFINE fetched == updateState(m, a)
            required == Require(fetched, HasCollateral(m, u))
            allowed == decreaseBorrowAllowance(required, kind, u, caller, a, amount)
            minted == IF kind = "sToken" THEN stableMint(allowed, caller, u, a, amount)
                                         ELSE mintScaled(allowed, kind, u, a, amount)
            isolated == ChangeIsolatedDebt(minted, u, amount)
            updated == updateInterestRates(isolated, a)
            paid == IF release THEN MoveCash(updated, a, -amount) ELSE updated
            e == BorrowEvent(Pool, a, caller, u, amount, kind)
            x == IF release THEN 0 ELSE Cash(k, a, -amount)
<1>1. Moves(m, fetched, k, 0)
  BY UpdateStateMoves
<1>2. Moves(fetched, required, k, 0)
  BY RequireMoves
<1>3. /\ e.address = Pool /\ e.name \notin SettingNames /\ e.name \notin MoneyNames /\ Measured(e)
  BY DEF BorrowEvent, SettingNames, SwitchNames, MoneyNames, Measured
<1>4. executeBorrow(m, caller, u, a, amount, kind, release) = Emit(paid, e)
  BY DEF executeBorrow
<1>. HIDE DEF fetched, required, e
<1>5. Moves(required, allowed, k, 0)
  BY AllowanceSpentMoves
<1>. HIDE DEF allowed
<1>6. Moves(allowed, minted, k, Cash(k, a, -amount))
  BY StableMintMoves, MintDebtMoves
<1>. HIDE DEF minted
<1>7. Moves(minted, isolated, k, 0)
  BY IsolatedDebtMoves
<1>. HIDE DEF isolated
<1>8. Moves(isolated, updated, k, 0)
  BY RatesMove
<1>. HIDE DEF updated
<1>9. Moves(m, updated, k, Cash(k, a, -amount))
  <2>1. Moves(m, required, k, 0)
    BY <1>1, <1>2, ThenIdle
  <2>2. Moves(m, allowed, k, 0)
    BY <1>5, <2>1, ThenIdle
  <2>3. Moves(m, minted, k, Cash(k, a, -amount))
    BY <1>6, <2>2, IdleThen
  <2>. QED
    BY <1>7, <1>8, <2>3, ThenIdle
<1>10. Moves(m, paid, k, x)
  <2>1. CASE release
    <3>1. Moves(updated, paid, k, Cash(k, a, -(-amount)))
      BY <2>1, CashMoves
    <3>. QED
      BY <1>9, <2>1, <3>1, CashCancels, MovesCancel
  <2>2. CASE ~release
    BY <1>9, <2>2
  <2>. QED
    BY <2>1, <2>2
<1>. HIDE DEF paid, x
<1>11. Moves(m, Emit(paid, e), k, x)
  BY <1>3, <1>10, PoolEventMoves
<1>. QED
  BY <1>4, <1>11 DEF x

LEMMA DebtNat ==
    ASSUME NEW m, Live(m), NEW kind \in {"sToken", "vToken"}, NEW u \in Users, NEW a \in Assets
    PROVE  DebtOfKind(m, kind, u, a) \in Nat
BY CountedNumbers, UsersHold DEF DebtOfKind, Kinds

LEMMA RepayMoves ==
    ASSUME NEW m, Live(m), NEW k \in Keys, NEW caller \in Users, NEW u \in Users,
           NEW a \in Assets, NEW amount \in Nat, NEW kind \in {"sToken", "vToken"},
           NEW useBTokens \in BOOLEAN
    PROVE  Moves(m, executeRepay(m, caller, u, a, amount, kind, useBTokens), k, 0)
<1>. DEFINE debt == DebtOfKind(m, kind, u, a)
            payback == IF amount < debt THEN amount ELSE debt
            fetched == updateState(m, a)
            required == Require(fetched, debt > 0)
            burnt == burnDebt(required, kind, u, a, payback)
            updated == updateInterestRates(burnt, a)
            isolated == ChangeIsolatedDebt(updated, u, -payback)
            paid == IF useBTokens THEN burnScaled(isolated, "bToken", caller, a, payback)
                                  ELSE MoveCash(isolated, a, payback)
            e == RepayEvent(Pool, a, u, caller, payback, useBTokens)
<1>1. Moves(m, fetched, k, 0)
  BY UpdateStateMoves
<1>2. Moves(fetched, required, k, 0)
  BY RequireMoves
<1>3. payback \in Nat
  BY DebtNat
<1>4. executeRepay(m, caller, u, a, amount, kind, useBTokens) = Emit(paid, e)
  BY DEF executeRepay
<1>5. /\ e.address = Pool /\ e.name \notin SettingNames /\ e.name \notin MoneyNames /\ Measured(e)
  BY DEF RepayEvent, SettingNames, SwitchNames, MoneyNames, Measured
<1>. HIDE DEF fetched, required, e, payback, debt
<1>6. Moves(required, burnt, k, Cash(k, a, payback))
  BY <1>3, BurnDebtMoves
<1>. HIDE DEF burnt
<1>7. Moves(burnt, updated, k, 0)
  BY RatesMove
<1>. HIDE DEF updated
<1>8. Moves(updated, isolated, k, 0)
  BY IsolatedDebtMoves
<1>. HIDE DEF isolated
<1>9. Moves(isolated, paid, k, Cash(k, a, -payback))
  <2>1. Moves(isolated, burnScaled(isolated, "bToken", caller, a, payback), k,
              Cash(k, a, -payback))
    BY <1>3, BurnCollateralMoves
  <2>2. Moves(isolated, MoveCash(isolated, a, payback), k, Cash(k, a, -payback))
    BY <1>3, CashMoves
  <2>. QED
    BY <2>1, <2>2
<1>. HIDE DEF paid
<1>10. Moves(m, isolated, k, Cash(k, a, payback))
  <2>1. Moves(m, required, k, 0)
    BY <1>1, <1>2, ThenIdle
  <2>2. Moves(m, burnt, k, Cash(k, a, payback))
    BY <1>6, <2>1, IdleThen
  <2>. QED
    BY <1>7, <1>8, <2>2, ThenIdle
<1>11. Moves(m, paid, k, 0)
  BY <1>3, <1>9, <1>10, CashCancels, MovesCancel
<1>. QED
  BY <1>4, <1>5, <1>11, PoolEventMoves

LEMMA RebalanceMoves ==
    ASSUME NEW m, Live(m), NEW k \in Keys, NEW u \in Users, NEW a \in Assets
    PROVE  Moves(m, executeRebalanceStableBorrowRate(m, u, a), k, 0)
<1>. DEFINE debt == StableDebt(m, u, a)
            fetched == updateState(m, a)
            required == Require(fetched, debt > 0)
            burnt == stableBurn(required, u, a, debt)
            minted == stableMint(burnt, u, u, a, debt)
            updated == updateInterestRates(minted, a)
            e == RebalanceStableBorrowRateEvent(Pool, a, u)
<1>1. Moves(m, fetched, k, 0)
  BY UpdateStateMoves
<1>2. Moves(fetched, required, k, 0)
  BY RequireMoves
<1>3. debt \in Nat
  BY CountedNumbers, UsersHold DEF Kinds
<1>4. executeRebalanceStableBorrowRate(m, u, a) = Emit(updated, e)
  BY DEF executeRebalanceStableBorrowRate
<1>5. /\ e.address = Pool /\ e.name \notin SettingNames /\ e.name \notin MoneyNames /\ Measured(e)
  BY DEF RebalanceStableBorrowRateEvent, SettingNames, SwitchNames, MoneyNames, Measured
<1>. HIDE DEF fetched, required, e, debt
<1>6. Moves(required, burnt, k, Cash(k, a, debt))
  BY <1>3, StableBurnMoves
<1>. HIDE DEF burnt
<1>7. Moves(burnt, minted, k, Cash(k, a, -debt))
  BY <1>3, StableMintMoves
<1>. HIDE DEF minted
<1>8. Moves(minted, updated, k, 0)
  BY RatesMove
<1>. HIDE DEF updated
<1>9. Moves(m, burnt, k, Cash(k, a, debt))
  BY <1>1, <1>2, <1>6, ThenIdle, IdleThen
<1>10. Moves(m, minted, k, 0)
  BY <1>3, <1>7, <1>9, CashCancels, MovesCancel
<1>. QED
  BY <1>4, <1>5, <1>8, <1>10, ThenIdle, PoolEventMoves

LEMMA SwapMoves ==
    ASSUME NEW m, Live(m), NEW k \in Keys, NEW u \in Users, NEW a \in Assets,
           NEW kind \in {"sToken", "vToken"}
    PROVE  Moves(m, executeSwapBorrowRateMode(m, u, a, kind), k, 0)
<1>. DEFINE debt == DebtOfKind(m, kind, u, a)
            fetched == updateState(m, a)
            required == Require(fetched, debt > 0)
            burnt == burnDebt(required, kind, u, a, debt)
            minted == IF kind = "sToken" THEN mintScaled(burnt, "vToken", u, a, debt)
                                         ELSE stableMint(burnt, u, u, a, debt)
            updated == updateInterestRates(minted, a)
            e == SwapBorrowRateModeEvent(Pool, a, u, kind)
<1>1. Moves(m, fetched, k, 0)
  BY UpdateStateMoves
<1>2. Moves(fetched, required, k, 0)
  BY RequireMoves
<1>3. debt \in Nat
  BY DebtNat
<1>4. executeSwapBorrowRateMode(m, u, a, kind) = Emit(updated, e)
  BY DEF executeSwapBorrowRateMode
<1>5. /\ e.address = Pool /\ e.name \notin SettingNames /\ e.name \notin MoneyNames /\ Measured(e)
  BY DEF SwapBorrowRateModeEvent, SettingNames, SwitchNames, MoneyNames, Measured
<1>. HIDE DEF fetched, required, e, debt
<1>6. Moves(required, burnt, k, Cash(k, a, debt))
  BY <1>3, BurnDebtMoves
<1>. HIDE DEF burnt
<1>7. Moves(burnt, minted, k, Cash(k, a, -debt))
  BY <1>3, StableMintMoves, MintDebtMoves
<1>. HIDE DEF minted
<1>8. Moves(minted, updated, k, 0)
  BY RatesMove
<1>. HIDE DEF updated
<1>9. Moves(m, burnt, k, Cash(k, a, debt))
  BY <1>1, <1>2, <1>6, ThenIdle, IdleThen
<1>10. Moves(m, minted, k, 0)
  BY <1>3, <1>7, <1>9, CashCancels, MovesCancel
<1>. QED
  BY <1>4, <1>5, <1>8, <1>10, ThenIdle, PoolEventMoves

LEMMA UseReserveMoves ==
    ASSUME NEW m, NEW k \in Keys, NEW u \in Users, NEW a \in Assets, NEW use \in BOOLEAN
    PROVE  Moves(m, executeUseReserveAsCollateral(m, u, a, use), k, 0)
<1>. DEFINE allowed == Require(m, /\ m.position[u, a].bToken.balance > 0
                                  /\ use # m.position[u, a].collateral
                                  /\ use => CanUseAsCollateral(m, u, a))
            switched == setUsingAsCollateral(allowed, u, a, use)
<1>1. Moves(m, allowed, k, 0)
  BY RequireMoves
<1>2. executeUseReserveAsCollateral(m, u, a, use) = StillHealthy(switched, u)
  BY DEF executeUseReserveAsCollateral
<1>. HIDE DEF allowed
<1>3. Moves(allowed, switched, k, 0)
  BY SwitchMoves
<1>. HIDE DEF switched
<1>. QED
  BY <1>1, <1>2, <1>3, HealthMoves, ThenIdle

LEMMA TransferMoves ==
    ASSUME NEW m, Live(m), NEW k \in Keys, NEW from \in Users, NEW to \in Users, from # to,
           NEW a \in Assets, NEW amount \in Nat
    PROVE  Moves(m, transfer(m, from, to, a, amount), k, 0)
<1>. DEFINE scaled == RayDiv(amount, m.index["bToken"][a])
            i == m.index["bToken"][a]
            transferred == MoveBTokens(m, from, to, a, amount)
            isCollateral == m.position[from, a].collateral
            checked == IF isCollateral THEN StillHealthy(transferred, from) ELSE transferred
            disabled == IF isCollateral /\ amount = BalanceOf(m, "bToken", from, a)
                        THEN setUsingAsCollateral(checked, from, a, FALSE) ELSE checked
            enabled == AutomaticUse(disabled, to, a, BalanceOf(m, "bToken", to, a) = 0)
            e == BalanceTransfer(TokenOf("bToken", a), from, to, scaled, i)
<1>0. from \in Holders /\ to \in Holders
  BY UsersHold
<1>1. scaled \in Nat /\ i \in Nat \ {0}
  BY <1>0, CountedNumbers, RayDivNat DEF Kinds
<1>2. transfer(m, from, to, a, amount) = Emit(enabled, e)
  BY DEF transfer, BalanceTransferEvent
<1>3. Fits(e) /\ e.name \notin SettingNames
  BY TransferEventFits DEF BalanceTransferEvent
<1>4. Moves(m, transferred, k, Given(k, from, to, a, scaled))
  <2>1. scaled = RayDiv(amount, m.index["bToken"][a]) /\ scaled \in Int
    BY <1>1
  <2>. HIDE DEF scaled
  <2>. QED
    BY <1>0, <2>1, MoveMoves
<1>. HIDE DEF transferred, isCollateral, scaled, i
<1>5. Moves(transferred, checked, k, 0)
  BY HealthMoves, MovesItself
<1>. HIDE DEF checked
<1>6. Moves(checked, disabled, k, 0)
  BY SwitchMoves, MovesItself
<1>. HIDE DEF disabled
<1>7. Moves(disabled, enabled, k, 0)
  BY AutomaticUseMoves
<1>. HIDE DEF enabled
<1>8. Moves(m, enabled, k, Given(k, from, to, a, scaled))
  <2>1. Moves(m, checked, k, Given(k, from, to, a, scaled))
    BY <1>4, <1>5, ThenIdle
  <2>2. Moves(m, disabled, k, Given(k, from, to, a, scaled))
    BY <1>6, <2>1, ThenIdle
  <2>. QED
    BY <1>7, <2>2, ThenIdle
<1>9. /\ Measured(e) /\ Loss(e, k) = 0 /\ Credit(e, k) \in Int
      /\ Given(k, from, to, a, scaled) + Credit(e, k) = 0
  BY <1>0, <1>1, TransferSays
<1>. HIDE DEF e
<1>10. Moves(enabled, Emit(enabled, e), k, Credit(e, k))
  BY <1>3, <1>9, EmitFollows, EmitMoves
<1>. QED
  BY <1>2, <1>8, <1>9, <1>10, MovesCancel

LEMMA DebtTokensMove ==
    ASSUME NEW m, NEW k \in Keys, NEW u \in Users, NEW d \in Assets, NEW amount \in Nat
    PROVE  Moves(m, burnDebtTokens(m, u, d, amount), k, Cash(k, d, amount))
<1>. DEFINE variable == BalanceOf(m, "vToken", u, d)
            part == burnScaled(m, "vToken", u, d, variable)
            rest == IF variable # 0 THEN part ELSE m
            n == burnDebtTokens(m, u, d, amount)
<1>. SUFFICES ASSUME Sound(m) PROVE Moves(m, n, k, Cash(k, d, amount))
  BY DEF Moves
<1>1. n = IF variable >= amount THEN burnScaled(m, "vToken", u, d, amount)
                                ELSE stableBurn(rest, u, d, amount - variable)
  BY DEF burnDebtTokens
<1>2. CASE variable >= amount
  BY <1>1, <1>2, BurnVariableMoves
<1>3. CASE ~(variable >= amount)
  <2>1. Live(m) => variable \in Nat
    BY CountedNumbers, UsersHold DEF Kinds
  <2>2. Moves(m, rest, k, Cash(k, d, variable))
    <3>1. CASE variable = 0
      <4>1. Moves(m, rest, k, 0) /\ Cash(k, d, variable) = 0
        BY <3>1, MovesItself DEF Cash
      <4>. QED
        BY <4>1
    <3>2. CASE variable # 0
      <4>. HIDE DEF variable
      <4>1. Moves(m, part, k, Cash(k, d, variable))
        BY <2>1, BurnVariableMoves
      <4>. QED
        BY <3>2, <4>1
    <3>. QED
      BY <3>1, <3>2
  <2>. HIDE DEF variable, rest
  <2>3. Live(m) => amount - variable \in Nat
    BY <1>3, <2>1
  <2>4. Moves(rest, n, k, Cash(k, d, amount - variable))
    <3>1. Live(rest) => amount - variable \in Nat
      BY <2>2, <2>3, LiveBefore
    <3>2. n = stableBurn(rest, u, d, amount - variable)
      BY <1>1, <1>3
    <3>. QED
      BY <3>1, <3>2, StableBurnMoves
  <2>5. Moves(m, n, k, Cash(k, d, variable) + Cash(k, d, amount - variable))
    BY <2>2, <2>4, MovesOn
  <2>6. Live(m) => Cash(k, d, variable) + Cash(k, d, amount - variable) = Cash(k, d, amount)
    <3>1. Live(m) => variable + (amount - variable) = amount
      BY <2>1
    <3>. QED
      BY <3>1 DEF Cash
  <2>. HIDE DEF n
  <2>. QED
    BY <2>5, <2>6, MovesBy
<1>. QED
  BY <1>2, <1>3

LEMMA SeizeMoves ==
    ASSUME NEW m, NEW k \in Keys, NEW l \in Users, NEW u \in Users, l # u, NEW c \in Assets,
           NEW seized \in Nat, NEW receive \in BOOLEAN
    PROVE  Moves(m, SeizeCollateral(m, l, u, c, seized, receive), k, 0)
<1>. DEFINE transferred == transferOnLiquidation(m, u, l, c, seized)
            given == AutomaticUse(transferred, l, c, BalanceOf(m, "bToken", l, c) = 0)
            updated == updateInterestRates(updateState(m, c), c)
            burnt == burnScaled(updated, "bToken", u, c, seized)
            paid == MoveCash(burnt, c, -seized)
<1>1. SeizeCollateral(m, l, u, c, seized, receive) = IF receive THEN given ELSE paid
  BY DEF SeizeCollateral
<1>2. Moves(m, transferred, k, 0)
  BY LiquidationTransferMoves, UsersHold
<1>. HIDE DEF transferred
<1>3. Moves(m, given, k, 0)
  BY <1>2, AutomaticUseMoves, ThenIdle
<1>. HIDE DEF given
<1>4. Moves(m, updated, k, 0)
  BY UpdatedMoves
<1>. HIDE DEF updated
<1>5. Moves(updated, burnt, k, Cash(k, c, -seized))
  BY BurnCollateralMoves
<1>. HIDE DEF burnt
<1>6. Moves(burnt, paid, k, Cash(k, c, -(-seized)))
  <2>. DEFINE lost == -seized
  <2>1. lost \in Int /\ paid = MoveCash(burnt, c, lost)
    OBVIOUS
  <2>. HIDE DEF lost, paid
  <2>2. Moves(burnt, paid, k, Cash(k, c, -lost))
    BY <2>1, CashMoves
  <2>. QED
    BY <2>2 DEF lost
<1>. HIDE DEF paid
<1>7. Moves(m, burnt, k, Cash(k, c, -seized))
  BY <1>4, <1>5, IdleThen
<1>8. Moves(m, paid, k, 0)
  BY <1>6, <1>7, CashCancels, MovesCancel
<1>. QED
  BY <1>1, <1>3, <1>8

LEMMA FeeMoves ==
    ASSUME NEW m, NEW k \in Keys, NEW u \in Users, NEW c \in Assets, NEW fee \in Nat
    PROVE  Moves(m, PayFee(m, u, c, fee), k, 0)
<1>. DEFINE i == m.index["bToken"][c]
            left == m.position[u, c].bToken.balance
            amount == IF RayDiv(fee, i) > left THEN RayMul(left, i) ELSE fee
            n == transferOnLiquidation(m, u, Treasury, c, amount)
<1>1. PayFee(m, u, c, fee) = IF fee = 0 THEN m ELSE n
  BY DEF PayFee
<1>2. Live(m) => amount \in Nat
  <2>1. ASSUME Live(m) PROVE RayMul(left, i) \in Nat
    <3>1. i \in Nat \ {0} /\ left \in Nat
      BY <2>1, CountedNumbers, UsersHold DEF Kinds
    <3>. HIDE DEF i, left
    <3>. QED
      BY <3>1, RayMulNat
  <2>. QED
    BY <2>1
<1>3. Treasury \in Holders /\ u # Treasury
  BY LedgerAssumption DEF Holders
<1>. HIDE DEF amount
<1>4. Moves(m, n, k, 0)
  BY <1>2, <1>3, LiquidationTransferMoves
<1>. QED
  BY <1>1, <1>4, MovesItself

LEMMA LiquidationMoves ==
    ASSUME NEW m, Live(m), NEW k \in Keys, NEW l \in Users, NEW u \in Users, l # u,
           NEW c \in Assets, NEW d \in Assets, NEW covered \in Nat, NEW seized \in Nat,
           NEW fee \in Nat, NEW receive \in BOOLEAN
    PROVE  Moves(m, executeLiquidationCall(m, l, u, c, d, covered, seized, fee, receive), k, 0)
<1>. DEFINE balance == BalanceOf(m, "bToken", u, c)
            fetched == updateState(m, d)
            allowed == Require(fetched,
                               /\ m.position[u, c].collateral
                               /\ covered <= Debt(m, u, d)
                               /\ seized + fee <= balance)
            switched == IF seized + fee = balance
                        THEN setUsingAsCollateral(allowed, u, c, FALSE) ELSE allowed
            burnt == burnDebtTokens(switched, u, d, covered)
            updated == updateInterestRates(burnt, d)
            repaid == ChangeIsolatedDebt(updated, u, -covered)
            seizure == SeizeCollateral(repaid, l, u, c, seized, receive)
            taken == PayFee(seizure, u, c, fee)
            paid == MoveCash(taken, d, covered)
            e == LiquidationCallEvent(Pool, c, d, u, covered, seized, l)
<1>1. Moves(m, fetched, k, 0)
  BY UpdateStateMoves
<1>2. Moves(fetched, allowed, k, 0)
  BY RequireMoves
<1>3. /\ e.address = Pool /\ e.name \notin SettingNames /\ e.name \notin MoneyNames /\ Measured(e)
  BY DEF LiquidationCallEvent, SettingNames, SwitchNames, MoneyNames, Measured
<1>4. executeLiquidationCall(m, l, u, c, d, covered, seized, fee, receive) = Emit(paid, e)
  BY DEF executeLiquidationCall
<1>. HIDE DEF fetched, allowed, e, balance
<1>5. Moves(allowed, switched, k, 0)
  BY SwitchMoves, MovesItself
<1>. HIDE DEF switched
<1>6. Moves(switched, burnt, k, Cash(k, d, covered))
  BY DebtTokensMove
<1>. HIDE DEF burnt
<1>7. Moves(burnt, updated, k, 0)
  BY RatesMove
<1>. HIDE DEF updated
<1>8. Moves(updated, repaid, k, 0)
  BY IsolatedDebtMoves
<1>. HIDE DEF repaid
<1>9. Moves(repaid, seizure, k, 0)
  BY SeizeMoves
<1>. HIDE DEF seizure
<1>10. Moves(seizure, taken, k, 0)
  BY FeeMoves
<1>. HIDE DEF taken
<1>11. Moves(taken, paid, k, Cash(k, d, -covered))
  <2>1. covered \in Int /\ paid = MoveCash(taken, d, covered)
    OBVIOUS
  <2>. HIDE DEF paid
  <2>. QED
    BY <2>1, CashMoves
<1>. HIDE DEF paid
<1>12. Moves(m, switched, k, 0)
  <2>1. Moves(m, allowed, k, 0)
    BY <1>1, <1>2, ThenIdle
  <2>. QED
    BY <1>5, <2>1, ThenIdle
<1>13. Moves(m, repaid, k, Cash(k, d, covered))
  <2>1. Moves(m, burnt, k, Cash(k, d, covered))
    BY <1>6, <1>12, IdleThen
  <2>2. Moves(m, updated, k, Cash(k, d, covered))
    BY <1>7, <2>1, ThenIdle
  <2>. QED
    BY <1>8, <2>2, ThenIdle
<1>14. Moves(m, taken, k, Cash(k, d, covered))
  <2>1. Moves(m, seizure, k, Cash(k, d, covered))
    BY <1>9, <1>13, ThenIdle
  <2>. QED
    BY <1>10, <2>1, ThenIdle
<1>15. Moves(m, paid, k, 0)
  BY <1>11, <1>14, CashCancels, MovesCancel
<1>. QED
  BY <1>3, <1>4, <1>15, PoolEventMoves

\* What is lent without backing, or backed, is another ledger.
LEMMA UnbackedCounted ==
    ASSUME NEW m, NEW n, Counted(m), SameAccounts(m, n), n.unbacked \in [Assets -> Int],
           n.index = m.index, n.stableTotal = m.stableTotal, n.stableGrowth = m.stableGrowth,
           n.accrued = m.accrued, n.earning = m.earning, n.bridgeFee = m.bridgeFee
    PROVE  Counted(n)
<1>1. /\ m.index \in [Kinds -> [Assets -> Nat \ {0}]] /\ m.underlying \in [Assets -> Int]
      /\ {m.stableTotal, m.stableGrowth} \subseteq [Assets -> Int]
      /\ {m.accrued, m.earning} \subseteq [Assets -> Nat]
      /\ m.bridgeFee \in 0..PERCENTAGE_FACTOR
  BY DEF Counted
<1>2. SamePositions(m, n) /\ n.underlying \in [Assets -> Int]
  BY <1>1 DEF SameAccounts
<1>3. /\ {n.stableTotal, n.stableGrowth, n.unbacked} \subseteq [Assets -> Int]
      /\ {n.accrued, n.earning} \subseteq [Assets -> Nat]
      /\ n.index \in [Kinds -> [Assets -> Nat \ {0}]] /\ n.bridgeFee \in 0..PERCENTAGE_FACTOR
  BY <1>1
<1>. QED
  BY <1>2, <1>3, SameCounted

LEMMA UnbackedMoves ==
    ASSUME NEW m, NEW k \in Keys, NEW a \in Assets, NEW change, Live(m) => change \in Int,
           NEW n, n = [m EXCEPT !.unbacked[a] = @ + change]
    PROVE  Moves(m, n, k, 0)
<1>1. Silent(m, n)
  BY DEF Silent, Shaped, SameSettings
<1>2. ASSUME Sound(m)
      PROVE  /\ n.reverted = m.reverted /\ SameAccounts(m, n)
             /\ n.index = m.index /\ n.stableTotal = m.stableTotal
             /\ n.stableGrowth = m.stableGrowth /\ n.accrued = m.accrued
             /\ n.earning = m.earning /\ n.bridgeFee = m.bridgeFee
             /\ n.unbacked = [m.unbacked EXCEPT ![a] = @ + change]
  BY <1>2 DEF Sound, IsMarket, Shaped, SameAccounts, SamePositions
<1>3. ASSUME Sound(m), ~n.reverted
      PROVE  /\ Counted(n) /\ \A b \in Assets : m.accrued[b] <= n.accrued[b]
             /\ Ledger(m, k) = Ledger(n, k) + 0
  <2>1. Counted(m) /\ Live(m) /\ change \in Int
    BY <1>2, <1>3 DEF Sound, Live
  <2>2. /\ m.index \in [Kinds -> [Assets -> Nat \ {0}]]
        /\ {m.underlying, m.stableTotal, m.stableGrowth, m.unbacked} \subseteq [Assets -> Int]
        /\ {m.accrued, m.earning} \subseteq [Assets -> Nat]
        /\ m.bridgeFee \in 0..PERCENTAGE_FACTOR
    BY <2>1 DEF Counted
  <2>3. n.unbacked \in [Assets -> Int]
    <3>1. m.unbacked \in [Assets -> Int] /\ n.unbacked = [m.unbacked EXCEPT ![a] = @ + change]
      BY <1>2, <1>3, <2>2
    <3>2. change \in Int
      BY <2>1
    <3>. QED
      BY <3>1, <3>2
  <2>4. Counted(n)
    BY <1>2, <1>3, <2>1, <2>3, UnbackedCounted
  <2>5. Ledger(n, k) = Ledger(m, k) /\ Ledger(m, k) \in Int
    BY <1>2, <1>3, <2>1, SameLedger, LedgerInt
  <2>6. \A b \in Assets : m.accrued[b] <= n.accrued[b]
    BY <1>2, <1>3, <2>1, AccruedNat
  <2>. QED
    BY <2>4, <2>5, <2>6
<1>4. 0 \in Int /\ (Sound(m) => n.reverted \in BOOLEAN /\ (m.reverted => n.reverted))
  BY <1>2 DEF Sound
<1>. HIDE DEF Silent
<1>. QED
  BY <1>1, <1>3, <1>4, QuietMoves, Zenon

\* An event about cash that nothing else announces.
LEMMA CashEventMoves ==
    ASSUME NEW m, NEW k \in Keys, NEW a \in Assets, NEW e, NEW amount \in Int,
           e.name \in {"FlashLoan", "MintUnbacked", "BackUnbacked"}, e.address = Pool,
           \A b \in Assets : CashCredit(e, b) = IF b = a THEN amount ELSE 0,
           Live(m) => Measured(e)
    PROVE  Moves(m, Emit(m, e), k, Cash(k, a, amount))
<1>1. Loss(e, k) = 0
  BY DEF Loss, MintName, Kinds
<1>2. Credit(e, k) = Cash(k, a, amount)
  <2>1. CASE k[1] = "cash" /\ k[2] \in Assets
    BY <2>1 DEF Credit, Cash
  <2>2. CASE k[1] = "principal"
    BY <2>2 DEF Credit, PrincipalCredit, Cash
  <2>3. CASE k[1] \in Kinds
    BY <2>3 DEF Credit, ScaledCredit, MintName, BurnName, Cash, Kinds
  <2>. QED
    BY <2>1, <2>2, <2>3, KeyCases DEF Kinds
<1>3. Cash(k, a, amount) \in Int
  BY DEF Cash
<1>4. Follows(m, Emit(m, e))
  <2>1. e.name \notin SettingNames
    BY DEF SettingNames, SwitchNames
  <2>. QED
    BY <2>1, FollowsItself, PoolEventFollows
<1>5. Moves(m, Emit(m, e), k, Credit(e, k))
  BY <1>1, <1>2, <1>3, <1>4, EmitMoves
<1>. QED
  BY <1>2, <1>5

LEMMA MintUnbackedMoves ==
    ASSUME NEW m, Live(m), NEW k \in Keys, NEW u \in Users, NEW a \in Assets, NEW amount \in Nat
    PROVE  Moves(m, executeMintUnbacked(m, u, a, amount), k, 0)
<1>. DEFINE lent == [m EXCEPT !.unbacked[a] = @ + amount]
            minted == MintPosition(lent, u, a, amount)
            e == MintUnbackedEvent(Pool, a, u, u, amount)
            n == Emit(minted, e)
            lost == -amount
<1>1. executeMintUnbacked(m, u, a, amount) = n
  BY DEF executeMintUnbacked
<1>2. Moves(m, lent, k, 0)
  BY UnbackedMoves
<1>3. /\ e.name = "MintUnbacked" /\ e.address = Pool /\ Measured(e)
      /\ \A b \in Assets : CashCredit(e, b) = IF b = a THEN lost ELSE 0
  BY DEF MintUnbackedEvent, Measured, SwitchNames, CashCredit
<1>4. lost \in Int
  OBVIOUS
<1>. HIDE DEF lent, e
<1>5. Moves(lent, minted, k, Cash(k, a, amount))
  BY MintPositionMoves
<1>. HIDE DEF minted, lost
<1>6. Moves(minted, n, k, Cash(k, a, lost))
  BY <1>3, <1>4, CashEventMoves
<1>7. Moves(m, minted, k, Cash(k, a, amount))
  BY <1>2, <1>5, IdleThen
<1>8. Cash(k, a, amount) + Cash(k, a, lost) = 0
  BY CashCancels DEF lost
<1>. HIDE DEF n
<1>9. Moves(m, n, k, 0)
  BY <1>6, <1>7, <1>8, MovesCancel
<1>. QED
  BY <1>1, <1>9

LEMMA ShareNat ==
    ASSUME NEW x \in Nat, NEW p \in 0..PERCENTAGE_FACTOR
    PROVE  PercentMul(x, p) \in Nat /\ x - PercentMul(x, p) \in Nat
<1>1. PercentMul(x, p) \in Nat /\ PercentMul(x, p) <= x
  BY PercentMulNat, PercentMulLe, MathAssumption
<1>. QED
  BY <1>1

LEMMA BackUnbackedMoves ==
    ASSUME NEW m, Live(m), NEW k \in Keys, NEW u \in Users, NEW a \in Assets, NEW amount \in Nat,
           NEW fee \in Nat
    PROVE  Moves(m, executeBackUnbacked(m, u, a, amount, fee), k, 0)
<1>. DEFINE backing == IF amount < m.unbacked[a] THEN amount ELSE m.unbacked[a]
            toProtocol == PercentMul(fee, m.bridgeFee)
            toLP == fee - toProtocol
            fetched == updateState(m, a)
            paid == cumulate(fetched, a, toLP, toProtocol)
            backed == [paid EXCEPT !.unbacked[a] = @ - backing]
            updated == updateInterestRates(backed, a)
            all == backing + fee
            received == MoveCash(updated, a, all)
            e == BackUnbackedEvent(Pool, a, u, backing, fee)
            n == Emit(received, e)
<1>1. executeBackUnbacked(m, u, a, amount, fee) = n
  BY DEF executeBackUnbacked
<1>2. m.unbacked[a] \in Int /\ m.bridgeFee \in 0..PERCENTAGE_FACTOR
  BY DEF Live, Sound, Counted
<1>3. backing \in Int /\ all \in Int
  BY <1>2
<1>4. toLP \in Nat /\ toProtocol \in Nat
  BY <1>2, ShareNat
<1>5. /\ e.name = "BackUnbacked" /\ e.address = Pool /\ Measured(e)
      /\ \A b \in Assets : CashCredit(e, b) = IF b = a THEN all ELSE 0
  <2>. HIDE DEF backing
  <2>. QED
    BY <1>3 DEF BackUnbackedEvent, Measured, SwitchNames, CashCredit
<1>6. Moves(m, fetched, k, 0)
  BY UpdateStateMoves
<1>. HIDE DEF e, fetched, backing, all, toLP, toProtocol
<1>7. Moves(fetched, paid, k, 0)
  BY <1>4, CumulateMoves
<1>. HIDE DEF paid
<1>8. Moves(paid, backed, k, 0)
  <2>. DEFINE change == -backing
  <2>1. change \in Int
    BY <1>3
  <2>2. backed = [paid EXCEPT !.unbacked[a] = @ + change] \/ ~Live(paid)
    <3>1. Live(paid) => paid.unbacked[a] \in Int
      BY DEF Live, Sound, Counted
    <3>2. Live(paid) => paid.unbacked[a] - backing = paid.unbacked[a] + change
      BY <1>3, <3>1
    <3>. HIDE DEF change
    <3>. QED
      BY <3>2
  <2>. HIDE DEF change
  <2>3. CASE backed = [paid EXCEPT !.unbacked[a] = @ + change]
    BY <2>1, <2>3, UnbackedMoves
  <2>4. CASE ~Live(paid)
    <3>1. CASE ~Sound(paid)
      BY <3>1 DEF Moves
    <3>2. CASE Sound(paid) /\ paid.reverted
      <4>1. Sound(backed) /\ backed.reverted
        BY <3>2 DEF Sound, IsMarket, Shaped
      <4>. HIDE DEF backed
      <4>. QED
        BY <3>2, <4>1 DEF Moves
    <3>. QED
      BY <2>4, <3>1, <3>2 DEF Live, Sound
  <2>. QED
    BY <2>2, <2>3, <2>4
<1>. HIDE DEF backed
<1>9. Moves(backed, updated, k, 0)
  BY RatesMove
<1>. HIDE DEF updated
<1>10. Moves(updated, received, k, Cash(k, a, -all))
  BY <1>3, CashMoves
<1>. HIDE DEF received
<1>11. Moves(received, n, k, Cash(k, a, all))
  BY <1>3, <1>5, CashEventMoves
<1>. HIDE DEF n
<1>12. Moves(m, updated, k, 0)
  <2>1. Moves(m, paid, k, 0)
    BY <1>6, <1>7, ThenIdle
  <2>2. Moves(m, backed, k, 0)
    BY <1>8, <2>1, ThenIdle
  <2>. QED
    BY <1>9, <2>2, ThenIdle
<1>13. Moves(m, received, k, Cash(k, a, -all))
  BY <1>10, <1>12, IdleThen
<1>14. Cash(k, a, -all) + Cash(k, a, all) = 0
  BY <1>3, CashCancels
<1>15. Moves(m, n, k, 0)
  BY <1>11, <1>13, <1>14, MovesCancel
<1>. QED
  BY <1>1, <1>15

LEMMA SetEModeMoves ==
    ASSUME NEW m, NEW k \in Keys, NEW u \in Users, NEW category \in Nat
    PROVE  Moves(m, executeSetUserEMode(m, u, category), k, 0)
<1>. DEFINE e == UserEModeSet(Pool, u, category)
            n == Emit([m EXCEPT !.eMode[u] = category], e)
<1>1. executeSetUserEMode(m, u, category) = n
  BY DEF executeSetUserEMode
<1>2. Follows(m, n)
  BY <1>1, SetEModeFollows
<1>3. e.name \notin MoneyNames /\ Measured(e)
  BY DEF UserEModeSet, MoneyNames, Measured, SwitchNames
<1>4. ASSUME Sound(m)
      PROVE  /\ n.reverted \in BOOLEAN /\ (m.reverted => n.reverted)
             /\ n.log = Append(m.log, e) /\ SameNumbers(m, n)
  BY <1>4 DEF Sound, IsMarket, Shaped, Emit, SameNumbers, SameAccounts, SamePositions
<1>. HIDE DEF e, n
<1>5. Moves(m, n, k, 0)
  BY <1>2, <1>3, <1>4, PlainMoves
<1>. QED
  BY <1>1, <1>5

LEMMA BridgeFeeMoves ==
    ASSUME NEW m, NEW k \in Keys, NEW fee \in BridgeFees
    PROVE  Moves(m, updateBridgeProtocolFee(m, fee), k, 0)
<1>. DEFINE e == BridgeProtocolFeeUpdated(PoolConfigurator, fee)
            n == Emit([m EXCEPT !.bridgeFee = fee], e)
<1>1. updateBridgeProtocolFee(m, fee) = n
  BY DEF updateBridgeProtocolFee
<1>2. Follows(m, n)
  BY <1>1, BridgeFeeFollows
<1>3. e.name \notin MoneyNames /\ Measured(e)
  BY DEF BridgeProtocolFeeUpdated, MoneyNames, Measured, SwitchNames
<1>4. Credit(e, k) = 0 /\ Loss(e, k) = 0
  BY <1>3, PlainSaysNothing
<1>5. ASSUME Sound(m)
      PROVE  /\ n.reverted = m.reverted /\ n.log = Append(m.log, e)
             /\ SameAccounts(m, n) /\ n.index = m.index /\ n.stableTotal = m.stableTotal
             /\ n.stableGrowth = m.stableGrowth /\ n.unbacked = m.unbacked
             /\ n.accrued = m.accrued /\ n.earning = m.earning /\ n.bridgeFee = fee
  BY <1>5 DEF Sound, IsMarket, Shaped, Emit, SameAccounts, SamePositions
<1>. HIDE DEF e, n
<1>6. ASSUME Sound(m), ~n.reverted
      PROVE  /\ Counted(n) /\ \A b \in Assets : m.accrued[b] <= n.accrued[b]
             /\ Books(e, k, (Ledger(n, k) + 0) - Ledger(m, k))
  <2>1. Counted(m) /\ Live(m)
    BY <1>5, <1>6 DEF Sound, Live
  <2>2. /\ m.index \in [Kinds -> [Assets -> Nat \ {0}]] /\ m.underlying \in [Assets -> Int]
        /\ {m.stableTotal, m.stableGrowth, m.unbacked} \subseteq [Assets -> Int]
        /\ {m.accrued, m.earning} \subseteq [Assets -> Nat]
    BY <2>1 DEF Counted
  <2>3. fee \in 0..PERCENTAGE_FACTOR
    BY LedgerAssumption
  <2>4. /\ SamePositions(m, n) /\ n.index = m.index /\ n.stableTotal = m.stableTotal
        /\ n.stableGrowth = m.stableGrowth /\ n.unbacked = m.unbacked
        /\ n.accrued = m.accrued /\ n.earning = m.earning /\ n.bridgeFee = fee
        /\ n.underlying = m.underlying
    BY <1>5, <1>6 DEF SameAccounts
  <2>5. /\ n.index \in [Kinds -> [Assets -> Nat \ {0}]] /\ n.underlying \in [Assets -> Int]
        /\ {n.stableTotal, n.stableGrowth, n.unbacked} \subseteq [Assets -> Int]
        /\ {n.accrued, n.earning} \subseteq [Assets -> Nat]
        /\ n.bridgeFee \in 0..PERCENTAGE_FACTOR
    BY <2>2, <2>3, <2>4
  <2>6. Counted(n)
    BY <2>1, <2>4, <2>5, SameCounted
  <2>7. Ledger(n, k) = Ledger(m, k) /\ Ledger(m, k) \in Int
    BY <1>5, <1>6, <2>1, SameLedger, LedgerInt
  <2>8. Books(e, k, (Ledger(n, k) + 0) - Ledger(m, k))
    BY <1>4, <2>7 DEF Books
  <2>9. \A b \in Assets : m.accrued[b] <= n.accrued[b]
    BY <2>1, <2>4, AccruedNat
  <2>. QED
    BY <2>6, <2>8, <2>9
<1>7. Sound(m) => n.reverted \in BOOLEAN /\ (m.reverted => n.reverted) /\ n.log = Append(m.log, e)
  BY <1>5 DEF Sound
<1>8. 0 \in Int
  OBVIOUS
<1>9. Moves(m, n, k, 0)
  BY <1>2, <1>3, <1>6, <1>7, <1>8, EventMoves, Zenon
<1>. QED
  BY <1>1, <1>9

\* What the treasury is paid is taken from what it was owed.
LEMMA EmptiedCounted ==
    ASSUME NEW m, NEW q, Counted(m), SameAccounts(m, q), q.accrued \in [Assets -> Nat],
           q.index = m.index, q.stableTotal = m.stableTotal, q.stableGrowth = m.stableGrowth,
           q.unbacked = m.unbacked, q.earning = m.earning, q.bridgeFee = m.bridgeFee
    PROVE  Counted(q)
<1>1. /\ m.index \in [Kinds -> [Assets -> Nat \ {0}]] /\ m.underlying \in [Assets -> Int]
      /\ {m.stableTotal, m.stableGrowth, m.unbacked} \subseteq [Assets -> Int]
      /\ m.earning \in [Assets -> Nat] /\ m.bridgeFee \in 0..PERCENTAGE_FACTOR
  BY DEF Counted
<1>2. SamePositions(m, q) /\ q.underlying \in [Assets -> Int]
  BY <1>1 DEF SameAccounts
<1>3. /\ {q.stableTotal, q.stableGrowth, q.unbacked} \subseteq [Assets -> Int]
      /\ {q.accrued, q.earning} \subseteq [Assets -> Nat]
      /\ q.index \in [Kinds -> [Assets -> Nat \ {0}]] /\ q.bridgeFee \in 0..PERCENTAGE_FACTOR
  BY <1>1
<1>. QED
  BY <1>2, <1>3, SameCounted

LEMMA EmptiedMoves ==
    ASSUME NEW m, NEW n, NEW k \in Keys, NEW a \in Assets,
           NEW q, q = [m EXCEPT !.accrued[a] = 0], Moves(q, n, k, 0),
           Sound(m) => \E i \in Len(m.log) + 1..Len(n.log) :
                          n.log[i].name = "BTokenMint" /\ n.log[i].address = TokenOf("bToken", a)
    PROVE  Moves(m, n, k, 0)
<1>. SUFFICES ASSUME Sound(m) PROVE Moves(m, n, k, 0)
  BY DEF Moves
<1>1. /\ IsMarket(q) /\ q.log = m.log /\ q.reverted = m.reverted /\ SameAccounts(m, q)
      /\ q.index = m.index /\ q.stableTotal = m.stableTotal
      /\ q.stableGrowth = m.stableGrowth /\ q.unbacked = m.unbacked
      /\ q.earning = m.earning /\ q.bridgeFee = m.bridgeFee
      /\ q.accrued = [m.accrued EXCEPT ![a] = 0]
  BY DEF Sound, IsMarket, Shaped, SameAccounts, SamePositions
<1>2. ASSUME ~m.reverted PROVE Counted(q)
  <2>1. Counted(m) /\ m.accrued \in [Assets -> Nat]
    BY <1>2 DEF Sound, Counted
  <2>2. q.accrued \in [Assets -> Nat]
    BY <1>1, <2>1
  <2>. QED
    BY <1>1, <2>1, <2>2, EmptiedCounted
<1>3. Sound(q) /\ \A b \in Assets : b # a => q.accrued[b] = m.accrued[b]
  <2>1. Sound(q)
    BY <1>1, <1>2 DEF Sound
  <2>2. ~m.reverted => m.accrued \in [Assets -> Nat]
    BY DEF Sound, Counted
  <2>3. ASSUME NEW b \in Assets, b # a PROVE q.accrued[b] = m.accrued[b]
    BY <1>1, <2>3
  <2>. QED
    BY <2>1, <2>3
<1>4. Ledger(q, k) = Ledger(m, k)
  BY <1>1, SameLedger
<1>5. ~n.reverted => Grows(m, n)
  <2>1. ASSUME ~n.reverted, NEW b \in Assets
        PROVE  \/ m.accrued[b] <= n.accrued[b]
               \/ \E i \in Len(m.log) + 1..Len(n.log) :
                     n.log[i].name = "BTokenMint" /\ n.log[i].address = TokenOf("bToken", b)
    <3>1. CASE b = a
      BY <3>1
    <3>2. CASE b # a
      <4>1. Grows(q, n)
        BY <1>3, <2>1 DEF Moves
      <4>. QED
        BY <1>1, <1>3, <3>2, <4>1 DEF Grows
    <3>. QED
      BY <3>1, <3>2
  <2>. QED
    BY <2>1 DEF Grows
<1>. QED
  BY <1>1, <1>3, <1>4, <1>5 DEF Moves

LEMMA TreasuryMintMoves ==
    ASSUME NEW m, Live(m), NEW k \in Keys, NEW a \in Assets
    PROVE  Moves(m, executeMintToTreasury(m, a), k, 0)
<1>. DEFINE amount == RayMul(m.accrued[a], m.index["bToken"][a])
            required == Require(m, m.accrued[a] # 0)
            emptied == [required EXCEPT !.accrued[a] = 0]
            minted == mintScaled(emptied, "bToken", Treasury, a, amount)
            e == MintedToTreasury(Pool, a, amount)
<1>1. Moves(m, required, k, 0)
  BY RequireMoves
<1>2. e.address = Pool /\ e.name \notin SettingNames /\ e.name \notin MoneyNames /\ Measured(e)
  BY DEF MintedToTreasury, SettingNames, SwitchNames, MoneyNames, Measured
<1>3. executeMintToTreasury(m, a) = Emit(minted, e)
  BY DEF executeMintToTreasury
<1>4. amount \in Nat
  <2>1. m.accrued[a] \in Nat /\ m.index["bToken"][a] \in Nat
    BY AccruedNat, CountedIndex DEF Live, Sound, Kinds
  <2>. QED
    BY <2>1, RayMulNat
<1>. HIDE DEF e, amount
<1>5. Moves(emptied, minted, k, 0)
  <2>1. Treasury \in Holders /\ Treasury \notin Users
    BY LedgerAssumption DEF Holders
  <2>. HIDE DEF emptied
  <2>2. Moves(emptied, minted, k, Issue(k, "bToken", Treasury, a, amount))
    BY <1>4, <2>1, MintScaledMoves DEF Kinds
  <2>3. Issue(k, "bToken", Treasury, a, amount) = 0
    BY <2>1 DEF Issue
  <2>. QED
    BY <2>2, <2>3
<1>6. ASSUME Sound(required)
      PROVE  \E i \in Len(required.log) + 1..Len(minted.log) :
                 /\ minted.log[i].name = "BTokenMint"
                 /\ minted.log[i].address = TokenOf("bToken", a)
  <2>. DEFINE f == MintEvent(emptied, "bToken", Treasury, a,
                             amount + Increase(emptied, "bToken", Treasury, a))
              q == Require(emptied, RayDiv(amount, emptied.index["bToken"][a]) # 0)
              t == Touch(q, "bToken", Treasury, a, RayDiv(amount, emptied.index["bToken"][a]))
  <2>1. minted = Emit(t, f)
    BY DEF mintScaled
  <2>2. f.name = "BTokenMint" /\ f.address = TokenOf("bToken", a)
    BY DEF MintEvent, BTokenMint
  <2>3. IsMarket(required) /\ required.log = emptied.log /\ IsMarket(emptied)
    BY <1>6 DEF Sound, IsMarket, Shaped
  <2>. HIDE DEF f, emptied, required
  <2>4. q.log = emptied.log /\ Shaped(q)
    BY <2>3, RequireSilent DEF Silent, IsMarket
  <2>. HIDE DEF q
  <2>5. t.log = q.log /\ Shaped(t)
    <3>1. Silent(q, t)
      BY TouchSilent DEF Holders
    <3>. QED
      BY <2>4, <3>1 DEF Silent
  <2>. HIDE DEF t
  <2>6. minted.log = Append(required.log, f)
    BY <2>1, <2>3, <2>4, <2>5 DEF Emit, Shaped
  <2>7. IsLog(required.log)
    BY <2>3 DEF IsMarket
  <2>8. /\ Len(required.log) \in Nat /\ Len(minted.log) = Len(required.log) + 1
        /\ minted.log[Len(required.log) + 1] = f
    BY <2>6, <2>7, LogAppended
  <2>. QED
    BY <2>2, <2>8
<1>. HIDE DEF minted
<1>7. Moves(required, minted, k, 0)
  BY <1>5, <1>6, EmptiedMoves
<1>. HIDE DEF required
<1>8. Moves(m, minted, k, 0)
  BY <1>1, <1>7, ThenIdle
<1>. QED
  BY <1>2, <1>3, <1>8, PoolEventMoves

\* A loan: what is lent, and what is owed for it.
IsLoan(loan) ==
    /\ loan.asset \in Assets /\ loan.initiator \in Users
    /\ loan.amount \in Nat /\ loan.premium \in Nat

LEMMA LoanRepaymentMoves ==
    ASSUME NEW m, Live(m), NEW k \in Keys, NEW loan, IsLoan(loan)
    PROVE  Moves(m, handleFlashLoanRepayment(m, loan), k, Cash(k, loan.asset, -loan.amount))
<1>. DEFINE a == loan.asset
            toProtocol == PercentMul(loan.premium, FlashPremiumToProtocol)
            toLP == loan.premium - toProtocol
            fetched == updateState(m, a)
            paid == cumulate(fetched, a, toLP, toProtocol)
            updated == updateInterestRates(paid, a)
            all == loan.amount + loan.premium
            received == MoveCash(updated, a, all)
            e == FlashLoanEvent(Pool, loan.initiator, a, loan.amount, loan.premium)
            n == Emit(received, e)
            x == Cash(k, a, -all) + Cash(k, a, loan.premium)
            y == Cash(k, a, -loan.amount)
<1>1. handleFlashLoanRepayment(m, loan) = n
  BY DEF handleFlashLoanRepayment
<1>2. a \in Assets /\ loan.amount \in Nat /\ loan.premium \in Nat /\ all \in Int
  BY DEF IsLoan
<1>3. toLP \in Nat /\ toProtocol \in Nat
  <2>1. FlashPremiumToProtocol \in 0..PERCENTAGE_FACTOR
    BY LedgerAssumption
  <2>. QED
    BY <1>2, <2>1, ShareNat
<1>4. /\ e.name = "FlashLoan" /\ e.address = Pool /\ Measured(e)
      /\ \A b \in Assets : CashCredit(e, b) = IF b = a THEN loan.premium ELSE 0
  BY <1>2 DEF FlashLoanEvent, Measured, SwitchNames, CashCredit
<1>5. x = y
  BY <1>2 DEF Cash
<1>6. Moves(m, fetched, k, 0)
  BY <1>2, UpdateStateMoves
<1>. HIDE DEF a, e, fetched, all, toLP, toProtocol
<1>7. Moves(fetched, paid, k, 0)
  BY <1>2, <1>3, CumulateMoves
<1>. HIDE DEF paid
<1>8. Moves(paid, updated, k, 0)
  BY <1>2, RatesMove
<1>. HIDE DEF updated
<1>9. Moves(updated, received, k, Cash(k, a, -all))
  BY <1>2, CashMoves
<1>. HIDE DEF received
<1>10. Moves(received, n, k, Cash(k, a, loan.premium))
  <2>1. loan.premium \in Int
    BY <1>2
  <2>. QED
    BY <1>2, <1>4, <2>1, CashEventMoves
<1>. HIDE DEF n
<1>11. Moves(m, updated, k, 0)
  BY <1>6, <1>7, <1>8, ThenIdle
<1>12. Moves(m, received, k, Cash(k, a, -all))
  BY <1>9, <1>11, IdleThen
<1>13. Moves(m, n, k, x)
  BY <1>10, <1>12, MovesOn
<1>14. Moves(m, n, k, y)
  BY <1>5, <1>13
<1>. QED
  BY <1>1, <1>14 DEF a

LEMMA LoanKeptMoves ==
    ASSUME NEW m, Live(m), NEW k \in Keys, NEW loan, IsLoan(loan), NEW kind \in {"sToken", "vToken"}
    PROVE  Moves(m, KeepAsDebt(m, loan, kind), k, Cash(k, loan.asset, -loan.amount))
<1>. DEFINE a == loan.asset
            u == loan.initiator
            borrowed == executeBorrow(m, u, u, a, loan.amount, kind, FALSE)
            e == FlashLoanEvent(Pool, u, a, loan.amount, 0)
            n == Emit(borrowed, e)
            y == Cash(k, a, -loan.amount)
<1>1. KeepAsDebt(m, loan, kind) = n
  BY DEF KeepAsDebt
<1>2. a \in Assets /\ u \in Users /\ loan.amount \in Nat
  BY DEF IsLoan
<1>3. Moves(m, borrowed, k, y)
  <2>1. Moves(m, borrowed, k, IF FALSE THEN 0 ELSE y)
    BY <1>2, BorrowMoves
  <2>. QED
    BY <2>1
<1>4. /\ e.name = "FlashLoan" /\ e.address = Pool /\ Measured(e)
      /\ \A b \in Assets : CashCredit(e, b) = IF b = a THEN 0 ELSE 0
  BY <1>2 DEF FlashLoanEvent, Measured, SwitchNames, CashCredit
<1>. HIDE DEF a, u, e, borrowed
<1>5. Moves(borrowed, n, k, 0)
  <2>. DEFINE nothing == 0
  <2>0. nothing \in Int /\ \A b \in Assets : CashCredit(e, b) = IF b = a THEN nothing ELSE 0
    BY <1>4
  <2>. HIDE DEF nothing
  <2>1. Moves(borrowed, n, k, Cash(k, a, nothing))
    BY <1>2, <1>4, <2>0, CashEventMoves
  <2>2. Cash(k, a, nothing) = 0
    BY DEF Cash, nothing
  <2>. QED
    BY <2>1, <2>2
<1>. HIDE DEF n
<1>6. Moves(m, n, k, y)
  BY <1>3, <1>5, ThenIdle
<1>. QED
  BY <1>1, <1>6 DEF a

LEMMA AmountsNat ==
    /\ \A amount \in Amounts : amount \in Nat
    /\ \A fee \in Fees : fee \in Nat
    /\ FlashPremium \in Nat /\ StableInterest \in Nat
BY LedgerAssumption

LEMMA BalanceNat ==
    ASSUME NEW m, Live(m), NEW kind \in Kinds, NEW u \in Holders, NEW a \in Assets
    PROVE  BalanceOf(m, kind, u, a) \in Nat
BY CountedNumbers DEF Live, Sound

LEMMA WholeDebtNat ==
    ASSUME NEW m, Live(m), NEW u \in Users, NEW a \in Assets
    PROVE  Debt(m, u, a) \in Nat
<1>1. BalanceOf(m, "vToken", u, a) \in Nat
  BY BalanceNat, UsersHold DEF Kinds
<1>2. StableDebt(m, u, a) \in Nat
  BY DebtNat DEF DebtOfKind
<1>. QED
  BY <1>1, <1>2 DEF Debt

\* What the events of a call say of the amounts is what the call did.
CallMoves == \A k \in Keys : Moves(market, market', k, 0)

LEMMA SupplyCallMoves ==
    ASSUME Live(market), NEW u \in Users, NEW a \in Assets,
           \/ SupplyCall(u, a) \/ WithdrawCall(u, a) \/ BorrowCall(u, a)
           \/ MintUnbackedCall(u, a) \/ BackUnbackedCall(u, a)
    PROVE  CallMoves
<1>1. CASE SupplyCall(u, a)
  <2>1. PICK amount \in Amounts : market' = executeSupply(market, u, a, amount)
    BY <1>1, Zenon DEF SupplyCall, Call
  <2>. QED
    BY <2>1, AmountsNat, SupplyMoves DEF CallMoves
<1>2. CASE WithdrawCall(u, a)
  <2>1. PICK amount \in Amounts \cup {BalanceOf(market, "bToken", u, a)} :
          market' = executeWithdraw(market, u, a, amount)
    BY <1>2, Zenon DEF WithdrawCall, Call
  <2>2. amount \in Nat
    BY <2>1, AmountsNat, BalanceNat, UsersHold DEF Kinds
  <2>. QED
    BY <2>1, <2>2, WithdrawMoves DEF CallMoves
<1>3. CASE BorrowCall(u, a)
  <2>1. PICK caller \in Users, amount \in Amounts, kind \in {"sToken", "vToken"} :
          market' = executeBorrow(market, caller, u, a, amount, kind, TRUE)
    BY <1>3, Zenon DEF BorrowCall, Call
  <2>2. ASSUME NEW k \in Keys PROVE Moves(market, market', k, 0)
    <3>1. Moves(market, market', k, IF TRUE THEN 0 ELSE Cash(k, a, -amount))
      BY <2>1, AmountsNat, BorrowMoves
    <3>. QED
      BY <3>1, Zenon
  <2>. QED
    BY <2>2 DEF CallMoves
<1>4. CASE MintUnbackedCall(u, a)
  <2>1. PICK amount \in Amounts : market' = executeMintUnbacked(market, u, a, amount)
    BY <1>4, Zenon DEF MintUnbackedCall, Call
  <2>. QED
    BY <2>1, AmountsNat, MintUnbackedMoves DEF CallMoves
<1>5. CASE BackUnbackedCall(u, a)
  <2>1. PICK amount \in Amounts, fee \in Fees :
          market' = executeBackUnbacked(market, u, a, amount, fee)
    BY <1>5, Zenon DEF BackUnbackedCall, Call
  <2>. QED
    BY <2>1, AmountsNat, BackUnbackedMoves DEF CallMoves
<1>. QED
  BY <1>1, <1>2, <1>3, <1>4, <1>5

LEMMA DebtCallMoves ==
    ASSUME Live(market), NEW u \in Users, NEW a \in Assets,
           \/ RepayCall(u, a) \/ RebalanceCall(u, a) \/ SwapCall(u, a)
           \/ CollateralCall(u, a) \/ ApproveDelegationCall(u, a)
    PROVE  CallMoves
<1>1. CASE RepayCall(u, a)
  <2>1. PICK kind \in {"sToken", "vToken"}, useBTokens \in BOOLEAN :
          \E amount \in Amounts \cup {DebtOfKind(market, kind, u, a)} :
             market' = executeRepay(market, u, u, a, amount, kind, useBTokens)
    BY <1>1, Zenon DEF RepayCall, Call
  <2>2. PICK amount \in Amounts \cup {DebtOfKind(market, kind, u, a)} :
          market' = executeRepay(market, u, u, a, amount, kind, useBTokens)
    BY <2>1, Zenon
  <2>3. amount \in Nat
    BY <2>2, AmountsNat, DebtNat
  <2>. QED
    BY <2>2, <2>3, RepayMoves DEF CallMoves
<1>2. CASE RebalanceCall(u, a)
  BY <1>2, RebalanceMoves DEF RebalanceCall, Call, CallMoves
<1>3. CASE SwapCall(u, a)
  BY <1>3, SwapMoves DEF SwapCall, Call, CallMoves
<1>4. CASE CollateralCall(u, a)
  BY <1>4, UseReserveMoves DEF CollateralCall, Call, CallMoves
<1>5. CASE ApproveDelegationCall(u, a)
  <2>1. PICK to \in Users, kind \in {"sToken", "vToken"}, amount \in Amounts :
          market' = approve(market, kind, u, to, a, amount)
    BY <1>5, Zenon DEF ApproveDelegationCall, Call
  <2>. QED
    BY <2>1, ApproveMoves DEF CallMoves
<1>. QED
  BY <1>1, <1>2, <1>3, <1>4, <1>5

LEMMA PositionCallMoves ==
    ASSUME Live(market), NEW u \in Users, NEW a \in Assets,
           TransferCall(u, a) \/ LiquidationCall(u, a)
    PROVE  CallMoves
<1>1. CASE TransferCall(u, a)
  <2>1. PICK to \in Users \ {u}, amount \in Amounts \cup {BalanceOf(market, "bToken", u, a)} :
          market' = transfer(market, u, to, a, amount)
    BY <1>1, Zenon DEF TransferCall, Call
  <2>2. amount \in Nat /\ to \in Users /\ u # to
    BY <2>1, AmountsNat, BalanceNat, UsersHold DEF Kinds
  <2>. QED
    BY <2>1, <2>2, TransferMoves DEF CallMoves
<1>2. CASE LiquidationCall(u, a)
  <2>1. PICK liquidator \in Users \ {u}, d \in Assets, fee \in Fees, receive \in BOOLEAN :
          \E covered \in {1, Debt(market, u, d)},
             seized \in {1, BalanceOf(market, "bToken", u, a) - fee} :
             /\ covered > 0 /\ seized > 0
             /\ Call(executeLiquidationCall(market, liquidator, u, a, d, covered, seized, fee,
                                            receive))
    BY <1>2, Zenon DEF LiquidationCall
  <2>2. PICK covered \in {1, Debt(market, u, d)},
             seized \in {1, BalanceOf(market, "bToken", u, a) - fee} :
             /\ covered > 0 /\ seized > 0
             /\ Call(executeLiquidationCall(market, liquidator, u, a, d, covered, seized, fee,
                                            receive))
    BY <2>1, Zenon
  <2>3. Debt(market, u, d) \in Nat /\ BalanceOf(market, "bToken", u, a) \in Nat /\ fee \in Nat
    BY WholeDebtNat, BalanceNat, UsersHold, AmountsNat DEF Kinds
  <2>4. covered \in Nat /\ seized \in Nat /\ liquidator \in Users /\ liquidator # u
    BY <2>1, <2>2, <2>3
  <2>. QED
    BY <2>2, <2>3, <2>4, LiquidationMoves DEF Call, CallMoves
<1>. QED
  BY <1>1, <1>2

LEMMA UserCallMoves ==
    ASSUME Live(market), NEW u \in Users, NEW a \in Assets,
           \/ SupplyCall(u, a) \/ WithdrawCall(u, a) \/ BorrowCall(u, a) \/ RepayCall(u, a)
           \/ RebalanceCall(u, a) \/ SwapCall(u, a) \/ CollateralCall(u, a) \/ TransferCall(u, a)
           \/ LiquidationCall(u, a) \/ MintUnbackedCall(u, a) \/ BackUnbackedCall(u, a)
           \/ ApproveDelegationCall(u, a)
    PROVE  CallMoves /\ ~market'.reverted /\ ~sealed /\ UNCHANGED <<flash, sealed>>
<1>1. CallMoves
  BY SupplyCallMoves, DebtCallMoves, PositionCallMoves
<1>2. \E next : Call(next)
  BY Zenon DEF SupplyCall, WithdrawCall, BorrowCall, RepayCall, RebalanceCall, SwapCall,
     CollateralCall, TransferCall, LiquidationCall, MintUnbackedCall, BackUnbackedCall,
     ApproveDelegationCall
<1>. QED
  BY <1>1, <1>2 DEF Call

LEMMA OtherCallMoves ==
    ASSUME Live(market),
           \/ \E u \in Users : SetUserEModeCall(u)
           \/ \E a \in Assets : MintToTreasuryCall(a)
           \/ UpdateBridgeFeeCall
    PROVE  CallMoves /\ ~market'.reverted /\ ~sealed /\ UNCHANGED <<flash, sealed>>
<1>1. CASE \E u \in Users : SetUserEModeCall(u)
  BY <1>1, LedgerAssumption, SetEModeMoves DEF SetUserEModeCall, Call, CallMoves
<1>2. CASE \E a \in Assets : MintToTreasuryCall(a)
  BY <1>2, TreasuryMintMoves DEF MintToTreasuryCall, Call, CallMoves
<1>3. CASE UpdateBridgeFeeCall
  BY <1>3, BridgeFeeMoves DEF UpdateBridgeFeeCall, Call, CallMoves
<1>. QED
  BY <1>1, <1>2, <1>3

\* Cash lent in a flash loan is missing until the loan ends.
LEMMA LoanStartMoves ==
    ASSUME Live(market), NEW u \in Users, NEW a \in Assets, FlashLoanStart(u, a)
    PROVE  /\ ~market'.reverted /\ flash = <<>> /\ ~sealed /\ UNCHANGED sealed
           /\ \E loan : /\ flash' = <<loan>> /\ IsLoan(loan) /\ loan.before = market
                        /\ \A k \in Keys :
                             Moves(market, market', k, Cash(k, loan.asset, loan.amount))
<1>1. PICK amount \in Amounts, authorised \in BOOLEAN :
        /\ flash = <<>> /\ ~sealed /\ sealed' = sealed
        /\ market' = MoveCash(market, a, -amount) /\ ~market'.reverted
        /\ flash' = <<[asset |-> a, amount |-> amount, initiator |-> u,
                       premium |-> IF authorised THEN 0 ELSE PercentMul(amount, FlashPremium),
                       before |-> market]>>
  BY Zenon DEF FlashLoanStart
<1>2. amount \in Nat /\ PercentMul(amount, FlashPremium) \in Nat
  BY AmountsNat, PercentMulNat
<1>. DEFINE loan == [asset |-> a, amount |-> amount, initiator |-> u,
                     premium |-> IF authorised THEN 0 ELSE PercentMul(amount, FlashPremium),
                     before |-> market]
<1>3. IsLoan(loan) /\ loan.asset = a /\ loan.amount = amount /\ loan.before = market
  BY <1>2 DEF IsLoan
<1>4. ASSUME NEW k \in Keys PROVE Moves(market, market', k, Cash(k, a, amount))
  <2>. DEFINE change == -amount
  <2>1. change \in Int /\ -change = amount /\ market' = MoveCash(market, a, change)
    BY <1>1, <1>2
  <2>. HIDE DEF change
  <2>2. Moves(market, market', k, Cash(k, a, -change))
    BY <2>1, CashMoves
  <2>. QED
    BY <2>1, <2>2
<1>. HIDE DEF loan
<1>. QED
  BY <1>1, <1>3, <1>4 DEF loan

LEMMA LoanEndMoves ==
    ASSUME Live(market), FlashLoanEnd, NEW loan, flash = <<loan>>, IsLoan(loan)
    PROVE  /\ ~market'.reverted /\ flash' = <<>> /\ UNCHANGED sealed
           /\ \A k \in Keys : Moves(market, market', k, Cash(k, loan.asset, -loan.amount))
<1>1. PICK l \in {flash[i] : i \in DOMAIN flash} :
        \E next \in {handleFlashLoanRepayment(market, l)}
                    \cup {KeepAsDebt(market, l, kind) : kind \in {"sToken", "vToken"}} :
           ~next.reverted /\ market' = next
  BY Zenon DEF FlashLoanEnd
<1>2. l = loan
  BY <1>1
<1>3. /\ ~market'.reverted
      /\ \/ market' = handleFlashLoanRepayment(market, loan)
         \/ \E kind \in {"sToken", "vToken"} : market' = KeepAsDebt(market, loan, kind)
  BY <1>1, <1>2, Zenon
<1>. QED
  BY <1>3, LoanRepaymentMoves, LoanKeptMoves DEF FlashLoanEnd

LEMMA AtMostItself == \A x \in Nat : x <= x
OBVIOUS

LEMMA AccrueCounts ==
    ASSUME NEW m, Counted(m), IsMarket(m), NEW u \in Holders, NEW a \in Assets, NEW q,
           q = Accrue(m.position[u, a])
    PROVE  /\ q.bToken = m.position[u, a].bToken /\ q.vToken = m.position[u, a].vToken
           /\ q.principal = m.position[u, a].principal /\ q.interest \in Nat
<1>. DEFINE p == m.position[u, a]
<1>1. DOMAIN p = {"bToken", "vToken", "principal", "interest", "collateral"}
  BY DEF IsMarket, Shaped
<1>2. p.principal \in Nat /\ p.interest \in Nat
  BY CountedPosition
<1>3. q = Accrue(p) /\ StableInterest \in Nat
  BY AmountsNat
<1>. HIDE DEF p
<1>4. /\ q.bToken = p.bToken /\ q.vToken = p.vToken /\ q.principal = p.principal
      /\ q.interest \in Nat
  <2>1. CASE p.principal > 0
    <3>1. q = [p EXCEPT !.interest = p.interest + StableInterest]
      BY <1>3, <2>1 DEF Accrue
    <3>2. p.interest + StableInterest \in Nat
      BY <1>2, <1>3
    <3>. QED
      BY <1>1, <3>1, <3>2
  <2>2. CASE ~(p.principal > 0)
    BY <1>2, <1>3, <2>2 DEF Accrue
  <2>. QED
    BY <2>1, <2>2
<1>. QED
  BY <1>4 DEF p

\* What a tick does to the numbers of a market.
LEMMA AgedCounted ==
    ASSUME NEW m, Live(m), NEW n, n.reverted = m.reverted, n.underlying = m.underlying,
           n.stableTotal = m.stableTotal, n.unbacked = m.unbacked, n.accrued = m.accrued,
           n.bridgeFee = m.bridgeFee,
           n.index \in [Kinds -> [Assets -> Nat \ {0}]], n.earning \in [Assets -> Nat],
           n.stableGrowth \in [Assets -> Int],
           \A u \in Holders, a \in Assets : n.position[u, a] = Accrue(m.position[u, a])
    PROVE  /\ Counted(n) /\ \A a \in Assets : m.accrued[a] <= n.accrued[a]
           /\ \A k \in Keys : Ledger(n, k) = Ledger(m, k)
<1>1. Counted(m) /\ IsMarket(m)
  BY DEF Live, Sound
<1>2. \A u \in Holders, a \in Assets :
        /\ n.position[u, a].bToken = m.position[u, a].bToken
        /\ n.position[u, a].vToken = m.position[u, a].vToken
        /\ n.position[u, a].principal = m.position[u, a].principal
        /\ n.position[u, a].interest \in Nat
  <2>1. ASSUME NEW u \in Holders, NEW a \in Assets
        PROVE  /\ n.position[u, a].bToken = m.position[u, a].bToken
               /\ n.position[u, a].vToken = m.position[u, a].vToken
               /\ n.position[u, a].principal = m.position[u, a].principal
               /\ n.position[u, a].interest \in Nat
    <3>. DEFINE q == Accrue(m.position[u, a])
    <3>1. n.position[u, a] = q
      BY Zenon
    <3>2. /\ q.bToken = m.position[u, a].bToken /\ q.vToken = m.position[u, a].vToken
          /\ q.principal = m.position[u, a].principal /\ q.interest \in Nat
      BY <1>1, AccrueCounts
    <3>. HIDE DEF q
    <3>. QED
      BY <3>1, <3>2, Zenon
  <2>. QED
    BY <2>1
<1>3. ASSUME NEW u \in Holders, NEW a \in Assets
      PROVE  /\ \A kind \in Kinds :
                  /\ DOMAIN n.position[u, a][kind] = {"balance", "index"}
                  /\ n.position[u, a][kind].balance \in Nat
                  /\ n.position[u, a][kind].index \in Nat
             /\ n.position[u, a].principal \in Nat /\ n.position[u, a].interest \in Nat
  <2>1. /\ n.position[u, a].bToken = m.position[u, a].bToken
        /\ n.position[u, a].vToken = m.position[u, a].vToken
        /\ n.position[u, a].principal = m.position[u, a].principal
        /\ n.position[u, a].interest \in Nat
    BY <1>2
  <2>2. \A kind \in Kinds : n.position[u, a][kind] = m.position[u, a][kind]
    BY <2>1 DEF Kinds
  <2>3. /\ \A kind \in Kinds :
             /\ DOMAIN m.position[u, a][kind] = {"balance", "index"}
             /\ m.position[u, a][kind].balance \in Nat /\ m.position[u, a][kind].index \in Nat
        /\ m.position[u, a].principal \in Nat
    BY <1>1, CountedPosition
  <2>. QED
    BY <2>1, <2>2, <2>3
<1>4. /\ m.underlying \in [Assets -> Int]
      /\ {m.stableTotal, m.unbacked} \subseteq [Assets -> Int]
      /\ m.accrued \in [Assets -> Nat] /\ m.bridgeFee \in 0..PERCENTAGE_FACTOR
  BY <1>1 DEF Counted
<1>5. Counted(n)
  BY <1>3, <1>4 DEF Counted
<1>6. \A a \in Assets : m.accrued[a] <= n.accrued[a]
  <2>1. ASSUME NEW a \in Assets PROVE m.accrued[a] <= m.accrued[a]
    <3>1. m.accrued[a] \in Nat
      BY <1>4
    <3>. QED
      BY <3>1, AtMostItself, Zenon
  <2>. QED
    BY <2>1, Zenon
<1>7. ASSUME NEW k \in Keys PROVE Ledger(n, k) = Ledger(m, k)
  <2>1. CASE k[1] = "cash" /\ k[2] \in Assets
    BY <2>1 DEF Ledger
  <2>2. CASE k[1] \in {"principal", "bToken", "vToken"} /\ k[2] \in Users /\ k[3] \in Assets
    <3>1. PICK u \in Holders, a \in Assets : k[2] = u /\ k[3] = a
      BY <2>2 DEF Holders
    <3>2. /\ n.position[u, a].bToken = m.position[u, a].bToken
          /\ n.position[u, a].vToken = m.position[u, a].vToken
          /\ n.position[u, a].principal = m.position[u, a].principal
      BY <1>2
    <3>. QED
      BY <2>2, <3>1, <3>2 DEF Ledger
  <2>. QED
    BY <2>1, <2>2, KeyCases
<1>. QED
  BY <1>5, <1>6, <1>7

LEMMA TickMoves ==
    ASSUME Live(market), Tick
    PROVE  CallMoves /\ ~market'.reverted /\ ~sealed /\ UNCHANGED <<flash, sealed>>
<1>. DEFINE stable(a) == {u \in Users : market.position[u, a].principal > 0}
            grows(a) == IF a \in {b \in Assets : \E u \in Users : Debt(market, u, b) > 0}
                        THEN 1 ELSE 0
            aged(s) == [a \in Assets |-> IF stable(a) = {} THEN market.stableGrowth[a]
                           ELSE market.stableGrowth[a]
                                  + StableInterest * Cardinality(stable(a)) - s]
<1>0. PICK earned \in 0..1, short \in 0..1 : market' =
        [market EXCEPT
            !.index = [kind \in DOMAIN @ |-> [a \in Assets |-> @[kind][a] + grows(a)]],
            !.earning = [a \in Assets |-> @[a] + earned * grows(a)],
            !.stableGrowth = aged(short),
            !.position = [p \in DOMAIN @ |-> Accrue(@[p])]]
  BY Zenon DEF Tick
<1>1. aged(short) \in [Assets -> Int]
  <2>1. ASSUME NEW a \in Assets
        PROVE  Cardinality(stable(a)) \in Nat
    <3>1. IsFiniteSet(Users)
      BY LedgerAssumption
    <3>2. stable(a) \subseteq Users
      OBVIOUS
    <3>. HIDE DEF stable
    <3>. QED
      BY <3>1, <3>2, FS_Subset, FS_CardinalityType
  <2>2. market.stableGrowth \in [Assets -> Int] /\ StableInterest \in Nat
    BY AmountsNat DEF Live, Sound, Counted
  <2>. HIDE DEF stable
  <2>3. ASSUME NEW a \in Assets
        PROVE  market.stableGrowth[a] + StableInterest * Cardinality(stable(a)) - short \in Int
    <3>. DEFINE c == Cardinality(stable(a))
    <3>1. c \in Nat
      BY <2>1
    <3>. HIDE DEF c
    <3>2. StableInterest * c \in Nat /\ short \in Int /\ market.stableGrowth[a] \in Int
      BY <2>2, <3>1
    <3>3. market.stableGrowth[a] + StableInterest * c - short \in Int
      BY <3>2
    <3>. QED
      BY <3>3 DEF c
  <2>. QED
    BY <2>2, <2>3
<1>. HIDE DEF aged, stable
<1>2. \A a \in Assets : grows(a) \in 0..1
  OBVIOUS
<1>. HIDE DEF grows
<1>. DEFINE i == [kind \in DOMAIN market.index |->
                    [a \in Assets |-> market.index[kind][a] + grows(a)]]
            g == [a \in Assets |-> market.earning[a] + earned * grows(a)]
            q == [p \in DOMAIN market.position |-> Accrue(market.position[p])]
<1>3. IsMarket(market) /\ Counted(market)
  BY DEF Live, Sound
<1>4. i \in [Kinds -> [Assets -> Nat \ {0}]]
  <2>1. market.index \in [Kinds -> [Assets -> Nat \ {0}]]
    BY <1>3 DEF Counted
  <2>2. ASSUME NEW kind \in Kinds, NEW a \in Assets
        PROVE  market.index[kind][a] + grows(a) \in Nat \ {0}
    BY <1>2, <2>1
  <2>. QED
    BY <2>1, <2>2
<1>5. g \in [Assets -> Nat]
  <2>1. market.earning \in [Assets -> Nat]
    BY <1>3 DEF Counted
  <2>2. ASSUME NEW a \in Assets PROVE market.earning[a] + earned * grows(a) \in Nat
    BY <1>2, <2>1
  <2>. QED
    BY <2>2
<1>6. \A u \in Holders, a \in Assets : q[u, a] = Accrue(market.position[u, a])
  BY <1>3 DEF IsMarket, Shaped
<1>7. market' = [market EXCEPT !.index = i, !.earning = g, !.stableGrowth = aged(short),
                               !.position = q]
  BY <1>0
<1>. HIDE DEF i, g, q
<1>8. /\ market'.index = i /\ market'.earning = g /\ market'.stableGrowth = aged(short)
      /\ market'.position = q /\ market'.reverted = market.reverted
      /\ market'.underlying = market.underlying /\ market'.stableTotal = market.stableTotal
      /\ market'.unbacked = market.unbacked /\ market'.accrued = market.accrued
      /\ market'.bridgeFee = market.bridgeFee
  BY <1>3, <1>7 DEF IsMarket, Shaped
<1>9. /\ Counted(market') /\ \A a \in Assets : market.accrued[a] <= market'.accrued[a]
      /\ \A k \in Keys : Ledger(market', k) = Ledger(market, k)
  <2>1. \A u \in Holders, a \in Assets : market'.position[u, a] = Accrue(market.position[u, a])
    BY <1>6, <1>8
  <2>2. /\ market'.index \in [Kinds -> [Assets -> Nat \ {0}]]
        /\ market'.earning \in [Assets -> Nat] /\ market'.stableGrowth \in [Assets -> Int]
    BY <1>1, <1>4, <1>5, <1>8
  <2>. QED
    BY <1>8, <2>1, <2>2, AgedCounted
<1>10. ~market'.reverted /\ ~market.reverted
  BY <1>8 DEF Live
<1>11. ASSUME NEW k \in Keys PROVE Moves(market, market', k, 0)
  <2>1. Ledger(market, k) \in Int
    BY LedgerInt
  <2>2. Ledger(market, k) = Ledger(market', k) + 0
    BY <1>9, <2>1
  <2>3. Silent(market, market') /\ market'.reverted \in BOOLEAN
    BY <1>8, TickSilent DEF Live, Sound
  <2>. QED
    BY <1>9, <1>10, <2>2, <2>3, QuietMoves
<1>. QED
  BY <1>10, <1>11, TickSilent DEF CallMoves, Tick
===============================================================================
