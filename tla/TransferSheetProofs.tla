------------------------ MODULE TransferSheetProofs ------------------------
(***************************************************************************)
(* Proofs about the sheet that sends, for any wallets, balances, reviews   *)
(* and sends, and about the most that can be sent.                         *)
(***************************************************************************)
EXTENDS TransferSheet, SequenceTheorems, FiniteSetTheorems, TLAPS

(***************************************************************************)
(* Induction over the numbers, for a set of them: the least number outside *)
(* it has a predecessor.                                                   *)
(***************************************************************************)
LEMMA LessThan == OpToRel(<, Nat) = {ss \in Nat \X Nat : ss[1] < ss[2]}
  BY Zenon DEF OpToRel

LEMMA LeastNatural ==
    ASSUME NEW T, T \subseteq Nat, T # {}
    PROVE  \E m \in T : \A k \in T : m <= k
<1> DEFINE R == {ss \in Nat \X Nat : ss[1] < ss[2]}
<1>1. IsWellFoundedOn(R, Nat)
  BY NatLessThanWellFounded, LessThan, Zenon
<1>2. \E x \in T : \A y \in T : ~ (<<y, x>> \in R)
  BY <1>1, WFMin
<1>3. \A x, y \in Nat : y < x => <<y, x>> \in R
  BY DEF R
<1> HIDE DEF R
<1>4. PICK x \in T : \A y \in T : ~ (<<y, x>> \in R)
  BY <1>2
<1>5. \A y \in T : ~ (y < x)
  BY <1>3, <1>4
<1> QED
  BY <1>4, <1>5

LEMMA SetInduction ==
    ASSUME NEW T, 0 \in T, \A n \in Nat : n \in T => n + 1 \in T
    PROVE  Nat \subseteq T
<1> SUFFICES ASSUME Nat \ T # {} PROVE FALSE
  OBVIOUS
<1>1. PICK m \in Nat \ T : \A k \in Nat \ T : m <= k
  BY LeastNatural
<1>2. m # 0 /\ m - 1 \in Nat
  BY <1>1
<1>3. m - 1 \in T
  BY <1>1, <1>2
<1>4. (m - 1) + 1 \in T
  BY <1>2, <1>3
<1> QED
  BY <1>1, <1>2, <1>4

\* A function starts with a value and goes on by a step.
Follows(f, first, step) == f[0] = first /\ \A n \in Nat : f[n + 1] = step[n][f[n]]

(***************************************************************************)
(* A function on the numbers may be defined by its first value and a step. *)
(***************************************************************************)
LEMMA Recursion ==
    ASSUME NEW S, NEW first \in S, NEW step \in [Nat -> [S -> S]]
    PROVE  \E f \in [Nat -> S] : Follows(f, first, step)
<1> DEFINE Fits(n, f) == /\ f \in [0..n -> S] /\ f[0] = first
                         /\ \A k \in 0..n - 1 : f[k + 1] = step[k][f[k]]
           T == {n \in Nat : \E f : Fits(n, f)}
<1>1. 0 \in T
  <2> DEFINE f == [k \in 0..0 |-> first]
  <2>1. Fits(0, f)
    OBVIOUS
  <2> QED
    BY <2>1
<1>2. ASSUME NEW n \in Nat, n \in T PROVE n + 1 \in T
  <2>1. PICK f : Fits(n, f)
    BY <1>2
  <2> DEFINE g == [k \in 0..n + 1 |-> IF k = n + 1 THEN step[n][f[n]] ELSE f[k]]
  <2>2. step[n][f[n]] \in S
    BY <2>1
  <2>3. g \in [0..n + 1 -> S] /\ g[0] = first
    BY <2>1, <2>2
  <2>4. ASSUME NEW k \in 0..n PROVE g[k + 1] = step[k][g[k]]
    BY <2>1
  <2>5. (n + 1) - 1 = n
    OBVIOUS
  <2> HIDE DEF g
  <2>6. Fits(n + 1, g)
    BY <2>3, <2>4, <2>5
  <2> HIDE DEF Fits
  <2> QED
    BY <2>6
<1>3. Nat \subseteq T
  <2> HIDE DEF T
  <2> QED
    BY <1>1, <1>2, SetInduction
<1> DEFINE some(n) == CHOOSE f : Fits(n, f)
<1>4. ASSUME NEW n \in Nat PROVE Fits(n, some(n))
  <2> HIDE DEF Fits
  <2>1. \E f : Fits(n, f)
    BY <1>3
  <2> QED
    BY <2>1, Zenon
<1>5. ASSUME NEW n \in Nat PROVE some(n)[n] = some(n + 1)[n]
  <2> DEFINE U == {k \in Nat : k <= n => some(n)[k] = some(n + 1)[k]}
  <2> HIDE DEF some
  <2>1. Fits(n, some(n)) /\ Fits(n + 1, some(n + 1))
    BY <1>4
  <2>2. 0 \in U
    BY <2>1
  <2>3. ASSUME NEW k \in Nat, k \in U PROVE k + 1 \in U
    BY <2>1, <2>3
  <2> HIDE DEF Fits, U
  <2>4. Nat \subseteq U
    BY <2>2, <2>3, SetInduction
  <2> QED
    BY <2>4 DEF U
<1> DEFINE f == [n \in Nat |-> some(n)[n]]
<1> HIDE DEF some
<1>6. f \in [Nat -> S] /\ f[0] = first
  BY <1>4
<1>7. ASSUME NEW n \in Nat PROVE f[n + 1] = step[n][f[n]]
  <2>1. f[n + 1] = some(n + 1)[n + 1] /\ f[n] = some(n + 1)[n]
    BY <1>5
  <2>2. Fits(n + 1, some(n + 1))
    BY <1>4
  <2> QED
    BY <2>1, <2>2
<1> HIDE DEF f
<1> QED
  BY <1>6, <1>7 DEF Follows

\* The powers of ten are what their recursion says.
LEMMA PowersOfTen ==
    /\ TenTo \in [Nat -> Nat]
    /\ TenTo[0] = 1
    /\ \A n \in Nat : TenTo[n + 1] = 10 * TenTo[n] /\ TenTo[n] > 0
<1> DEFINE step == [n \in Nat |-> [m \in Nat |-> 10 * m]]
           Equation(f) == f = [n \in Nat |-> IF n = 0 THEN 1 ELSE 10 * f[n - 1]]
<1>1. step \in [Nat -> [Nat -> Nat]]
  OBVIOUS
<1>2. PICK f \in [Nat -> Nat] : Follows(f, 1, step)
  BY <1>1, Recursion
<1>3. ASSUME NEW n \in Nat \ {0} PROVE f[n] = 10 * f[n - 1]
  <2>1. n - 1 \in Nat /\ f[n - 1] \in Nat
    OBVIOUS
  <2>2. f[(n - 1) + 1] = step[n - 1][f[n - 1]]
    BY <1>2, <2>1 DEF Follows
  <2> QED
    BY <2>1, <2>2
<1>4. Equation(f)
  BY <1>2, <1>3 DEF Follows
<1>5. Equation(TenTo)
  <2>1. TenTo = CHOOSE g : Equation(g)
    BY DEF TenTo
  <2> HIDE DEF Equation
  <2> QED
    BY <1>4, <2>1, Zenon
<1>6. TenTo[0] = 1 /\ \A n \in Nat : TenTo[n + 1] = 10 * TenTo[n]
  BY <1>5
<1> DEFINE T == {n \in Nat : TenTo[n] \in Nat /\ TenTo[n] > 0}
<1>7. Nat \subseteq T
  <2>1. 0 \in T
    BY <1>6
  <2>2. ASSUME NEW n \in Nat, n \in T PROVE n + 1 \in T
    BY <1>6, <2>2
  <2> HIDE DEF T
  <2> QED
    BY <2>1, <2>2, SetInduction
<1>8. DOMAIN TenTo = Nat /\ TenTo = [n \in Nat |-> TenTo[n]]
  BY <1>5
<1> QED
  BY <1>6, <1>7, <1>8

(***************************************************************************)
(* What is read of any digits, after each of them.                         *)
(***************************************************************************)
LEMMA DigitsStep ==
    ASSUME NEW places \in Nat, NEW digits \in [1..places -> Nat]
    PROVE  /\ Read(digits, places) \in [0..places -> Nat]
           /\ Read(digits, places)[0] = 0
           /\ \A n \in 1..places :
                Read(digits, places)[n] = 10 * Read(digits, places)[n - 1] + digits[n]
<1> DEFINE step == [n \in Nat |-> [m \in Nat |->
                       10 * m + IF n + 1 \in 1..places THEN digits[n + 1] ELSE 0]]
           Equation(f) == f = [n \in 0..places |-> IF n = 0 THEN 0
                                                   ELSE 10 * f[n - 1] + digits[n]]
<1>1. step \in [Nat -> [Nat -> Nat]]
  OBVIOUS
<1>2. PICK f \in [Nat -> Nat] : Follows(f, 0, step)
  BY <1>1, Recursion
<1> DEFINE g == [n \in 0..places |-> f[n]]
<1>3. ASSUME NEW n \in 1..places PROVE f[n] = 10 * f[n - 1] + digits[n]
  <2>1. n - 1 \in Nat /\ f[n - 1] \in Nat /\ (n - 1) + 1 = n
    OBVIOUS
  <2>2. f[(n - 1) + 1] = step[n - 1][f[n - 1]]
    BY <1>2, <2>1 DEF Follows
  <2> QED
    BY <2>1, <2>2
<1>4. Equation(g)
  BY <1>2, <1>3 DEF Follows
<1> DEFINE number == Read(digits, places)
<1>5. Equation(number)
  <2>1. number = CHOOSE h : Equation(h)
    BY DEF Read
  <2> HIDE DEF Equation, number, g
  <2> QED
    BY <1>4, <2>1, Zenon
<1> HIDE DEF number
<1>6. number[0] = 0 /\ \A n \in 1..places : number[n] = 10 * number[n - 1] + digits[n]
  <2>1. DOMAIN number = 0..places
    BY <1>5
  <2>2. ASSUME NEW n \in 0..places
        PROVE  number[n] = IF n = 0 THEN 0 ELSE 10 * number[n - 1] + digits[n]
    BY <1>5
  <2>3. 0 \in 0..places /\ \A n \in 1..places : n \in 0..places /\ n # 0
    OBVIOUS
  <2> QED
    BY <2>2, <2>3
<1> DEFINE T == {n \in Nat : n <= places => number[n] \in Nat}
<1>7. Nat \subseteq T
  <2>1. 0 \in T
    BY <1>6
  <2>2. ASSUME NEW n \in Nat, n \in T PROVE n + 1 \in T
    <3> SUFFICES ASSUME n + 1 <= places PROVE number[n + 1] \in Nat
      OBVIOUS
    <3>1. n + 1 \in 1..places /\ (n + 1) - 1 = n /\ number[n] \in Nat
      BY <2>2
    <3>2. number[n + 1] = 10 * number[n] + digits[n + 1]
      BY <1>6, <3>1
    <3>3. digits[n + 1] \in Nat
      BY <3>1
    <3> DEFINE so == number[n]
               next == digits[n + 1]
    <3> HIDE DEF so, next
    <3>4. so \in Nat /\ next \in Nat /\ number[n + 1] = 10 * so + next
      BY <3>1, <3>2, <3>3 DEF so, next
    <3>5. 10 * so + next \in Nat
      BY <3>4
    <3> QED
      BY <3>4, <3>5
  <2> HIDE DEF T
  <2> QED
    BY <2>1, <2>2, SetInduction
<1>8. number \in [0..places -> Nat]
  <2>1. DOMAIN number = 0..places /\ number = [n \in 0..places |-> number[n]]
    BY <1>5
  <2>2. \A n \in 0..places : number[n] \in Nat
    BY <1>7
  <2> QED
    BY <2>1, <2>2
<1> QED
  BY <1>6, <1>8 DEF number

(***************************************************************************)
(* The first digits of a number make what is left of it without the rest.  *)
(***************************************************************************)
LEMMA DigitsRead ==
    ASSUME NEW places \in Nat, NEW n \in Nat, n < TenTo[places]
    PROVE  /\ Digits(n, places) \in [1..places -> 0..9]
           /\ Read(Digits(n, places), places)[places] = n
<1> DEFINE digits == Digits(n, places)
           number == Read(digits, places)
<1>1. ASSUME NEW i \in 1..places PROVE digits[i] = (n \div TenTo[places - i]) % 10
  BY DEF Digits
<1>2. ASSUME NEW m \in Nat PROVE TenTo[m] \in Nat /\ TenTo[m] > 0
  BY PowersOfTen
<1>3. digits \in [1..places -> 0..9]
  <2>1. ASSUME NEW i \in 1..places PROVE digits[i] \in 0..9
    <3>1. places - i \in Nat
      OBVIOUS
    <3> DEFINE m == TenTo[places - i]
    <3>2. m \in Nat /\ m > 0
      BY <1>2, <3>1
    <3> HIDE DEF m
    <3>3. n \div m \in Nat
      BY <3>2
    <3> QED
      BY <1>1, <3>3 DEF m
  <2> QED
    BY <2>1 DEF Digits
<1> HIDE DEF digits
<1>4. /\ number \in [0..places -> Nat] /\ number[0] = 0
      /\ \A i \in 1..places : number[i] = 10 * number[i - 1] + digits[i]
  <2>1. digits \in [1..places -> Nat]
    BY <1>3
  <2> QED
    BY <2>1, DigitsStep
<1> HIDE DEF number
<1> DEFINE T == {i \in Nat : i <= places => number[i] = n \div TenTo[places - i]}
<1>5. 0 \in T
  <2>1. n \div TenTo[places] = 0
    BY <1>2
  <2> QED
    BY <1>4, <2>1
<1>6. ASSUME NEW i \in Nat, i \in T PROVE i + 1 \in T
  <2> SUFFICES ASSUME i + 1 <= places
               PROVE  number[i + 1] = n \div TenTo[places - (i + 1)]
    OBVIOUS
  <2> DEFINE m == TenTo[places - (i + 1)]
  <2>1. places - (i + 1) \in Nat /\ (places - (i + 1)) + 1 = places - i
    OBVIOUS
  <2>2. m \in Nat /\ m > 0 /\ TenTo[places - i] = 10 * m
    BY <2>1, PowersOfTen
  <2>3. number[i] = n \div (10 * m)
    BY <1>6, <2>2
  <2>4. i + 1 \in 1..places /\ (i + 1) - 1 = i
    OBVIOUS
  <2>5. number[i + 1] = 10 * number[i] + ((n \div m) % 10)
    <3>1. digits[i + 1] = (n \div m) % 10
      BY <1>1, <2>4
    <3>2. number[i + 1] = 10 * number[i] + digits[i + 1]
      BY <1>4, <2>4
    <3> QED
      BY <3>1, <3>2
  <2> HIDE DEF m
  <2> DEFINE q == n \div m
  <2>6. q \in Nat
    BY <2>2
  <2>7. n \div (10 * m) = q \div 10
    BY <2>2
  <2> HIDE DEF q
  <2>8. 10 * (q \div 10) + (q % 10) = q
    BY <2>6
  <2>9. number[i + 1] = q
    BY <2>3, <2>5, <2>7, <2>8 DEF q
  <2> QED
    BY <2>9 DEF q, m
<1>7. places \in T
  <2> HIDE DEF T
  <2> QED
    BY <1>5, <1>6, SetInduction
<1>8. number[places] = n \div TenTo[places - places]
  BY <1>7
<1>9. TenTo[places - places] = 1
  <2>1. places - places = 0
    OBVIOUS
  <2> QED
    BY <2>1, PowersOfTen
<1>10. number[places] = n
  BY <1>8, <1>9
<1> QED
  BY <1>3, <1>10 DEF number, digits

\* What is read of a text is an amount, or none.
LEMMA RawType ==
    ASSUME NEW text \in Text, NEW decimals \in Nat
    PROVE  UiAmountToRaw(text, decimals) \in Nat \cup {NoAmount}
<1> DEFINE digits == PadEnd(text.frac, decimals)
           frac == Read(digits, decimals)[decimals]
           base == TenTo[decimals]
<1>1. text.whole \in Nat /\ text.frac \in Seq(0..9)
  BY DEF Text
<1>2. digits \in [1..decimals -> Nat]
  <2>1. \A i \in DOMAIN text.frac : text.frac[i] \in Nat
    BY <1>1
  <2> QED
    BY <2>1 DEF PadEnd
<1> HIDE DEF digits
<1>3. frac \in Nat
  <2>1. Read(digits, decimals) \in [0..decimals -> Nat]
    BY <1>2, DigitsStep
  <2> QED
    BY <2>1
<1>4. base \in Nat
  BY PowersOfTen
<1> HIDE DEF frac, base
<1>5. text.whole * base + frac \in Nat
  BY <1>1, <1>3, <1>4
<1> QED
  BY <1>5 DEF UiAmountToRaw, frac, base, digits

(***************************************************************************)
(* For every amount and number of decimals: its text is read back as that  *)
(* amount, and as none only if it is zero (formatTokenAmount and           *)
(* uiAmountToRaw are each other's inverse).                                *)
(***************************************************************************)
THEOREM AmountsReadBack ==
    ASSUME NEW raw \in Nat, NEW decimals \in Nat
    PROVE  /\ FormatTokenAmount(raw, decimals) \in Text
           /\ UiAmountToRaw(FormatTokenAmount(raw, decimals), decimals) =
                IF raw = 0 THEN NoAmount ELSE raw
<1> DEFINE base == TenTo[decimals]
           rest == raw % base
           digits == Digits(rest, decimals)
           last == Significant(digits, decimals)
           text == FormatTokenAmount(raw, decimals)
<1>1. base \in Nat /\ base > 0
  BY PowersOfTen
<1>2. rest \in Nat /\ rest < base /\ raw \div base \in Nat /\ (raw \div base) * base + rest = raw
  <2> HIDE DEF base
  <2> QED
    BY <1>1
<1>3. digits \in [1..decimals -> 0..9] /\ Read(digits, decimals)[decimals] = rest
  <2> HIDE DEF rest
  <2> QED
    BY <1>2, DigitsRead
<1>4. text = [whole |-> raw \div base, frac |-> SubSeq(digits, 1, last)]
  BY DEF FormatTokenAmount
<1> HIDE DEF base, rest, digits, text
<1> DEFINE Zeros(k) == \A i \in k + 1 .. decimals : digits[i] = 0
           Ends(k) == (k = 0 \/ digits[k] # 0) /\ Zeros(k)
<1>5. last \in 0..decimals /\ Zeros(last)
  <2> DEFINE T == {k \in 0..decimals : Zeros(k)}
  <2>1. decimals \in T
    OBVIOUS
  <2>2. PICK k \in T : \A j \in T : k <= j
    <3> HIDE DEF Zeros
    <3>1. T \subseteq Nat /\ T # {}
      BY <2>1
    <3> HIDE DEF T
    <3> QED
      BY <3>1, LeastNatural
  <2>3. Ends(k)
    <3> SUFFICES ASSUME k # 0, digits[k] = 0 PROVE FALSE
      BY <2>2
    <3>1. k - 1 \in 0..decimals /\ (k - 1) + 1 = k
      BY <2>2
    <3>2. Zeros(k - 1)
      <4> SUFFICES ASSUME NEW i \in (k - 1) + 1 .. decimals PROVE digits[i] = 0
        OBVIOUS
      <4>1. i = k \/ i \in k + 1 .. decimals
        BY <3>1
      <4> QED
        BY <2>2, <4>1
    <3> QED
      BY <2>2, <3>1, <3>2
  <2>4. last = CHOOSE j \in 0..decimals : Ends(j)
    BY DEF Significant
  <2>5. last \in 0..decimals /\ Ends(last)
    <3> HIDE DEF Ends, last
    <3>1. k \in 0..decimals
      BY <2>2
    <3> QED
      BY <2>3, <2>4, <3>1, Zenon
  <2> QED
    BY <2>5
<1> HIDE DEF last
<1> DEFINE frac == SubSeq(digits, 1, last)
<1>6. frac \in Seq(0..9) /\ Len(frac) = last /\ \A i \in 1..last : frac[i] = digits[i]
  <2>1. \A i \in 1..last : digits[i] \in 0..9
    BY <1>3, <1>5
  <2>2. /\ frac \in Seq(0..9)
        /\ Len(frac) = IF 1 <= last THEN last - 1 + 1 ELSE 0
        /\ \A i \in 1 .. last - 1 + 1 : frac[i] = digits[1 + i - 1]
    BY <1>5, <2>1, SubSeqProperties
  <2>3. last - 1 + 1 = last /\ last \in Nat
    BY <1>5
  <2> HIDE DEF frac
  <2>4. \A i \in 1..last : 1 + i - 1 = i
    OBVIOUS
  <2> QED
    BY <2>2, <2>3, <2>4
<1> HIDE DEF frac
<1>7. PadEnd(frac, decimals) = digits
  <2>1. DOMAIN frac = 1..last
    BY <1>6
  <2>2. ASSUME NEW i \in 1..decimals
        PROVE  digits[i] = IF i \in DOMAIN frac THEN frac[i] ELSE 0
    <3>1. i \in 1..last \/ i \in last + 1 .. decimals
      BY <1>5
    <3> QED
      BY <1>5, <1>6, <2>1, <3>1
  <2>3. digits = [i \in 1..decimals |-> digits[i]]
    BY <1>3
  <2> QED
    BY <2>2, <2>3 DEF PadEnd
<1>8. text.whole = raw \div base /\ text.frac = frac /\ text \in Text
  BY <1>2, <1>4, <1>6 DEF Text, frac
<1>9. text.whole * base + Read(PadEnd(text.frac, decimals), decimals)[decimals] = raw
  BY <1>2, <1>3, <1>7, <1>8
<1>10. Len(text.frac) <= decimals
  BY <1>5, <1>6, <1>8
<1>11. UiAmountToRaw(text, decimals) = IF raw = 0 THEN NoAmount ELSE raw
  BY <1>5, <1>9, <1>10, <1>6, <1>8 DEF UiAmountToRaw, base
<1> QED
  BY <1>8, <1>11 DEF text

\* A request to send to somebody who has an account for the asset.
Asked(owner, asset, recipient, amount) ==
    [owner |-> owner, asset |-> asset, recipient |-> recipient, amount |-> amount,
     openAccount |-> FALSE]

(***************************************************************************)
(* For every balance and fee: what can be sent of SOL to somebody who has  *)
(* an account is what MaxSendable says, and nothing else.                  *)
(***************************************************************************)
THEOREM MostOfSol ==
    ASSUME NEW held, held.lamports \in Nat,
           NEW owner, NEW recipient, owner # recipient,
           NEW amount \in Nat, NEW recipientLamports \in Nat \ {0}
    PROVE  TransferProblem(Asked(owner, Sol, recipient, amount), held, recipientLamports) = "none"
             <=> amount \in 1 .. MaxSendable(held, Sol, FALSE)
<1> DEFINE request == Asked(owner, Sol, recipient, amount)
           fee == TransferFeeLamports
<1>1. fee \in Nat /\ SystemAccountRent \in Nat \ {0}
  BY CostAssumption DEF TransferFeeLamports, NetworkFeeLamports
<1> HIDE DEF fee
<1>2. Left(request, held) = held.lamports - (amount + fee)
  BY <1>1 DEF Left, TransferCost, RentToOpen, Sol, Asked, fee
<1>3. Reserved(FALSE) = fee + SystemAccountRent
  BY <1>1 DEF Reserved, RentToOpen, fee
<1>4. TransferProblem(request, held, recipientLamports) = "none"
        <=> amount > 0 /\ held.lamports - (amount + fee) >= SystemAccountRent
  BY <1>1, <1>2 DEF TransferProblem, Sol, Asked
<1>5. MaxSendable(held, Sol, FALSE) =
        IF held.lamports > fee + SystemAccountRent
        THEN held.lamports - (fee + SystemAccountRent) ELSE 0
  BY <1>3 DEF MaxSendable, Sol
<1> DEFINE lamports == held.lamports
           most == MaxSendable(held, Sol, FALSE)
<1>6. lamports \in Nat /\ most = IF lamports > fee + SystemAccountRent
                                THEN lamports - (fee + SystemAccountRent) ELSE 0
  BY <1>5
<1> HIDE DEF lamports, most
<1>7. amount \in 1 .. most
        <=> amount > 0 /\ lamports - (amount + fee) >= SystemAccountRent
  BY <1>1, <1>6
<1> QED
  BY <1>4, <1>7 DEF lamports, most

(***************************************************************************)
(* For every balance: what can be sent of a token to somebody who has an   *)
(* account for it is any part of it, if the fee can be paid.               *)
(***************************************************************************)
THEOREM MostOfToken ==
    ASSUME NEW held, held.lamports \in Nat,
           NEW owner, NEW recipient, owner # recipient,
           NEW asset, asset.kind = "token", ~asset.frozen, asset.amount \in Nat,
           NEW amount \in Nat, NEW recipientLamports \in Nat
    PROVE  TransferProblem(Asked(owner, asset, recipient, amount), held, recipientLamports)
               = "none"
             <=> amount \in 1 .. MaxSendable(held, asset, FALSE) /\ ~NeedsSolForFees(held)
<1> DEFINE request == Asked(owner, asset, recipient, amount)
           fee == TransferFeeLamports
<1>1. fee \in Nat /\ SystemAccountRent \in Nat \ {0}
  BY CostAssumption DEF TransferFeeLamports, NetworkFeeLamports
<1> HIDE DEF fee
<1>2. Left(request, held) = held.lamports - fee
  BY <1>1 DEF Left, TransferCost, RentToOpen, Asked, fee
<1>3. TransferProblem(request, held, recipientLamports) = "none"
        <=> /\ amount > 0 /\ amount <= asset.amount
            /\ held.lamports - fee >= SystemAccountRent
  BY <1>1, <1>2 DEF TransferProblem, Asked
<1> QED
  BY <1>1, <1>3 DEF MaxSendable, NeedsSolForFees, fee

-----------------------------------------------------------------------------
(***************************************************************************)
(* Sequences of anything: what is appended or changed leaves the rest.     *)
(***************************************************************************)
LEMMA SequenceDomain ==
    ASSUME NEW s, IsSequence(s)
    PROVE  Len(s) \in Nat /\ DOMAIN s = 1 .. Len(s)
BY LenProperties DEF IsSequence

LEMMA RangeIsEnough ==
    ASSUME NEW S, NEW s \in Seq(S)
    PROVE  IsSequence(s)
<1> DEFINE T == {s[i] : i \in DOMAIN s}
<1>1. Len(s) \in Nat /\ s \in [1 .. Len(s) -> S]
  BY LenProperties
<1>2. s \in [1 .. Len(s) -> T]
  BY <1>1
<1>3. s \in Seq(T)
  BY <1>1, <1>2, SeqDef
<1> QED
  BY <1>3 DEF IsSequence

LEMMA AppendKeeps ==
    ASSUME NEW s, IsSequence(s), NEW e
    PROVE  LET t == Append(s, e)
           IN /\ IsSequence(t)
              /\ Len(t) = Len(s) + 1 /\ DOMAIN t = 1 .. (Len(s) + 1)
              /\ \A i \in DOMAIN s : t[i] = s[i]
              /\ t[Len(s) + 1] = e
<1> DEFINE S == {s[i] : i \in DOMAIN s}
           t == Append(s, e)
<1>1. s \in Seq(S \cup {e})
  BY SeqMonotonic DEF IsSequence
<1>2. /\ t \in Seq(S \cup {e})
      /\ Len(t) = Len(s) + 1
      /\ \A i \in 1 .. Len(s) : t[i] = s[i]
      /\ t[Len(s) + 1] = e
  BY <1>1, AppendProperties
<1> HIDE DEF S, t
<1>3. DOMAIN t = 1 .. Len(t) /\ IsSequence(t)
  BY <1>2, LenProperties, RangeIsEnough
<1> QED
  BY <1>2, <1>3, SequenceDomain DEF t

LEMMA ChangeKeeps ==
    ASSUME NEW s, IsSequence(s), NEW i \in DOMAIN s, NEW e
    PROVE  LET t == [s EXCEPT ![i] = e]
           IN /\ IsSequence(t)
              /\ DOMAIN t = DOMAIN s
              /\ \A j \in DOMAIN s : t[j] = IF j = i THEN e ELSE s[j]
<1> DEFINE S == {s[j] : j \in DOMAIN s} \cup {e}
           t == [s EXCEPT ![i] = e]
<1>1. s \in Seq(S)
  BY SeqMonotonic DEF IsSequence
<1>2. i \in 1 .. Len(s)
  BY SequenceDomain
<1>3. t \in Seq(S)
  BY <1>1, <1>2, ExceptSeq
<1> HIDE DEF S
<1> QED
  BY <1>3, RangeIsEnough

-----------------------------------------------------------------------------
LEMMA OneThenOne ==
    ASSUME NEW a, NEW b
    PROVE  <<a>> \o <<b>> = <<a, b>> /\ <<>> \o <<b>> = <<b>>
<1>1. /\ <<a>> \in Seq({a, b}) /\ <<b>> \in Seq({a, b}) /\ <<a, b>> \in Seq({a, b})
      /\ Len(<<a>>) = 1 /\ Len(<<b>>) = 1 /\ Len(<<a, b>>) = 2
      /\ <<a>>[1] = a /\ <<b>>[1] = b /\ <<a, b>>[1] = a /\ <<a, b>>[2] = b
  OBVIOUS
<1> DEFINE both == <<a>> \o <<b>>
<1>2. both \in Seq({a, b}) /\ Len(both) = 2 /\ both[1] = a /\ both[2] = b
  BY <1>1, ConcatProperties
<1>3. \A i \in 1 .. 2 : both[i] = <<a, b>>[i]
  BY <1>1, <1>2
<1> HIDE DEF both
<1>4. both = <<a, b>>
  BY <1>1, <1>2, <1>3, SeqEqual
<1>5. <<>> \o <<b>> = <<b>>
  BY <1>1, ConcatEmptySeq
<1> QED
  BY <1>4, <1>5 DEF both

(***************************************************************************)
(* A transaction that is intact makes the payment the page asked for.      *)
(***************************************************************************)
LEMMA OnePayment ==
    ASSUME NEW tx, NEW request, NEW signer,
           AssertTransferIntact(tx, TransferInstructions(request), request.owner),
           tx.signers \cup {tx.feePayer} = {signer}
    PROVE  PaysAsShown(tx, ShownFor(request))
<1> DEFINE expected == TransferInstructions(request)
           calls == tx.calls
           open == OpenAccount(request.owner, request.recipient)
           pay == Pay(request.owner, request.recipient, request.amount)
           token == TransferToken(request.asset.account, request.owner, request.recipient,
                                  request.amount)
           payment == IF request.asset.kind = "sol" THEN pay ELSE token
<1>1. tx.feePayer = request.owner /\ tx.signers = {request.owner}
  <2>1. Cardinality(tx.signers) = 1 /\ tx.feePayer = request.owner
    BY DEF AssertTransferIntact
  <2>2. tx.signers # {}
    BY <2>1, FS_EmptySet
  <2> QED
    BY <2>1, <2>2
<1>2. /\ payment.call \in {"pay", "token"} /\ open.call = "open"
      /\ payment.call = "pay" <=> request.asset.kind = "sol"
      /\ payment.from = request.owner \/ payment.call = "token"
      /\ payment.to = request.recipient /\ payment.amount = request.amount
  BY DEF Pay, TransferToken, OpenAccount
<1> HIDE DEF open, pay, token
<1>3. \/ expected = <<payment>>
      \/ expected = <<open, payment>>
  <2>1. CASE request.asset.kind = "sol"
    BY <2>1 DEF TransferInstructions, pay
  <2>2. CASE request.asset.kind # "sol" /\ request.openAccount
    <3>1. expected = <<open>> \o <<payment>>
      BY <2>2 DEF TransferInstructions, open, token
    <3> QED
      BY <3>1, OneThenOne
  <2>3. CASE request.asset.kind # "sol" /\ ~request.openAccount
    <3>1. expected = <<>> \o <<payment>>
      BY <2>3 DEF TransferInstructions, token
    <3> QED
      BY <3>1, OneThenOne
  <2> QED
    BY <2>1, <2>2, <2>3
<1>4. PICK place \in Matching(calls, expected) :
         \A i \in DOMAIN calls : calls[i] # Guard => \E n \in DOMAIN expected : place[n] = i
  BY DEF AssertTransferIntact
<1>5. place \in [DOMAIN expected -> DOMAIN calls]
      /\ \A n \in DOMAIN expected : calls[place[n]] = expected[n]
  BY <1>4 DEF Matching
<1>6. PICK last \in DOMAIN expected :
         /\ expected[last] = payment
         /\ \A n \in DOMAIN expected : n = last \/ expected[n] = open
  <2>1. CASE expected = <<payment>>
    BY <2>1
  <2>2. CASE expected = <<open, payment>>
    <3>1. DOMAIN expected = {1, 2} /\ expected[1] = open /\ expected[2] = payment
      BY <2>2
    <3> QED
      BY <3>1
  <2> QED
    BY <1>3, <2>1, <2>2
<1>7. place[last] \in DOMAIN calls /\ calls[place[last]] = payment
  BY <1>5, <1>6
<1>8. ASSUME NEW m \in DOMAIN calls, calls[m].call \in {"pay", "token"}
      PROVE  m = place[last]
  <2>1. calls[m] # Guard
    BY <1>8 DEF Guard
  <2>2. PICK n \in DOMAIN expected : place[n] = m
    BY <1>4, <2>1
  <2> QED
    BY <1>2, <1>5, <1>6, <1>8, <2>2
<1> HIDE DEF calls, payment, expected
<1>9. {m \in DOMAIN calls : calls[m].call \in {"pay", "token"}} = {place[last]}
  BY <1>2, <1>7, <1>8
<1> DEFINE shown == ShownFor(request)
<1>10. /\ shown.payer = request.owner /\ shown.recipient = request.recipient
       /\ shown.amount = request.amount /\ shown.asset = request.asset.kind
  BY DEF ShownFor
<1> HIDE DEF shown
<1>11. PaysAsShown(tx, shown)
  BY <1>1, <1>2, <1>7, <1>9, <1>10 DEF PaysAsShown, calls
<1> QED
  BY <1>11 DEF shown

-----------------------------------------------------------------------------
(* The form. *)

LEMMA RawFits ==
    ASSUME NEW s, NEW t, s.amount = t.amount, s.chosen = t.chosen
    PROVE  Raw(s) = Raw(t)
BY DEF Raw, Current, Decimals

SheetFields == {"open", "choosing", "chosen", "recipient", "amount", "plan", "busy", "failed"}

(***************************************************************************)
(* Handlers of the form leave a plan as it is or drop it.                  *)
(***************************************************************************)
LEMMA FormStep ==
    ASSUME Inv, UNCHANGED <<wallet, work, sent, reviews, pressed, told>>,
           DOMAIN sheet' = SheetFields, sheet'.busy = sheet.busy,
           sheet'.plan \in {None, sheet.plan}, FormFits'
    PROVE  Inv'
<1>1. TypeOK' /\ SentAsShown' /\ AgainOnlyIfFailed'
  BY DEF Inv, TypeOK, SentAsShown, AgainOnlyIfFailed, SheetFields
<1>2. SendFits'
  BY DEF Inv, SendFits
<1>3. PlansNumbered' /\ SentIsSpent'
  BY DEF Inv, PlansNumbered, SentIsSpent
<1> QED
  BY <1>1, <1>2, <1>3 DEF Inv

LEMMA EditStep ==
    ASSUME Inv, Editable, NEW recipient, NEW amount, sheet' = Edited(sheet, recipient, amount),
           UNCHANGED <<wallet, work, sent, reviews, pressed, told>>
    PROVE  Inv'
<1>1. DOMAIN sheet = SheetFields /\ sheet.busy = "none" /\ sheet.open
  BY DEF Inv, TypeOK, SheetFields, Editable
<1>2. /\ DOMAIN sheet' = SheetFields
      /\ sheet'.open = sheet.open /\ sheet'.chosen = sheet.chosen /\ sheet'.busy = sheet.busy
      /\ sheet'.plan \in {None, sheet.plan}
      /\ sheet'.plan # None => /\ sheet'.recipient = sheet.recipient
                               /\ sheet'.amount = sheet.amount
  BY <1>1 DEF Edited, SheetFields
<1>3. sheet'.plan # None => Raw(sheet)' = Raw(sheet)
  BY <1>2, RawFits
<1>4. FormFits'
  BY <1>1, <1>2, <1>3 DEF Inv, FormFits
<1> QED
  BY <1>2, <1>4, FormStep

LEMMA OpenStep ==
    ASSUME Inv, OpenSheet
    PROVE  Inv'
<1>1. PICK asset : sheet' = [sheet EXCEPT !.open = TRUE, !.choosing = (asset = NoAsset),
                                          !.chosen = asset]
  BY DEF OpenSheet
<1>2. ~sheet.open /\ UNCHANGED <<wallet, work, sent, reviews, pressed, told>>
  BY DEF OpenSheet, walletVars, sendVars
<1>3. /\ DOMAIN sheet' = SheetFields
      /\ sheet'.open /\ sheet'.recipient = sheet.recipient /\ sheet'.busy = sheet.busy
      /\ sheet'.plan = sheet.plan
  BY <1>1 DEF Inv, TypeOK, SheetFields
<1>4. FormFits'
  BY <1>2, <1>3 DEF Inv, FormFits
<1> QED
  BY <1>2, <1>3, <1>4, FormStep

LEMMA CloseStep ==
    ASSUME Inv, CloseSheet
    PROVE  Inv'
<1>1. sheet' = Closed(sheet) /\ UNCHANGED <<wallet, work, sent, reviews, pressed, told>>
  BY DEF CloseSheet, walletVars, sendVars
<1>2. /\ DOMAIN sheet' = SheetFields
      /\ sheet'.recipient = None /\ sheet'.plan = None /\ sheet'.busy = sheet.busy
  BY <1>1 DEF Inv, TypeOK, SheetFields, Closed
<1>3. FormFits'
  BY <1>2 DEF FormFits
<1> QED
  BY <1>1, <1>2, <1>3, FormStep

LEMMA ChooseStep ==
    ASSUME Inv, Choose
    PROVE  Inv'
<1>1. PICK asset : sheet' = Chosen(sheet, asset)
  BY DEF Choose
<1>2. /\ sheet.open
      /\ sheet.chosen = NoAsset \/ sheet.busy = "none"
      /\ UNCHANGED <<wallet, work, sent, reviews, pressed, told>>
  BY DEF Choose, walletVars, sendVars
<1>3. /\ DOMAIN sheet' = SheetFields
      /\ sheet'.open = sheet.open /\ sheet'.recipient = sheet.recipient
      /\ sheet'.plan = None /\ sheet'.busy = sheet.busy
  BY <1>1 DEF Inv, TypeOK, SheetFields, Chosen
<1>4. FormFits'
  BY <1>2, <1>3 DEF Inv, FormFits
<1> QED
  BY <1>2, <1>3, <1>4, FormStep

-----------------------------------------------------------------------------
(* The review. *)

(* What the form says is left alone, whatever becomes of the work. *)
SameForm ==
    /\ DOMAIN sheet' = SheetFields
    /\ sheet'.open = sheet.open /\ sheet'.chosen = sheet.chosen
    /\ sheet'.recipient = sheet.recipient /\ sheet'.plan = sheet.plan
    /\ Raw(sheet)' = Raw(sheet)

LEMMA BusyFields ==
    ASSUME TypeOK, NEW busy, NEW failed,
           \/ sheet' = [sheet EXCEPT !.busy = busy, !.failed = failed]
           \/ sheet' = [sheet EXCEPT !.busy = busy]
    PROVE  SameForm /\ sheet'.busy = busy
<1>1. /\ DOMAIN sheet' = SheetFields
      /\ sheet'.open = sheet.open /\ sheet'.chosen = sheet.chosen
      /\ sheet'.recipient = sheet.recipient /\ sheet'.plan = sheet.plan
      /\ sheet'.amount = sheet.amount /\ sheet'.busy = busy
  BY DEF TypeOK, SheetFields
<1>2. Raw(sheet)' = Raw(sheet)
  BY <1>1, RawFits
<1> QED
  BY <1>1, <1>2 DEF SameForm

(***************************************************************************)
(* Nothing is sent: what was shown of what has been sent stays.            *)
(***************************************************************************)
LEMMA NothingSent ==
    ASSUME Inv, UNCHANGED <<sent, pressed>>, told \subseteq told'
    PROVE  SentAsShown' /\ AgainOnlyIfFailed'
BY DEF Inv, SentAsShown, AgainOnlyIfFailed

LEMMA PressReviewStep ==
    ASSUME Inv, PressReview
    PROVE  Inv'
<1>1. /\ sheet.busy = "none" /\ sheet.plan = None /\ sheet.chosen # NoAsset
      /\ reviews' = reviews + 1
      /\ sheet' = [sheet EXCEPT !.busy = "review", !.failed = FALSE]
      /\ DOMAIN work' = {"owner", "holdings", "asset", "recipient", "amount", "lamports", "open"}
      /\ work'.recipient = sheet.recipient /\ work'.amount = Raw(sheet)
      /\ work'.asset = sheet.chosen
      /\ UNCHANGED <<wallet, sent, pressed, told>>
  BY DEF PressReview, Ready, walletVars
<1>2. SameForm /\ sheet'.busy = "review"
  BY <1>1, BusyFields DEF Inv
<1>3. SentAsShown' /\ AgainOnlyIfFailed'
  BY <1>1, NothingSent
<1>4. TypeOK'
  BY <1>1, <1>2 DEF Inv, TypeOK, SameForm, SheetFields
<1>5. FormFits'
  BY <1>1, <1>2 DEF Inv, FormFits, SameForm
<1>6. PlansNumbered'
  BY <1>1, <1>2 DEF Inv, TypeOK, PlansNumbered, SameForm
<1>7. SendFits' /\ SentIsSpent'
  BY <1>1, <1>2 DEF Inv, SendFits, SentIsSpent, SameForm
<1> QED
  BY <1>3, <1>4, <1>5, <1>6, <1>7 DEF Inv

LEMMA ReadStep ==
    ASSUME Inv, ReadRecipient
    PROVE  Inv'
<1>1. /\ sheet.busy = "review"
      /\ UNCHANGED <<wallet, sheet, sent, reviews, pressed, told>>
  BY DEF ReadRecipient, walletVars
<1>2. \/ work' = [work EXCEPT !.lamports = ledger.lamports[work.recipient]]
      \/ work' = [work EXCEPT !.open = work.recipient \notin ledger.opened]
  BY DEF ReadRecipient
<1>3. /\ DOMAIN work' = DOMAIN work
      /\ work'.recipient = work.recipient /\ work'.amount = work.amount
      /\ work'.asset = work.asset
  BY <1>1, <1>2 DEF Inv, TypeOK
<1>4. TypeOK' /\ FormFits'
  BY <1>1, <1>3 DEF Inv, TypeOK, FormFits, Raw, Current, Decimals
<1>5. SendFits' /\ PlansNumbered' /\ SentIsSpent'
  BY <1>1 DEF Inv, SendFits, PlansNumbered, SentIsSpent
<1> QED
  BY <1>1, <1>4, <1>5, NothingSent DEF Inv

LEMMA PlannedStep ==
    ASSUME Inv, Planned
    PROVE  Inv'
<1> DEFINE request == [owner |-> work.owner, asset |-> work.asset, recipient |-> work.recipient,
                       amount |-> work.amount, openAccount |-> work.open]
           plan == [request |-> request, cost |-> TransferCost(request),
                    problem |-> TransferProblem(request, work.holdings, work.lamports),
                    review |-> reviews, read |-> work]
<1>1. /\ sheet.busy = "review"
      /\ sheet' = [sheet EXCEPT !.busy = "none", !.plan = plan]
      /\ UNCHANGED <<wallet, sent, reviews, pressed, told>>
  BY DEF Planned, walletVars
<1>2. /\ plan.review = reviews
      /\ plan.request.recipient = work.recipient /\ plan.request.amount = work.amount
      /\ plan.request.asset = work.asset
  OBVIOUS
<1> HIDE DEF request, plan
<1>3. /\ DOMAIN sheet' = SheetFields /\ sheet'.busy = "none" /\ sheet'.plan = plan
      /\ sheet'.open = sheet.open /\ sheet'.chosen = sheet.chosen
      /\ sheet'.recipient = sheet.recipient /\ sheet'.amount = sheet.amount
  BY <1>1 DEF Inv, TypeOK, SheetFields
<1>4. Raw(sheet)' = Raw(sheet)
  BY <1>3, RawFits
<1>5. TypeOK'
  BY <1>1, <1>3 DEF Inv, TypeOK, SheetFields
<1>6. FormFits'
  BY <1>1, <1>2, <1>3, <1>4 DEF Inv, FormFits
<1>7. reviews \in 1 .. reviews
  BY <1>1 DEF Inv, TypeOK, PlansNumbered
<1>8. PlansNumbered' /\ SendFits'
  BY <1>1, <1>2, <1>3, <1>7 DEF Inv, TypeOK, PlansNumbered, SendFits
<1>9. SentIsSpent'
  BY <1>1, <1>2, <1>3 DEF Inv, PlansNumbered, SentIsSpent
<1> QED
  BY <1>1, <1>5, <1>6, <1>8, <1>9, NothingSent DEF Inv

LEMMA PlanFailsStep ==
    ASSUME Inv, PlanFails
    PROVE  Inv'
<1>1. /\ sheet.busy = "review"
      /\ sheet' = [sheet EXCEPT !.busy = "none", !.failed = TRUE]
      /\ UNCHANGED <<wallet, sent, reviews, pressed, told>>
  BY DEF PlanFails, Fail, walletVars
<1>2. SameForm /\ sheet'.busy = "none"
  BY <1>1, BusyFields DEF Inv
<1>3. TypeOK' /\ FormFits'
  BY <1>1, <1>2 DEF Inv, TypeOK, FormFits, SameForm, SheetFields
<1>4. SendFits' /\ PlansNumbered' /\ SentIsSpent'
  BY <1>1, <1>2 DEF Inv, FormFits, SendFits, PlansNumbered, SentIsSpent, SameForm
<1> QED
  BY <1>1, <1>3, <1>4, NothingSent DEF Inv

-----------------------------------------------------------------------------
(* The sending. *)

LEMMA PressSendStep ==
    ASSUME Inv, PressSend
    PROVE  Inv'
<1> DEFINE press == [asset |-> sheet.chosen.kind, recipient |-> sheet.recipient,
                     amount |-> Raw(sheet), payer |-> sheet.plan.request.owner]
<1>1. /\ sheet.busy = "none" /\ sheet.plan # None /\ sheet.recipient # None
      /\ sheet' = [sheet EXCEPT !.busy = "send", !.failed = FALSE]
      /\ work' = [plan |-> sheet.plan, signer |-> wallet, tx |-> None, stage |-> "asked"]
      /\ pressed' = Append(pressed, press)
      /\ UNCHANGED <<wallet, sent, reviews, told>>
  BY DEF PressSend, Offers, Ready, walletVars
<1>2. SameForm /\ sheet'.busy = "send"
  BY <1>1, BusyFields DEF Inv
<1>3. /\ DOMAIN work' = {"plan", "signer", "tx", "stage"}
      /\ work'.plan = sheet.plan /\ work'.stage = "asked"
  BY <1>1
<1>4. press = ShownFor(sheet.plan.request)
  BY <1>1 DEF Inv, FormFits, ShownFor
<1> HIDE DEF press
<1>5. IsSequence(pressed)
  BY DEF Inv, TypeOK
<1>6. /\ IsSequence(pressed') /\ Len(pressed)' \in DOMAIN pressed'
      /\ pressed'[Len(pressed')] = press
      /\ \A i \in DOMAIN pressed : i \in DOMAIN pressed' /\ pressed'[i] = pressed[i]
  BY <1>1, <1>5, AppendKeeps, SequenceDomain
<1>7. TypeOK'
  BY <1>1, <1>2, <1>3, <1>6 DEF Inv, TypeOK, SameForm, SheetFields
<1>8. FormFits' /\ SendFits'
  BY <1>1, <1>2, <1>3, <1>4, <1>6 DEF Inv, FormFits, SendFits, SameForm
<1>9. PlansNumbered'
  BY <1>1, <1>2, <1>3, <1>6 DEF Inv, PlansNumbered, SameForm
<1>10. SentIsSpent'
  BY <1>1, <1>2, <1>3 DEF Inv, SentIsSpent, SameForm
<1>11. SentAsShown'
  BY <1>1, <1>6 DEF Inv, PlansNumbered, SentAsShown
<1>12. AgainOnlyIfFailed'
  BY <1>1 DEF Inv, AgainOnlyIfFailed
<1> QED
  BY <1>7, <1>8, <1>9, <1>10, <1>11, <1>12 DEF Inv

(***************************************************************************)
(* A sending that ends with nothing sent since, or is said to have failed. *)
(***************************************************************************)
LEMMA SendEnds ==
    ASSUME Inv, sheet.busy = "send", SameForm, sheet'.busy = "none",
           UNCHANGED <<wallet, sent, reviews, pressed>>,
           \/ told' = told /\ work.stage # "sent"
           \/ told' = told \cup {work.plan.review}
    PROVE  Inv'
<1>1. TypeOK' /\ FormFits'
  BY DEF Inv, TypeOK, FormFits, SameForm, SheetFields
<1>2. SendFits' /\ PlansNumbered'
  BY DEF Inv, SendFits, PlansNumbered, SameForm
<1>3. sheet.plan \in {None, work.plan}
  BY DEF Inv, SendFits
<1>4. SentIsSpent'
  BY <1>3 DEF Inv, SentIsSpent, SameForm
<1> QED
  BY <1>1, <1>2, <1>4, NothingSent DEF Inv

LEMMA SendFailsStep ==
    ASSUME Inv, SendFails \/ SendDismissed
    PROVE  Inv'
<1>1. CASE SendFails
  <2>1. SameForm /\ sheet'.busy = "none"
    BY <1>1, BusyFields DEF SendFails, Fail, Inv
  <2> QED
    BY <1>1, <2>1, SendEnds DEF SendFails, walletVars
<1>2. CASE SendDismissed
  <2>1. SameForm /\ sheet'.busy = "none"
    BY <1>2, BusyFields DEF SendDismissed, Inv
  <2> QED
    BY <1>2, <2>1, SendEnds DEF SendDismissed, walletVars
<1> QED
  BY <1>1, <1>2

LEMMA SignStep ==
    ASSUME Inv, WalletSigns
    PROVE  Inv'
<1>1. /\ sheet.busy = "send" /\ work.stage = "asked"
      /\ UNCHANGED <<wallet, sheet, sent, reviews, pressed, told>>
  BY DEF WalletSigns, walletVars
<1>2. PICK tx : /\ AssertTransferIntact(tx, TransferInstructions(work.plan.request),
                                        work.plan.request.owner)
                /\ work' = [work EXCEPT !.tx = tx, !.stage = "signed"]
  BY DEF WalletSigns, BuildTransferTransaction
<1>3. /\ DOMAIN work' = {"plan", "signer", "tx", "stage"}
      /\ work'.tx = tx /\ work'.stage = "signed" /\ work'.plan = work.plan
  BY <1>1, <1>2 DEF Inv, TypeOK
<1>4. TypeOK' /\ FormFits'
  BY <1>1, <1>3 DEF Inv, TypeOK, FormFits, Raw, Current, Decimals
<1>5. SendFits'
  BY <1>1, <1>2, <1>3 DEF Inv, SendFits
<1>6. PlansNumbered' /\ SentIsSpent'
  BY <1>1, <1>3 DEF Inv, PlansNumbered, SentIsSpent
<1> QED
  BY <1>1, <1>4, <1>5, <1>6, NothingSent DEF Inv

(***************************************************************************)
(* A transaction is submitted, by the page only if it is intact: it is the *)
(* first of its plan, or its plan was said to have failed.                 *)
(***************************************************************************)
LEMMA SubmitStep ==
    ASSUME Inv, sheet.busy = "send", work.stage \in {"asked", "signed"},
           NEW tx, NEW by, sent' = Submitted(tx, by),
           by = "page" => /\ tx = work.tx /\ work.stage = "signed"
                          /\ tx.signers \cup {tx.feePayer} = {work.signer},
           UNCHANGED <<wallet, reviews, pressed>>,
           \/ /\ UNCHANGED <<sheet, told>>
              /\ DOMAIN work' = {"plan", "signer", "tx", "stage"}
              /\ work'.plan = work.plan /\ work'.stage = "sent"
           \/ /\ SameForm /\ sheet'.busy = "none"
              /\ told' = told \cup {work.plan.review}
    PROVE  Inv'
<1> DEFINE new == [tx |-> tx, by |-> by, plan |-> work.plan, press |-> Len(pressed),
                   status |-> "pending"]
           last == Len(sent) + 1
           request == work.plan.request
<1>1. /\ DOMAIN new = {"tx", "by", "plan", "press", "status"}
      /\ new.tx = tx /\ new.by = by /\ new.plan = work.plan /\ new.press = Len(pressed)
  OBVIOUS
<1>2. sent' = Append(sent, new) /\ IsSequence(sent)
  BY DEF Submitted, Inv, TypeOK
<1> HIDE DEF new
<1>3. /\ IsSequence(sent') /\ Len(sent) \in Nat
      /\ DOMAIN sent = 1 .. Len(sent) /\ DOMAIN sent' = 1 .. last
      /\ \A i \in DOMAIN sent : sent'[i] = sent[i]
      /\ sent'[last] = new
  BY <1>2, AppendKeeps, SequenceDomain
<1>4. \A i \in DOMAIN sent' : i \in DOMAIN sent \/ i = last
  BY <1>3
<1>5. \A i \in DOMAIN sent : i < last
  BY <1>3
<1> HIDE DEF last
<1>6. DOMAIN sheet' = SheetFields /\ sheet'.busy \in {"none", "send"}
  BY DEF Inv, TypeOK, SheetFields, SameForm
<1>7. TypeOK'
  BY <1>1, <1>3, <1>4, <1>6 DEF Inv, TypeOK, SheetFields
<1>8. FormFits'
  BY DEF Inv, FormFits, SameForm, Raw, Current, Decimals
<1>9. SendFits'
  BY DEF Inv, SendFits
<1>10. Len(pressed) \in DOMAIN pressed /\ work.plan.review \in 1 .. reviews
  BY DEF Inv, SendFits, PlansNumbered
<1>11. PlansNumbered'
  BY <1>1, <1>3, <1>4, <1>10 DEF Inv, PlansNumbered, SameForm
<1>12. \A i \in DOMAIN sent : sent[i].plan.review = work.plan.review => work.plan.review \in told
  BY DEF Inv, SentIsSpent
<1>13. sheet.plan \in {None, work.plan}
  BY DEF Inv, SendFits
<1>14. SentIsSpent'
  BY <1>1, <1>3, <1>4, <1>12, <1>13 DEF Inv, SentIsSpent, SameForm
<1>15. AgainOnlyIfFailed'
  <2> SUFFICES ASSUME NEW i \in DOMAIN sent', NEW j \in DOMAIN sent', i < j,
                      sent'[i].plan.review = sent'[j].plan.review
               PROVE  sent'[i].plan.review \in told'
    BY DEF AgainOnlyIfFailed
  <2>1. i \in DOMAIN sent
    <3>1. last \in Nat /\ i \in 1 .. last /\ j \in 1 .. last
      BY <1>3 DEF last
    <3>2. i # last
      BY <3>1
    <3> QED
      BY <1>4, <3>2
  <2>2. CASE j \in DOMAIN sent
    BY <1>3, <2>1, <2>2 DEF Inv, AgainOnlyIfFailed
  <2>3. CASE j = last
    BY <1>1, <1>3, <1>12, <2>1, <2>3
  <2> QED
    BY <1>4, <2>2, <2>3
<1>16. SentAsShown'
  <2> SUFFICES ASSUME NEW i \in DOMAIN sent', sent'[i].by = "page"
               PROVE  PaysAsShown(sent'[i].tx, pressed'[sent'[i].press])
    BY DEF SentAsShown
  <2>1. CASE i \in DOMAIN sent
    BY <1>3, <2>1 DEF Inv, SentAsShown
  <2>2. CASE i = last
    <3>1. /\ AssertTransferIntact(tx, TransferInstructions(request), request.owner)
          /\ tx.signers \cup {tx.feePayer} = {work.signer}
          /\ sent'[i].tx = tx /\ sent'[i].press = Len(pressed)
      BY <1>1, <1>3, <2>2 DEF Inv, SendFits
    <3>2. pressed[Len(pressed)] = ShownFor(request)
      BY DEF Inv, SendFits
    <3> HIDE DEF request
    <3>3. PaysAsShown(tx, ShownFor(request))
      BY <3>1, OnePayment
    <3> QED
      BY <3>1, <3>2, <3>3
  <2> QED
    BY <1>4, <2>1, <2>2
<1> QED
  BY <1>7, <1>8, <1>9, <1>11, <1>14, <1>15, <1>16 DEF Inv

LEMMA BroadcastStep ==
    ASSUME Inv, Broadcast
    PROVE  Inv'
<1>1. /\ sheet.busy = "send" /\ work.stage = "signed"
      /\ work.tx.signers \cup {work.tx.feePayer} = {work.signer}
      /\ sent' = Submitted(work.tx, "page")
      /\ UNCHANGED <<wallet, reviews, pressed>>
  BY DEF Broadcast, walletVars
<1>2. CASE work' = [work EXCEPT !.stage = "sent"] /\ UNCHANGED <<sheet, told>>
  <2>1. /\ DOMAIN work' = {"plan", "signer", "tx", "stage"}
        /\ work'.plan = work.plan /\ work'.stage = "sent"
    BY <1>1, <1>2 DEF Inv, TypeOK
  <2> QED
    BY <1>1, <1>2, <2>1, SubmitStep
<1>3. CASE Fail /\ told' = told \cup {work.plan.review}
  <2>1. SameForm /\ sheet'.busy = "none"
    BY <1>3, BusyFields DEF Fail, Inv
  <2> QED
    BY <1>1, <1>3, <2>1, SubmitStep
<1> QED
  BY <1>2, <1>3 DEF Broadcast

LEMMA WalletSendsStep ==
    ASSUME Inv, WalletSends
    PROVE  Inv'
<1>1. /\ sheet.busy = "send" /\ work.stage = "asked"
      /\ UNCHANGED <<wallet, sheet, reviews, pressed, told>>
  BY DEF WalletSends, walletVars
<1>2. PICK tx : /\ sent' = Submitted(tx, "wallet")
                /\ work' = [work EXCEPT !.tx = tx, !.stage = "sent"]
  BY DEF WalletSends
<1>3. /\ DOMAIN work' = {"plan", "signer", "tx", "stage"}
      /\ work'.plan = work.plan /\ work'.stage = "sent"
  BY <1>1, <1>2 DEF Inv, TypeOK
<1> QED
  BY <1>1, <1>2, <1>3, SubmitStep

LEMMA ConfirmedStep ==
    ASSUME Inv, Confirmed
    PROVE  Inv'
<1>1. sheet' = Finished(sheet) /\ UNCHANGED <<wallet, sent, reviews, pressed, told>>
  BY DEF Confirmed
<1>2. /\ DOMAIN sheet' = SheetFields /\ sheet'.busy = "none"
      /\ sheet'.recipient = None /\ sheet'.plan = None
  BY <1>1 DEF Inv, TypeOK, SheetFields, Finished, Closed
<1>3. TypeOK' /\ FormFits'
  BY <1>1, <1>2 DEF Inv, TypeOK, FormFits, SheetFields
<1>4. SendFits' /\ PlansNumbered' /\ SentIsSpent'
  BY <1>1, <1>2 DEF Inv, SendFits, PlansNumbered, SentIsSpent
<1> QED
  BY <1>1, <1>3, <1>4, NothingSent DEF Inv

-----------------------------------------------------------------------------
(* Meanwhile. *)

(***************************************************************************)
(* Whatever becomes of a transaction, it stays the one that was sent.      *)
(***************************************************************************)
LEMMA LandStep ==
    ASSUME Inv, Land
    PROVE  Inv'
<1>1. UNCHANGED <<wallet, sheet, work, reviews, pressed, told>>
  BY DEF Land, walletVars
<1>2. PICK i \in DOMAIN sent, status \in {"landed", "failed", "dropped"} :
         sent' = [sent EXCEPT ![i].status = status]
  BY DEF Land
<1> DEFINE new == [sent[i] EXCEPT !.status = status]
<1>3. /\ DOMAIN new = {"tx", "by", "plan", "press", "status"}
      /\ new.tx = sent[i].tx /\ new.by = sent[i].by /\ new.plan = sent[i].plan
      /\ new.press = sent[i].press
  BY DEF Inv, TypeOK
<1>4. sent' = [sent EXCEPT ![i] = new] /\ IsSequence(sent)
  BY <1>2 DEF Inv, TypeOK
<1> HIDE DEF new
<1>5. /\ IsSequence(sent') /\ DOMAIN sent' = DOMAIN sent
      /\ \A j \in DOMAIN sent : sent'[j] = IF j = i THEN new ELSE sent[j]
  BY <1>4, ChangeKeeps
<1>6. \A j \in DOMAIN sent :
         /\ DOMAIN sent'[j] = {"tx", "by", "plan", "press", "status"}
         /\ sent'[j].tx = sent[j].tx /\ sent'[j].by = sent[j].by
         /\ sent'[j].plan = sent[j].plan /\ sent'[j].press = sent[j].press
  BY <1>3, <1>5 DEF Inv, TypeOK
<1>7. TypeOK' /\ FormFits'
  BY <1>1, <1>5, <1>6 DEF Inv, TypeOK, FormFits, Raw, Current, Decimals
<1>8. SendFits' /\ PlansNumbered' /\ SentIsSpent'
  BY <1>1, <1>5, <1>6 DEF Inv, SendFits, PlansNumbered, SentIsSpent
<1>9. SentAsShown'
  BY <1>1, <1>5, <1>6 DEF Inv, SentAsShown
<1>10. AgainOnlyIfFailed'
  BY <1>1, <1>5, <1>6 DEF Inv, AgainOnlyIfFailed
<1> QED
  BY <1>7, <1>8, <1>9, <1>10 DEF Inv

LEMMA OutsideStep ==
    ASSUME Inv, wallet' \in Wallets, UNCHANGED <<sheet, work, sent, reviews, pressed, told>>
    PROVE  Inv'
<1>1. TypeOK' /\ FormFits'
  BY DEF Inv, TypeOK, FormFits, Raw, Current, Decimals
<1>2. SendFits' /\ PlansNumbered' /\ SentIsSpent'
  BY DEF Inv, SendFits, PlansNumbered, SentIsSpent
<1> QED
  BY <1>1, <1>2, NothingSent DEF Inv

-----------------------------------------------------------------------------

LEMMA InitInv == Init => Inv
<1> SUFFICES ASSUME Init
             PROVE  Inv
  OBVIOUS
<1>1. wallet \in Wallets /\ reviews = 0 /\ told = {}
  BY SheetAssumption DEF Init
<1>2. /\ DOMAIN sheet = SheetFields /\ sheet.busy = "none"
      /\ sheet.recipient = None /\ sheet.plan = None
  BY DEF Init, SheetFields
<1>3. sent = <<>> /\ pressed = <<>> /\ IsSequence(<<>>) /\ DOMAIN <<>> = {}
  BY DEF Init, IsSequence
<1>4. TypeOK
  BY <1>1, <1>2, <1>3 DEF TypeOK, SheetFields
<1> QED
  BY <1>2, <1>3, <1>4 DEF Inv, FormFits, SendFits, SentAsShown, PlansNumbered, SentIsSpent,
                          AgainOnlyIfFailed

LEMMA NextInv == Inv /\ [Next]_vars => Inv'
<1> SUFFICES ASSUME Inv, [Next]_vars
             PROVE  Inv'
  OBVIOUS
<1>1. CASE TypeRecipient \/ TypeAmount \/ PressMax
  <2>1. /\ Editable
        /\ \E recipient, amount : sheet' = Edited(sheet, recipient, amount)
        /\ UNCHANGED <<wallet, work, sent, reviews, pressed, told>>
    BY <1>1 DEF TypeRecipient, TypeAmount, PressMax, walletVars, sendVars
  <2> QED
    BY <2>1, EditStep
<1>2. CASE ChainChanges \/ SwitchWallet \/ Fetch \/ UNCHANGED vars
  <2>1. wallet' \in Wallets /\ UNCHANGED <<sheet, work, sent, reviews, pressed, told>>
    BY <1>2 DEF ChainChanges, SwitchWallet, Fetch, walletVars, sendVars, vars, Inv, TypeOK
  <2> QED
    BY <2>1, OutsideStep
<1> QED
  BY <1>1, <1>2, OpenStep, CloseStep, ChooseStep, PressReviewStep, ReadStep, PlannedStep,
     PlanFailsStep, PressSendStep, SendFailsStep, SignStep, BroadcastStep, WalletSendsStep,
     ConfirmedStep, LandStep DEF Next

(***************************************************************************)
(* The inductive invariant: a plan is the form's or cannot be sent, and a  *)
(* plan that was sent is not at hand again until its sending has failed.   *)
(***************************************************************************)
THEOREM InvCorrect == Spec => []Inv
BY InitInv, NextInv, PTL DEF Spec

(***************************************************************************)
(* What the page sends pays what was shown when Send was pressed, whatever *)
(* the wallet made of it, and however often the sheet was closed, the      *)
(* wallet switched or an answer late.                                      *)
(***************************************************************************)
THEOREM AlwaysSentAsShown == Spec => []SentAsShown
<1>1. Inv => SentAsShown
  BY DEF Inv
<1> QED
  BY <1>1, InvCorrect, PTL

(***************************************************************************)
(* What was reviewed once is sent again only after a failure was reported, *)
(* for any number of reviews and sends.                                    *)
(***************************************************************************)
THEOREM AlwaysAgainOnlyIfFailed == Spec => []AgainOnlyIfFailed
<1>1. Inv => AgainOnlyIfFailed
  BY DEF Inv
<1> QED
  BY <1>1, InvCorrect, PTL

-----------------------------------------------------------------------------
(* The chain. *)

LEMMA Costs ==
    /\ TransferFeeLamports \in Nat /\ SystemAccountRent \in Nat /\ SystemAccountRent > 0
    /\ TokenAccountRent \in Nat /\ ExtensionRent \in Nat
BY CostAssumption, SheetAssumption DEF TransferFeeLamports, NetworkFeeLamports

\* What is moved from one balance is on the other.
AsMoved(old, new, from, to, amount) ==
    \A a \in Accounts : new[a] =
       IF from = to \/ a \notin {from, to} THEN old[a]
       ELSE IF a = from THEN old[a] - amount ELSE old[a] + amount

LEMMA MovedFits ==
    ASSUME NEW balances \in [Accounts -> Nat], NEW from \in Accounts, NEW to \in Accounts,
           NEW amount \in Nat, amount <= balances[from]
    PROVE  /\ Moved(balances, from, to, amount) \in [Accounts -> Nat]
           /\ AsMoved(balances, Moved(balances, from, to, amount), from, to, amount)
<1> DEFINE less == [balances EXCEPT ![from] = @ - amount]
           more == [less EXCEPT ![to] = @ + amount]
<1>1. less \in [Accounts -> Nat]
  BY balances[from] - amount \in Nat
<1>2. \A a \in Accounts : less[a] = IF a = from THEN balances[a] - amount ELSE balances[a]
  OBVIOUS
<1> HIDE DEF less
<1>3. more \in [Accounts -> Nat]
  BY <1>1, less[to] + amount \in Nat
<1>4. \A a \in Accounts : more[a] = IF a = to THEN less[a] + amount ELSE less[a]
  BY <1>1
<1> HIDE DEF more
<1>5. \A a \in Accounts : balances[a] \in Nat
  OBVIOUS
<1>6. \A a \in Accounts : more[a] =
         IF from = to \/ a \notin {from, to} THEN balances[a]
         ELSE IF a = from THEN balances[a] - amount ELSE balances[a] + amount
  BY <1>2, <1>4, <1>5
<1>7. Moved(balances, from, to, amount) = more
  BY DEF Moved, more, less
<1> QED
  BY <1>3, <1>6, <1>7 DEF AsMoved

(***************************************************************************)
(* What each call does to a ledger, if it does not fail.                   *)
(***************************************************************************)
LEMMA PayFits ==
    ASSUME NEW l \in Ledger, NEW from \in Accounts, NEW to \in Accounts, NEW amount \in Nat
    PROVE  LET end == Execute(l, Pay(from, to, amount))
           IN IF amount > l.lamports[from] THEN end = None
              ELSE /\ end \in Ledger
                   /\ end = [l EXCEPT !.lamports = Moved(@, from, to, amount)]
<1> DEFINE call == Pay(from, to, amount)
           end == Execute(l, call)
<1>1. /\ call.call = "pay" /\ call.from = from /\ call.to = to /\ call.amount = amount
      /\ l # None
  BY SheetAssumption DEF Pay
<1> HIDE DEF call
<1>2. end = IF amount > l.lamports[from] THEN None
            ELSE [l EXCEPT !.lamports = Moved(@, from, to, amount)]
  BY <1>1 DEF Execute
<1> HIDE DEF end
<1>3. ASSUME amount <= l.lamports[from]
      PROVE  [l EXCEPT !.lamports = Moved(@, from, to, amount)] \in Ledger
  <2>1. l.lamports \in [Accounts -> Nat]
    BY DEF Ledger
  <2>2. Moved(l.lamports, from, to, amount) \in [Accounts -> Nat]
    BY <1>3, <2>1, MovedFits
  <2> QED
    BY <2>2 DEF Ledger
<1>4. l.lamports[from] \in Nat
  BY DEF Ledger
<1> QED
  BY <1>2, <1>3, <1>4 DEF end, call

LEMMA TokenFits ==
    ASSUME NEW l \in Ledger, NEW from \in Accounts, NEW authority \in Accounts,
           NEW to \in Accounts, NEW amount \in Nat
    PROVE  LET end == Execute(l, TransferToken(from, authority, to, amount))
           IN IF \/ authority # from \/ amount > l.tokens[from]
                 \/ to \notin l.opened \/ {from, to} \cap l.frozen # {} THEN end = None
              ELSE /\ end \in Ledger
                   /\ end = [l EXCEPT !.tokens = Moved(@, from, to, amount)]
<1> DEFINE call == TransferToken(from, authority, to, amount)
           end == Execute(l, call)
           Fails == \/ authority # from \/ amount > l.tokens[from]
                    \/ to \notin l.opened \/ {from, to} \cap l.frozen # {}
<1>1. /\ call.call = "token" /\ call.from = from /\ call.authority = authority
      /\ call.to = to /\ call.amount = amount /\ l # None
  BY SheetAssumption DEF TransferToken
<1> HIDE DEF call
<1>2. end = IF Fails THEN None ELSE [l EXCEPT !.tokens = Moved(@, from, to, amount)]
  BY <1>1 DEF Execute
<1> HIDE DEF end
<1>3. ASSUME ~Fails PROVE [l EXCEPT !.tokens = Moved(@, from, to, amount)] \in Ledger
  <2>1. l.tokens \in [Accounts -> Nat] /\ l.tokens[from] \in Nat
    BY DEF Ledger
  <2>2. amount <= l.tokens[from]
    BY <1>3, <2>1
  <2>3. Moved(l.tokens, from, to, amount) \in [Accounts -> Nat]
    BY <2>1, <2>2, MovedFits
  <2> QED
    BY <2>3 DEF Ledger
<1> QED
  BY <1>2, <1>3 DEF end, call

LEMMA OpenFits ==
    ASSUME NEW l \in Ledger, NEW payer \in Accounts, NEW owner \in Accounts
    PROVE  LET end  == Execute(l, OpenAccount(payer, owner))
               rent == TokenAccountRent + ExtensionRent
           IN IF owner \in l.opened THEN end = l
              ELSE IF l.lamports[payer] < rent THEN end = None
              ELSE /\ end \in Ledger
                   /\ end = [l EXCEPT !.opened = @ \cup {owner}, !.lamports[payer] = @ - rent]
<1> DEFINE call == OpenAccount(payer, owner)
           end == Execute(l, call)
           rent == TokenAccountRent + ExtensionRent
           paid == [l EXCEPT !.opened = @ \cup {owner}, !.lamports[payer] = @ - rent]
<1>1. /\ call.call = "open" /\ call.payer = payer /\ call.owner = owner /\ l # None
  BY SheetAssumption DEF OpenAccount
<1> HIDE DEF call
<1>2. rent \in Nat /\ \A n \in Nat : n - TokenAccountRent - ExtensionRent = n - rent
  BY Costs
<1>3. l.lamports \in [Accounts -> Nat] /\ l.lamports[payer] \in Nat /\ l.opened \subseteq Accounts
  BY DEF Ledger
<1>4. l.lamports[payer] - TokenAccountRent - ExtensionRent = l.lamports[payer] - rent
  BY <1>2, <1>3
<1>5. end = IF owner \in l.opened THEN l
            ELSE IF l.lamports[payer] < rent THEN None
            ELSE [l EXCEPT !.opened = @ \cup {owner},
                           !.lamports[payer] = @ - TokenAccountRent - ExtensionRent]
  BY <1>1 DEF Execute
<1>6. end = IF owner \in l.opened THEN l ELSE IF l.lamports[payer] < rent THEN None ELSE paid
  BY <1>4, <1>5 DEF Ledger
<1> HIDE DEF end, rent
<1>7. ASSUME l.lamports[payer] >= rent PROVE paid \in Ledger
  <2>1. l.lamports[payer] - rent \in Nat
    BY <1>2, <1>3, <1>7
  <2>2. [l.lamports EXCEPT ![payer] = @ - rent] \in [Accounts -> Nat]
    BY <1>3, <2>1
  <2> QED
    BY <1>3, <2>2 DEF Ledger
<1> QED
  BY <1>2, <1>3, <1>6, <1>7 DEF end, call, rent

LEMMA CallKinds ==
    ASSUME NEW call \in Calls
    PROVE  \/ call = Guard
           \/ \E from, to \in Accounts, amount \in Nat : call = Pay(from, to, amount)
           \/ \E payer, owner \in Accounts : call = OpenAccount(payer, owner)
           \/ \E from, authority, to \in Accounts, amount \in Nat :
                 call = TransferToken(from, authority, to, amount)
<1>1. CASE call \in [call : {"pay"}, from : Accounts, to : Accounts, amount : Nat]
  <2>1. call = Pay(call.from, call.to, call.amount)
    BY <1>1 DEF Pay
  <2> QED
    BY <1>1, <2>1
<1>2. CASE call \in [call : {"open"}, payer : Accounts, owner : Accounts]
  <2>1. call = OpenAccount(call.payer, call.owner)
    BY <1>2 DEF OpenAccount
  <2> QED
    BY <1>2, <2>1
<1>3. CASE call \in [call : {"token"}, from : Accounts, authority : Accounts, to : Accounts,
                     amount : Nat]
  <2>1. call = TransferToken(call.from, call.authority, call.to, call.amount)
    BY <1>3 DEF TransferToken
  <2> QED
    BY <1>3, <2>1
<1> QED
  BY <1>1, <1>2, <1>3 DEF Calls

LEMMA GuardFits ==
    ASSUME NEW l PROVE Execute(l, Guard) = l
BY DEF Execute, Guard

LEMMA ExecuteFits ==
    ASSUME NEW l \in Ledger \cup {None}, NEW call \in Calls
    PROVE  Execute(l, call) \in Ledger \cup {None}
<1>1. CASE l = None
  BY <1>1 DEF Execute
<1>2. CASE l \in Ledger
  <2>1. CASE call = Guard
    BY <1>2, <2>1, GuardFits
  <2>2. ASSUME NEW from \in Accounts, NEW to \in Accounts, NEW amount \in Nat,
               call = Pay(from, to, amount)
        PROVE  Execute(l, call) \in Ledger \cup {None}
    BY <1>2, <2>2, PayFits
  <2>3. ASSUME NEW payer \in Accounts, NEW owner \in Accounts, call = OpenAccount(payer, owner)
        PROVE  Execute(l, call) \in Ledger \cup {None}
    BY <1>2, <2>3, OpenFits
  <2>4. ASSUME NEW from \in Accounts, NEW authority \in Accounts, NEW to \in Accounts,
               NEW amount \in Nat, call = TransferToken(from, authority, to, amount)
        PROVE  Execute(l, call) \in Ledger \cup {None}
    BY <1>2, <2>4, TokenFits
  <2> QED
    BY <2>1, <2>2, <2>3, <2>4, CallKinds
<1> QED
  BY <1>1, <1>2

(***************************************************************************)
(* The ledgers after the calls of a transaction are what their recursion   *)
(* says, and each is a ledger unless a call has failed.                    *)
(***************************************************************************)
LEMMA ChargedFits ==
    ASSUME NEW l \in Ledger, NEW tx \in Transactions, Payable(l, tx)
    PROVE  /\ Charged(l, tx) \in Ledger
           /\ Charged(l, tx) = [l EXCEPT !.lamports[tx.feePayer] = @ - TransferFeeLamports]
<1>1. l.lamports \in [Accounts -> Nat] /\ tx.feePayer \in Accounts
  BY DEF Ledger, Transactions
<1>2. l.lamports[tx.feePayer] - TransferFeeLamports \in Nat
  BY <1>1, Costs DEF Payable
<1>3. [l.lamports EXCEPT ![tx.feePayer] = @ - TransferFeeLamports] \in [Accounts -> Nat]
  BY <1>1, <1>2
<1> QED
  BY <1>1, <1>3 DEF Charged, Ledger

LEMMA AfterStep ==
    ASSUME NEW l \in Ledger, NEW tx \in Transactions, Payable(l, tx)
    PROVE  /\ Len(tx.calls) \in Nat
           /\ After(l, tx) \in [0 .. Len(tx.calls) -> Ledger \cup {None}]
           /\ After(l, tx)[0] = Charged(l, tx)
           /\ \A n \in 1 .. Len(tx.calls) :
                After(l, tx)[n] = Execute(After(l, tx)[n - 1], tx.calls[n])
<1> DEFINE S == Ledger \cup {None}
           calls == tx.calls
           places == Len(calls)
           start == Charged(l, tx)
           step == [n \in Nat |-> [m \in S |->
                       IF n + 1 \in 1..places THEN Execute(m, calls[n + 1]) ELSE m]]
           Equation(f) == f = [n \in 0..places |-> IF n = 0 THEN start
                                                   ELSE Execute(f[n - 1], calls[n])]
<1>1. calls \in Seq(Calls) /\ places \in Nat /\ \A n \in 1..places : calls[n] \in Calls
  <2>1. calls \in Seq(Calls)
    BY DEF Transactions
  <2> HIDE DEF calls
  <2> QED
    BY <2>1, LenProperties, ElementOfSeq
<1>2. start \in S
  BY ChargedFits
<1> HIDE DEF start, calls, places
<1>3. step \in [Nat -> [S -> S]]
  <2>1. ASSUME NEW n \in Nat, NEW m \in S, n + 1 \in 1..places
        PROVE  Execute(m, calls[n + 1]) \in S
    BY <1>1, <2>1, ExecuteFits
  <2> HIDE DEF S
  <2> QED
    BY <2>1
<1>4. PICK f \in [Nat -> S] : Follows(f, start, step)
  <2> HIDE DEF step, S
  <2> QED
    BY <1>2, <1>3, Recursion
<1> HIDE DEF S
<1> DEFINE g == [n \in 0..places |-> f[n]]
<1>5. ASSUME NEW n \in 1..places PROVE f[n] = Execute(f[n - 1], calls[n])
  <2>1. n - 1 \in Nat /\ f[n - 1] \in S /\ (n - 1) + 1 = n
    BY <1>1
  <2>2. f[(n - 1) + 1] = step[n - 1][f[n - 1]]
    BY <1>4, <2>1 DEF Follows
  <2> QED
    BY <2>1, <2>2
<1>6. Equation(g)
  BY <1>1, <1>4, <1>5 DEF Follows
<1> DEFINE after == After(l, tx)
<1>7. Equation(after)
  <2>1. after = CHOOSE h : Equation(h)
    BY DEF After, start, calls, places
  <2> HIDE DEF Equation, after, g
  <2> QED
    BY <1>6, <2>1, Zenon
<1> HIDE DEF after
<1>8. DOMAIN after = 0..places /\ after = [n \in 0..places |-> after[n]]
  BY <1>7
<1>9. after[0] = start /\ \A n \in 1..places : after[n] = Execute(after[n - 1], calls[n])
  <2>1. ASSUME NEW n \in 0..places
        PROVE  after[n] = IF n = 0 THEN start ELSE Execute(after[n - 1], calls[n])
    BY <1>7
  <2>2. 0 \in 0..places /\ \A n \in 1..places : n \in 0..places /\ n # 0
    BY <1>1
  <2> QED
    BY <2>1, <2>2
<1> DEFINE T == {n \in Nat : n <= places => after[n] \in S}
<1>10. Nat \subseteq T
  <2>1. 0 \in T
    BY <1>2, <1>9
  <2>2. ASSUME NEW n \in Nat, n \in T PROVE n + 1 \in T
    <3> SUFFICES ASSUME n + 1 <= places PROVE after[n + 1] \in S
      OBVIOUS
    <3>1. n + 1 \in 1..places /\ (n + 1) - 1 = n /\ after[n] \in S
      BY <1>1, <2>2
    <3>2. after[n + 1] = Execute(after[n], calls[n + 1])
      BY <1>9, <3>1
    <3>3. calls[n + 1] \in Calls
      BY <1>1, <3>1
    <3> QED
      BY <3>1, <3>2, <3>3, ExecuteFits DEF S
  <2> HIDE DEF T
  <2> QED
    BY <2>1, <2>2, SetInduction
<1>11. after \in [0..places -> S]
  <2>1. \A n \in 0..places : after[n] \in S
    BY <1>10
  <2> QED
    BY <1>8, <2>1
<1> QED
  BY <1>1, <1>9, <1>11 DEF after, start, calls, places, S

(***************************************************************************)
(* A transaction that succeeds, and one that only pays its fee, leave every *)
(* account with its rent.                                                  *)
(***************************************************************************)
Living(l) == l \in Ledger /\ \A a \in Accounts : Lives(l.lamports[a])

LEMMA OutcomeLives ==
    ASSUME NEW l, Living(l), NEW tx \in Transactions, Payable(l, tx)
    PROVE  /\ Living(Charged(l, tx))
           /\ Outcome(l, tx) # None => Living(Outcome(l, tx))
<1> DEFINE end == After(l, tx)[Len(tx.calls)]
<1>1. l \in Ledger /\ \A a \in Accounts : Lives(l.lamports[a])
  BY DEF Living
<1>2. Living(Charged(l, tx))
  <2>1. /\ Charged(l, tx) \in Ledger
        /\ Charged(l, tx) = [l EXCEPT !.lamports[tx.feePayer] = @ - TransferFeeLamports]
    BY <1>1, ChargedFits
  <2>2. l.lamports \in [Accounts -> Nat] /\ Lives(Charged(l, tx).lamports[tx.feePayer])
    BY <1>1 DEF Ledger, Payable
  <2>3. \A a \in Accounts \ {tx.feePayer} : Charged(l, tx).lamports[a] = l.lamports[a]
    BY <1>1, <2>1, <2>2 DEF Ledger
  <2> QED
    BY <1>1, <2>1, <2>2, <2>3 DEF Living
<1>3. end \in Ledger \cup {None}
  BY <1>1, AfterStep
<1> HIDE DEF end
<1>4. Outcome(l, tx) =
         IF end = None THEN None
         ELSE IF \E a \in Accounts : end.lamports[a] # l.lamports[a] /\ ~Lives(end.lamports[a])
         THEN None ELSE end
  BY DEF Outcome, end
<1>5. ASSUME Outcome(l, tx) # None PROVE Living(Outcome(l, tx))
  <2>1. /\ Outcome(l, tx) = end /\ end # None
        /\ \A a \in Accounts : end.lamports[a] = l.lamports[a] \/ Lives(end.lamports[a])
    BY <1>4, <1>5
  <2>2. \A a \in Accounts : Lives(end.lamports[a])
    BY <1>1, <2>1
  <2> QED
    BY <1>3, <2>1, <2>2 DEF Living
<1> QED
  BY <1>2, <1>5

-----------------------------------------------------------------------------
(* What stands behind the properties about the chain is kept. *)

LEMMA ListedFits ==
    ASSUME NEW held \in Holdings
    PROVE  Listed(held) \subseteq Assets
BY DEF Listed, Holdings, Assets

LEMMA SnapshotFits ==
    ASSUME ledger \in Ledger, NEW w \in Wallets
    PROVE  Snapshot(w) \in Holdings
<1>1. w \in Accounts
  BY DEF Accounts
<1>2. ledger.lamports[w] \in Nat /\ ledger.tokens[w] \in Nat /\ (w \in ledger.frozen) \in BOOLEAN
  BY <1>1 DEF Ledger
<1> DEFINE token == [kind |-> "token", account |-> w, amount |-> ledger.tokens[w],
                     frozen |-> w \in ledger.frozen]
<1>3. token \in Tokens
  BY <1>1, <1>2 DEF Tokens
<1> HIDE DEF token
<1>4. [wallet |-> w, lamports |-> ledger.lamports[w], token |-> token] \in Holdings
  BY <1>2, <1>3 DEF Holdings
<1> QED
  BY <1>4 DEF Snapshot, token

LEMMA DecimalsFit ==
    ASSUME NEW asset PROVE Decimals(asset) \in Nat
BY CostAssumption, SheetAssumption DEF Decimals

LEMMA MostFits ==
    ASSUME NEW held \in Holdings, NEW asset \in Assets
    PROVE  MaxSendable(held, asset, FALSE) \in Nat
<1>1. held.lamports \in Nat /\ Reserved(FALSE) \in Nat
  BY Costs DEF Holdings, Reserved, RentToOpen
<1>2. asset.kind = "token" => asset.amount \in Nat
  BY DEF Assets, Tokens, Sol
<1> DEFINE lamports == held.lamports
           reserved == Reserved(FALSE)
           most == IF lamports > reserved THEN lamports - reserved ELSE 0
<1>3. MaxSendable(held, asset, FALSE) = IF asset.kind = "token" THEN asset.amount ELSE most
  BY DEF MaxSendable
<1>4. lamports \in Nat /\ reserved \in Nat
  BY <1>1
<1> HIDE DEF lamports, reserved
<1>5. most \in Nat
  BY <1>4
<1> QED
  BY <1>2, <1>3, <1>5

LEMMA TextsFit ==
    /\ NoText \in Text /\ Typed \subseteq Text
    /\ \A held \in Holdings, asset \in Assets :
          FormatTokenAmount(MaxSendable(held, asset, FALSE), Decimals(asset)) \in Text
<1>1. NoText \in Text
  BY EmptySeq DEF Text, NoText
<1> QED
  BY <1>1, MostFits, AmountsReadBack, DecimalsFit, SheetAssumption

LEMMA RawOfSheet ==
    ASSUME FormTyped PROVE Raw(sheet) \in Nat \cup {NoAmount}
BY RawType, DecimalsFit DEF FormTyped, Raw

(***************************************************************************)
(* Handlers of the form leave a plan as it is or drop it.                  *)
(***************************************************************************)
LEMMA FormSound ==
    ASSUME Sound, UNCHANGED <<ledger, work, sent>>, sheet'.busy = sheet.busy,
           sheet'.plan \in {None, sheet.plan}, FormTyped'
    PROVE  Sound'
<1>1. LedgerLives' /\ SentFits'
  BY DEF Sound, LedgerLives, SentFits
<1>2. WorkFits'
  BY DEF Sound, WorkFits
<1> QED
  BY <1>1, <1>2 DEF Sound

LEMMA EditSound ==
    ASSUME TypeOK, Sound, NEW recipient \in Accounts \cup {None}, NEW amount \in Text,
           sheet' = Edited(sheet, recipient, amount),
           UNCHANGED <<ledger, holdings, work, sent>>
    PROVE  Sound'
<1>1. /\ sheet'.chosen = sheet.chosen /\ sheet'.busy = sheet.busy
      /\ sheet'.plan \in {None, sheet.plan}
      /\ sheet'.recipient = recipient /\ sheet'.amount = amount
  BY DEF TypeOK, Edited
<1>2. FormTyped'
  BY <1>1 DEF Sound, FormTyped
<1> QED
  BY <1>1, <1>2, FormSound

LEMMA FormActionsSound ==
    ASSUME Inv, Sound,
           OpenSheet \/ CloseSheet \/ Choose \/ TypeRecipient \/ TypeAmount \/ PressMax
    PROVE  Sound'
<1>1. TypeOK /\ FormTyped
  BY DEF Inv, Sound
<1>2. holdings # None => Listed(holdings) \subseteq Assets
  BY <1>1, ListedFits DEF FormTyped
<1>3. CASE OpenSheet
  <2>1. PICK asset \in Assets \cup {NoAsset} :
           sheet' = [sheet EXCEPT !.open = TRUE, !.choosing = (asset = NoAsset), !.chosen = asset]
    BY <1>2, <1>3 DEF OpenSheet
  <2>2. /\ sheet'.chosen = asset /\ sheet'.busy = sheet.busy /\ sheet'.plan = sheet.plan
        /\ sheet'.recipient = sheet.recipient /\ sheet'.amount = sheet.amount
        /\ UNCHANGED <<ledger, holdings, work, sent>>
    BY <1>1, <1>3, <2>1 DEF TypeOK, OpenSheet, chainVars, walletVars, sendVars
  <2>3. FormTyped'
    BY <1>1, <2>2 DEF FormTyped
  <2> QED
    BY <2>2, <2>3, FormSound
<1>4. CASE CloseSheet
  <2>1. /\ sheet'.chosen = sheet.chosen /\ sheet'.busy = sheet.busy /\ sheet'.plan = None
        /\ sheet'.recipient = None /\ sheet'.amount = NoText
        /\ UNCHANGED <<ledger, holdings, work, sent>>
    BY <1>1, <1>4 DEF TypeOK, CloseSheet, Closed, chainVars, walletVars, sendVars
  <2>2. FormTyped'
    BY <1>1, <2>1, TextsFit DEF FormTyped
  <2> QED
    BY <2>1, <2>2, FormSound
<1>5. CASE Choose
  <2>1. PICK asset \in Assets \cup {NoAsset} : sheet' = Chosen(sheet, asset)
    BY <1>2, <1>5 DEF Choose
  <2>2. /\ sheet'.chosen = asset /\ sheet'.busy = sheet.busy /\ sheet'.plan = None
        /\ sheet'.recipient = sheet.recipient /\ sheet'.amount = NoText
        /\ UNCHANGED <<ledger, holdings, work, sent>>
    BY <1>1, <1>5, <2>1 DEF TypeOK, Choose, Chosen, chainVars, walletVars, sendVars
  <2>3. FormTyped'
    BY <1>1, <2>2, TextsFit DEF FormTyped
  <2> QED
    BY <2>2, <2>3, FormSound
<1>6. CASE TypeRecipient
  <2>1. PICK recipient \in Accounts : sheet' = Edited(sheet, recipient, sheet.amount)
    BY <1>6 DEF TypeRecipient
  <2> QED
    BY <1>1, <1>6, <2>1, EditSound DEF TypeRecipient, FormTyped, chainVars, walletVars, sendVars
<1>7. CASE TypeAmount
  <2>1. PICK amount \in Text : sheet' = Edited(sheet, sheet.recipient, amount)
    BY <1>7, TextsFit DEF TypeAmount
  <2> QED
    BY <1>1, <1>7, <2>1, EditSound DEF TypeAmount, FormTyped, chainVars, walletVars, sendVars
<1>8. CASE PressMax
  <2>1. sheet' = Edited(sheet, sheet.recipient, MaxText(sheet.chosen))
    BY <1>8 DEF PressMax
  <2>2. MaxText(sheet.chosen) \in Text
    BY <1>1, <1>8, TextsFit DEF PressMax, Editable, FormTyped, MaxText
  <2> QED
    BY <1>1, <1>8, <2>1, <2>2, EditSound DEF PressMax, FormTyped, chainVars, walletVars, sendVars
<1> QED
  BY <1>3, <1>4, <1>5, <1>6, <1>7, <1>8

-----------------------------------------------------------------------------
LEMMA FormStays ==
    ASSUME TypeOK, NEW busy, NEW failed,
           \/ sheet' = [sheet EXCEPT !.busy = busy, !.failed = failed]
           \/ sheet' = [sheet EXCEPT !.busy = busy]
    PROVE  /\ sheet'.chosen = sheet.chosen /\ sheet'.recipient = sheet.recipient
           /\ sheet'.amount = sheet.amount /\ sheet'.plan = sheet.plan /\ sheet'.busy = busy
BY DEF TypeOK

LEMMA ReviewSound ==
    ASSUME Inv, Sound, PressReview \/ ReadRecipient \/ Planned \/ PlanFails
    PROVE  Sound'
<1>1. TypeOK /\ FormTyped /\ wallet \in Wallets /\ LedgerLives
  BY DEF Inv, TypeOK, Sound
<1>2. UNCHANGED <<ledger, holdings, sent>>
  BY DEF PressReview, ReadRecipient, Planned, PlanFails, chainVars, walletVars
<1>3. LedgerLives' /\ SentFits'
  BY <1>2 DEF Sound, LedgerLives, SentFits
<1>4. CASE PressReview
  <2>1. /\ sheet' = [sheet EXCEPT !.busy = "review", !.failed = FALSE]
        /\ work'.owner = wallet /\ work'.asset = sheet.chosen
        /\ work'.recipient = sheet.recipient /\ work'.amount = Raw(sheet)
        /\ work'.open \in BOOLEAN \cup {None}
        /\ sheet.chosen # NoAsset /\ sheet.recipient # None /\ Raw(sheet) # NoAmount
        /\ sheet.plan = None
    BY <1>4 DEF PressReview, Ready
  <2>2. /\ sheet'.chosen = sheet.chosen /\ sheet'.recipient = sheet.recipient
        /\ sheet'.amount = sheet.amount /\ sheet'.plan = sheet.plan /\ sheet'.busy = "review"
    BY <1>1, <2>1, FormStays
  <2>3. FormTyped'
    BY <1>1, <1>2, <2>2 DEF FormTyped
  <2>4. Raw(sheet) \in Nat
    BY <1>1, <2>1, RawOfSheet
  <2>5. sheet.chosen \in Assets /\ sheet.recipient \in Accounts
    BY <1>1, <2>1 DEF FormTyped
  <2>6. WorkFits'
    BY <1>1, <2>1, <2>2, <2>4, <2>5 DEF WorkFits
  <2> QED
    BY <1>3, <2>3, <2>6 DEF Sound
<1>5. CASE ReadRecipient
  <2>1. UNCHANGED sheet /\ sheet.busy = "review"
    BY <1>5 DEF ReadRecipient
  <2>2. DOMAIN work = {"owner", "holdings", "asset", "recipient", "amount", "lamports", "open"}
    BY <1>1, <2>1 DEF TypeOK
  <2>3. /\ work'.owner = work.owner /\ work'.asset = work.asset
        /\ work'.recipient = work.recipient /\ work'.amount = work.amount
        /\ work'.open \in {work.open} \cup BOOLEAN
    BY <1>5, <2>2 DEF ReadRecipient
  <2>4. FormTyped'
    BY <1>1, <1>2, <2>1 DEF FormTyped
  <2>5. WorkFits'
    BY <2>1, <2>3 DEF Sound, WorkFits
  <2> QED
    BY <1>3, <2>4, <2>5 DEF Sound
<1>6. CASE Planned
  <2> DEFINE request == [owner |-> work.owner, asset |-> work.asset, recipient |-> work.recipient,
                         amount |-> work.amount, openAccount |-> work.open]
             plan == [request |-> request, cost |-> TransferCost(request),
                      problem |-> TransferProblem(request, work.holdings, work.lamports),
                      review |-> reviews, read |-> work]
  <2>1. /\ sheet.busy = "review" /\ work.open # None
        /\ sheet' = [sheet EXCEPT !.busy = "none", !.plan = plan]
    BY <1>6 DEF Planned
  <2>2. request \in Requests /\ request.asset = work.asset /\ request.openAccount = work.open
    BY <2>1 DEF Sound, WorkFits, Requests
  <2> HIDE DEF request
  <2>3. /\ plan.request = request /\ plan.read = work /\ plan.cost = TransferCost(request)
        /\ plan.problem = TransferProblem(request, work.holdings, work.lamports)
    OBVIOUS
  <2> HIDE DEF plan
  <2>4. PlanFits(plan)
    BY <2>2, <2>3 DEF PlanFits
  <2>5. /\ sheet'.chosen = sheet.chosen /\ sheet'.recipient = sheet.recipient
        /\ sheet'.amount = sheet.amount /\ sheet'.plan = plan /\ sheet'.busy = "none"
    BY <1>1, <2>1 DEF TypeOK
  <2>6. FormTyped'
    BY <1>1, <1>2, <2>5 DEF FormTyped
  <2>7. WorkFits'
    BY <2>4, <2>5 DEF WorkFits, PlanFits
  <2> QED
    BY <1>3, <2>6, <2>7 DEF Sound
<1>7. CASE PlanFails
  <2>1. /\ sheet'.chosen = sheet.chosen /\ sheet'.recipient = sheet.recipient
        /\ sheet'.amount = sheet.amount /\ sheet'.plan = sheet.plan /\ sheet'.busy = "none"
    BY <1>1, <1>7, FormStays DEF PlanFails, Fail
  <2>2. FormTyped'
    BY <1>1, <1>2, <2>1 DEF FormTyped
  <2>3. WorkFits'
    BY <2>1 DEF Sound, WorkFits, PlanFits
  <2> QED
    BY <1>3, <2>2, <2>3 DEF Sound
<1> QED
  BY <1>4, <1>5, <1>6, <1>7

(***************************************************************************)
(* The calls of a request, and what a wallet may make of them.             *)
(***************************************************************************)
LEMMA CallsOf ==
    ASSUME NEW request \in Requests
    PROVE  LET calls == TransferInstructions(request)
               open  == OpenAccount(request.owner, request.recipient)
               token == TransferToken(request.asset.account, request.owner, request.recipient,
                                      request.amount)
           IN \/ /\ request.asset = Sol
                 /\ calls = <<Pay(request.owner, request.recipient, request.amount)>>
              \/ /\ request.asset \in Tokens /\ request.openAccount
                 /\ calls = <<open, token>>
              \/ /\ request.asset \in Tokens /\ ~request.openAccount
                 /\ calls = <<token>>
<1>1. request.asset \in Assets /\ request.openAccount \in BOOLEAN
  BY DEF Requests
<1>2. CASE request.asset = Sol
  BY <1>2 DEF TransferInstructions, Sol
<1>3. CASE request.asset \in Tokens
  <2>1. request.asset.kind = "token"
    BY <1>3 DEF Tokens
  <2> DEFINE open == OpenAccount(request.owner, request.recipient)
             token == TransferToken(request.asset.account, request.owner, request.recipient,
                                    request.amount)
             calls == TransferInstructions(request)
  <2>2. calls = (IF request.openAccount THEN <<open>> ELSE <<>>) \o <<token>>
    BY <2>1 DEF TransferInstructions
  <2> HIDE DEF open, token, calls
  <2>3. calls = IF request.openAccount THEN <<open, token>> ELSE <<token>>
    BY <1>1, <2>2, OneThenOne
  <2> QED
    BY <1>1, <1>3, <2>3 DEF open, token, calls
<1> QED
  BY <1>1, <1>2, <1>3 DEF Assets

Payments == [call : {"pay"}, from : Accounts, to : Accounts, amount : Nat]
            \cup [call : {"token"}, from : Accounts, authority : Accounts, to : Accounts,
                  amount : Nat]

LEMMA CallsFit ==
    ASSUME NEW request \in Requests
    PROVE  LET calls == TransferInstructions(request)
           IN /\ calls \in Seq(Calls) /\ Len(calls) \in {1, 2}
              /\ calls[Len(calls)] \in Payments
<1>1. /\ request.owner \in Accounts /\ request.recipient \in Accounts /\ request.amount \in Nat
      /\ request.asset \in Tokens => request.asset.account \in Accounts
  BY DEF Requests, Accounts, Tokens
<1> DEFINE pay == Pay(request.owner, request.recipient, request.amount)
           open  == OpenAccount(request.owner, request.recipient)
           token == TransferToken(request.asset.account, request.owner, request.recipient,
                                  request.amount)
           calls == TransferInstructions(request)
<1>2. pay \in Payments
  BY <1>1 DEF Pay, Payments
<1>3. request.asset \in Tokens => token \in Payments
  BY <1>1 DEF TransferToken, Payments
<1>4. open \in Calls /\ Payments \subseteq Calls
  BY <1>1 DEF OpenAccount, Calls, Payments
<1>5. \/ calls = <<pay>>
      \/ request.asset \in Tokens /\ calls = <<open, token>>
      \/ request.asset \in Tokens /\ calls = <<token>>
  BY CallsOf
<1> HIDE DEF pay, open, token, calls
<1>6. calls \in Seq(Calls) /\ Len(calls) \in {1, 2} /\ calls[Len(calls)] \in Payments
  <2>1. ASSUME NEW c \in Payments, calls = <<c>>
        PROVE  calls \in Seq(Calls) /\ Len(calls) = 1 /\ calls[1] \in Payments
    BY <1>4, <2>1
  <2>2. ASSUME NEW c \in Payments, calls = <<open, c>>
        PROVE  calls \in Seq(Calls) /\ Len(calls) = 2 /\ calls[2] \in Payments
    BY <1>4, <2>2
  <2> QED
    BY <1>2, <1>3, <1>5, <2>1, <2>2
<1> QED
  BY <1>6 DEF calls

LEMMA AlteredFits ==
    ASSUME NEW request \in Requests, NEW tx \in Altered(BuildTransferTransaction(request))
    PROVE  tx \in Transactions
<1> DEFINE asked == BuildTransferTransaction(request)
           calls == TransferInstructions(request)
           last  == Len(calls)
<1>1. /\ asked = [feePayer |-> request.owner, signers |-> {request.owner}, calls |-> calls]
      /\ request.owner \in Wallets /\ request.owner \in Accounts
  BY DEF BuildTransferTransaction, Requests, Accounts
<1>2. /\ calls \in Seq(Calls) /\ last \in {1, 2} /\ calls[last] \in Payments
      /\ last \in 1 .. Len(calls) /\ calls # <<>>
  BY CallsFit
<1> HIDE DEF calls
<1>3. ASSUME NEW s \in Seq(Calls) PROVE [asked EXCEPT !.calls = s] \in Transactions
  BY <1>1 DEF Transactions
<1>4. Guard \in Calls /\ calls[last] \in Calls /\ Payments \subseteq Calls
  BY <1>2 DEF Calls, Payments
<1>5. /\ <<Guard>> \o calls \o <<Guard>> \in Seq(Calls)
      /\ calls \o <<calls[last]>> \in Seq(Calls) /\ Tail(calls) \in Seq(Calls)
  <2>1. <<Guard>> \in Seq(Calls) /\ <<calls[last]>> \in Seq(Calls)
    BY <1>4
  <2> QED
    BY <1>2, <2>1, ConcatProperties, HeadTailProperties
<1>6. ASSUME NEW call \in Payments
      PROVE  [asked EXCEPT !.calls[last] = call] \in Transactions
  <2>1. [calls EXCEPT ![last] = call] \in Seq(Calls)
    BY <1>2, <1>4, ExceptSeq
  <2>2. [asked EXCEPT !.calls[last] = call] = [asked EXCEPT !.calls = [calls EXCEPT ![last] = call]]
    BY <1>1
  <2> QED
    BY <1>3, <2>1, <2>2
<1>7. /\ [calls[last] EXCEPT !.amount = @ + 1] \in Payments
      /\ \A a \in Accounts : [calls[last] EXCEPT !.to = a] \in Payments
  <2> DEFINE call == calls[last]
  <2>1. call \in Payments
    BY <1>2
  <2> HIDE DEF call
  <2>2. /\ [call EXCEPT !.amount = @ + 1] \in Payments
        /\ \A a \in Accounts : [call EXCEPT !.to = a] \in Payments
    BY <2>1 DEF Payments
  <2> QED
    BY <2>2 DEF call
<1>8. asked \in Transactions
  BY <1>1, <1>2 DEF Transactions
<1>9. /\ \A w \in Wallets : [asked EXCEPT !.feePayer = w] \in Transactions
      /\ \A w \in Wallets : [asked EXCEPT !.signers = @ \cup {w}] \in Transactions
  BY <1>8 DEF Transactions, Accounts
<1>10. CASE tx = [asked EXCEPT !.calls[last].amount = @ + 1]
  <2>1. tx = [asked EXCEPT !.calls[last] = [calls[last] EXCEPT !.amount = @ + 1]]
    BY <1>1, <1>10
  <2> QED
    BY <1>6, <1>7, <2>1
<1>11. ASSUME NEW a \in Accounts, tx = [asked EXCEPT !.calls[last].to = a]
       PROVE  tx \in Transactions
  <2>1. tx = [asked EXCEPT !.calls[last] = [calls[last] EXCEPT !.to = a]]
    BY <1>1, <1>11
  <2> QED
    BY <1>6, <1>7, <2>1
<1>12. asked.calls = calls
  BY <1>1
<1>13. CASE \/ tx = [asked EXCEPT !.calls = <<Guard>> \o @ \o <<Guard>>]
            \/ tx = [asked EXCEPT !.calls = @ \o <<@[last]>>]
            \/ tx = [asked EXCEPT !.calls = Tail(@)]
  <2>1. \/ tx = [asked EXCEPT !.calls = <<Guard>> \o calls \o <<Guard>>]
        \/ tx = [asked EXCEPT !.calls = calls \o <<calls[last]>>]
        \/ tx = [asked EXCEPT !.calls = Tail(calls)]
    BY <1>12, <1>13
  <2> QED
    BY <1>3, <1>5, <2>1
<1> QED
  <2>1. \/ tx = asked \/ tx = [asked EXCEPT !.calls = <<Guard>> \o @ \o <<Guard>>]
        \/ tx = [asked EXCEPT !.calls = @ \o <<@[last]>>]
        \/ tx = [asked EXCEPT !.calls = Tail(@)]
        \/ tx = [asked EXCEPT !.calls[last].amount = @ + 1]
        \/ \E a \in Accounts : tx = [asked EXCEPT !.calls[last].to = a]
        \/ \E w \in Wallets : tx = [asked EXCEPT !.feePayer = w]
        \/ \E w \in Wallets : tx = [asked EXCEPT !.signers = @ \cup {w}]
    BY <1>12 DEF Altered
  <2> HIDE DEF asked, last
  <2> QED
    BY <1>8, <1>9, <1>10, <1>11, <1>13, <2>1

(***************************************************************************)
(* Sending, and what comes of it.                                          *)
(***************************************************************************)
LEMMA SendSound ==
    ASSUME Inv, Sound, PressSend \/ SendFails \/ SendDismissed \/ WalletSigns
    PROVE  Sound'
<1>1. TypeOK /\ FormTyped /\ WorkFits /\ SentFits
  BY DEF Inv, Sound
<1>2. UNCHANGED <<ledger, holdings, sent>>
  BY DEF PressSend, SendFails, SendDismissed, WalletSigns, chainVars, walletVars
<1>3. LedgerLives' /\ SentFits'
  BY <1>2 DEF Sound, LedgerLives, SentFits
<1>4. CASE PressSend
  <2>1. /\ sheet' = [sheet EXCEPT !.busy = "send", !.failed = FALSE]
        /\ work'.plan = sheet.plan /\ work'.stage = "asked" /\ sheet.plan # None
    BY <1>4 DEF PressSend, Offers
  <2>2. /\ sheet'.chosen = sheet.chosen /\ sheet'.recipient = sheet.recipient
        /\ sheet'.amount = sheet.amount /\ sheet'.plan = sheet.plan /\ sheet'.busy = "send"
    BY <1>1, <2>1, FormStays
  <2>3. FormTyped' /\ WorkFits'
    BY <1>1, <1>2, <2>1, <2>2 DEF FormTyped, WorkFits, PlanFits
  <2> QED
    BY <1>3, <2>3 DEF Sound
<1>5. CASE SendFails \/ SendDismissed
  <2>1. /\ sheet'.chosen = sheet.chosen /\ sheet'.recipient = sheet.recipient
        /\ sheet'.amount = sheet.amount /\ sheet'.plan = sheet.plan /\ sheet'.busy = "none"
    BY <1>1, <1>5, FormStays DEF SendFails, SendDismissed, Fail
  <2>2. FormTyped' /\ WorkFits'
    BY <1>1, <1>2, <2>1 DEF FormTyped, WorkFits, PlanFits
  <2> QED
    BY <1>3, <2>2 DEF Sound
<1>6. CASE WalletSigns
  <2>1. sheet.busy = "send" /\ UNCHANGED sheet
    BY <1>6 DEF WalletSigns
  <2>2. PICK tx \in Altered(BuildTransferTransaction(work.plan.request)) :
           /\ IntactFor(tx, work.plan.request)
           /\ work' = [work EXCEPT !.tx = tx, !.stage = "signed"]
    BY <1>6 DEF WalletSigns, IntactFor, BuildTransferTransaction
  <2>3. work'.plan = work.plan /\ work'.tx = tx
    BY <1>1, <2>1, <2>2 DEF TypeOK
  <2>4. tx \in Transactions
    BY <1>1, <2>1, AlteredFits DEF WorkFits, PlanFits
  <2>5. FormTyped' /\ WorkFits'
    BY <1>1, <1>2, <2>1, <2>2, <2>3, <2>4 DEF FormTyped, WorkFits, PlanFits
  <2> QED
    BY <1>3, <2>5 DEF Sound
<1> QED
  BY <1>4, <1>5, <1>6

\* A transaction is submitted: by the page only what is intact.
LEMMA SubmittedFits ==
    ASSUME TypeOK, SentFits, NEW tx \in Transactions, NEW by, PlanFits(work.plan),
           by = "page" => IntactFor(tx, work.plan.request),
           sent' = Submitted(tx, by)
    PROVE  SentFits'
<1> DEFINE new == [tx |-> tx, by |-> by, plan |-> work.plan, press |-> Len(pressed),
                   status |-> "pending"]
           last == Len(sent) + 1
<1>1. new.tx = tx /\ new.by = by /\ new.plan = work.plan
  OBVIOUS
<1>2. sent' = Append(sent, new) /\ IsSequence(sent)
  BY DEF Submitted, TypeOK
<1> HIDE DEF new
<1>3. /\ DOMAIN sent = 1 .. Len(sent) /\ DOMAIN sent' = 1 .. last /\ Len(sent) \in Nat
      /\ \A i \in DOMAIN sent : sent'[i] = sent[i]
      /\ sent'[last] = new
  BY <1>2, AppendKeeps, SequenceDomain
<1>4. \A i \in DOMAIN sent' : i \in DOMAIN sent \/ i = last
  BY <1>3
<1> QED
  BY <1>1, <1>3, <1>4 DEF SentFits, PlanFits

LEMMA SubmitSound ==
    ASSUME Inv, Sound, Broadcast \/ WalletSends
    PROVE  Sound'
<1>1. TypeOK /\ FormTyped /\ WorkFits /\ SentFits
  BY DEF Inv, Sound
<1>2. UNCHANGED <<ledger, holdings>> /\ sheet.busy = "send" /\ PlanFits(work.plan)
  BY <1>1 DEF Broadcast, WalletSends, chainVars, walletVars, WorkFits
<1>3. LedgerLives'
  BY <1>2 DEF Sound, LedgerLives
<1>4. CASE Broadcast
  <2>1. work.stage = "signed" /\ sent' = Submitted(work.tx, "page")
    BY <1>4 DEF Broadcast
  <2>2. SentFits'
    BY <1>1, <1>2, <2>1, SubmittedFits DEF WorkFits
  <2>3. CASE work' = [work EXCEPT !.stage = "sent"] /\ UNCHANGED sheet
    <3>1. work'.plan = work.plan /\ work'.stage = "sent"
      BY <1>1, <1>2, <2>3 DEF TypeOK
    <3>2. FormTyped' /\ WorkFits'
      BY <1>1, <1>2, <2>3, <3>1 DEF FormTyped, WorkFits, PlanFits
    <3> QED
      BY <1>3, <2>2, <3>2 DEF Sound
  <2>4. CASE Fail
    <3>1. /\ sheet'.chosen = sheet.chosen /\ sheet'.recipient = sheet.recipient
          /\ sheet'.amount = sheet.amount /\ sheet'.plan = sheet.plan /\ sheet'.busy = "none"
      BY <1>1, <2>4, FormStays DEF Fail
    <3>2. FormTyped' /\ WorkFits'
      BY <1>1, <1>2, <3>1 DEF FormTyped, WorkFits, PlanFits
    <3> QED
      BY <1>3, <2>2, <3>2 DEF Sound
  <2> QED
    BY <1>4, <2>3, <2>4 DEF Broadcast
<1>5. CASE WalletSends
  <2>1. PICK tx \in Altered(BuildTransferTransaction(work.plan.request)) :
           /\ sent' = Submitted(tx, "wallet")
           /\ work' = [work EXCEPT !.tx = tx, !.stage = "sent"]
    BY <1>5 DEF WalletSends
  <2>2. tx \in Transactions
    BY <1>2, AlteredFits DEF PlanFits
  <2>3. SentFits'
    BY <1>1, <1>2, <2>1, <2>2, SubmittedFits
  <2>4. UNCHANGED sheet /\ work'.plan = work.plan /\ work'.stage = "sent"
    BY <1>1, <1>2, <1>5, <2>1 DEF TypeOK, WalletSends
  <2>5. FormTyped' /\ WorkFits'
    BY <1>1, <1>2, <2>4 DEF FormTyped, WorkFits, PlanFits
  <2> QED
    BY <1>3, <2>3, <2>5 DEF Sound
<1> QED
  BY <1>4, <1>5

LEMMA ConfirmedSound ==
    ASSUME Inv, Sound, Confirmed
    PROVE  Sound'
<1>1. TypeOK /\ FormTyped /\ SentFits /\ LedgerLives /\ wallet \in Wallets
  BY DEF Inv, Sound, TypeOK
<1>2. /\ sheet' = Finished(sheet) /\ UNCHANGED <<ledger, sent>>
      /\ holdings' \in {holdings, Snapshot(wallet)}
  BY DEF Confirmed, chainVars
<1>3. /\ sheet'.chosen = sheet.chosen /\ sheet'.recipient = None /\ sheet'.amount = NoText
      /\ sheet'.plan = None /\ sheet'.busy = "none"
  BY <1>1, <1>2 DEF TypeOK, Finished, Closed
<1>4. FormTyped'
  BY <1>1, <1>2, <1>3, TextsFit, SnapshotFits DEF FormTyped, LedgerLives
<1>5. LedgerLives' /\ SentFits' /\ WorkFits'
  BY <1>1, <1>2, <1>3 DEF LedgerLives, SentFits, WorkFits
<1> QED
  BY <1>4, <1>5 DEF Sound

LEMMA LandSound ==
    ASSUME Inv, Sound, Land
    PROVE  Sound'
<1>1. TypeOK /\ FormTyped /\ WorkFits /\ SentFits /\ Living(ledger)
  BY DEF Inv, Sound, LedgerLives, Living
<1>2. PICK i \in DOMAIN sent :
         \E status \in {"landed", "failed", "dropped"} :
            /\ sent' = [sent EXCEPT ![i].status = status]
            /\ \/ /\ Succeeds(ledger, sent[i].tx) /\ ledger' = Outcome(ledger, sent[i].tx)
               \/ /\ Payable(ledger, sent[i].tx) /\ ledger' = Charged(ledger, sent[i].tx)
               \/ UNCHANGED ledger
  BY DEF Land
<1>3. sent[i].tx \in Transactions
  BY <1>1 DEF SentFits
<1>4. Living(ledger)'
  <2>1. CASE Succeeds(ledger, sent[i].tx) /\ ledger' = Outcome(ledger, sent[i].tx)
    <3>1. Living(Outcome(ledger, sent[i].tx))
      BY <1>1, <1>3, <2>1, OutcomeLives DEF Succeeds
    <3> QED
      BY <2>1, <3>1 DEF Living
  <2>2. CASE Payable(ledger, sent[i].tx) /\ ledger' = Charged(ledger, sent[i].tx)
    <3>1. Living(Charged(ledger, sent[i].tx))
      BY <1>1, <1>3, <2>2, OutcomeLives
    <3> QED
      BY <2>2, <3>1 DEF Living
  <2>3. CASE UNCHANGED ledger
    BY <1>1, <2>3 DEF Living
  <2> QED
    BY <1>2, <2>1, <2>2, <2>3
<1>5. PICK status : sent' = [sent EXCEPT ![i].status = status]
  BY <1>2
<1> DEFINE new == [sent[i] EXCEPT !.status = status]
<1>6. new.tx = sent[i].tx /\ new.by = sent[i].by /\ new.plan = sent[i].plan
  BY <1>1 DEF TypeOK
<1>7. sent' = [sent EXCEPT ![i] = new] /\ IsSequence(sent)
  BY <1>1, <1>5 DEF TypeOK
<1> HIDE DEF new
<1>8. /\ DOMAIN sent' = DOMAIN sent
      /\ \A j \in DOMAIN sent : sent'[j] = IF j = i THEN new ELSE sent[j]
  BY <1>7, ChangeKeeps
<1>9. SentFits'
  BY <1>1, <1>6, <1>8 DEF SentFits, PlanFits
<1>10. UNCHANGED <<holdings, sheet, work>>
  BY DEF Land, walletVars
<1>11. FormTyped' /\ WorkFits' /\ LedgerLives'
  BY <1>1, <1>4, <1>10 DEF FormTyped, WorkFits, PlanFits, LedgerLives, Living
<1> QED
  BY <1>9, <1>11 DEF Sound

LEMMA OutsideSound ==
    ASSUME Inv, Sound, ChainChanges \/ SwitchWallet \/ Fetch \/ UNCHANGED vars
    PROVE  Sound'
<1>1. TypeOK /\ FormTyped /\ WorkFits /\ SentFits /\ LedgerLives /\ wallet \in Wallets
  BY DEF Inv, Sound, TypeOK
<1>2. UNCHANGED <<sheet, work, sent>>
  BY DEF ChainChanges, SwitchWallet, Fetch, sendVars, vars
<1>3. WorkFits' /\ SentFits'
  BY <1>1, <1>2 DEF WorkFits, SentFits, PlanFits
<1>4. holdings' \in {holdings, None, Snapshot(wallet)}
  BY DEF ChainChanges, SwitchWallet, Fetch, walletVars, vars
<1>5. FormTyped'
  BY <1>1, <1>2, <1>4, SnapshotFits DEF FormTyped, LedgerLives
<1>6. LedgerLives'
  <2>1. CASE UNCHANGED ledger
    BY <1>1, <2>1 DEF LedgerLives
  <2>2. CASE ChainChanges
    <3>1. PICK a \in Accounts :
             \/ \E n \in Lamports : ledger' = [ledger EXCEPT !.lamports[a] = n]
             \/ ledger' = [ledger EXCEPT !.opened = @ \cup {a}]
             \/ ledger' = [ledger EXCEPT !.opened = @ \ {a}]
      BY <2>2 DEF ChainChanges
    <3>2. ledger \in Ledger
      BY <1>1 DEF LedgerLives
    <3>3. ASSUME NEW n \in Lamports, ledger' = [ledger EXCEPT !.lamports[a] = n]
          PROVE  LedgerLives'
      <4>1. n \in Nat /\ Lives(n)
        BY SheetAssumption DEF Lives
      <4>2. ledger' \in Ledger
        BY <3>2, <3>3, <4>1 DEF Ledger
      <4>3. \A b \in Accounts : ledger'.lamports[b] = IF b = a THEN n ELSE ledger.lamports[b]
        BY <3>2, <3>3 DEF Ledger
      <4> QED
        BY <1>1, <4>1, <4>2, <4>3 DEF LedgerLives
    <3>4. ASSUME NEW opened \in SUBSET Accounts, ledger' = [ledger EXCEPT !.opened = opened]
          PROVE  LedgerLives'
      BY <1>1, <3>4 DEF LedgerLives, Ledger
    <3>5. ledger.opened \cup {a} \in SUBSET Accounts /\ ledger.opened \ {a} \in SUBSET Accounts
      BY <3>2 DEF Ledger
    <3> QED
      BY <3>1, <3>3, <3>4, <3>5
  <2> QED
    BY <2>1, <2>2 DEF ChainChanges, SwitchWallet, Fetch, chainVars, vars
<1> QED
  BY <1>3, <1>5, <1>6 DEF Sound

LEMMA InitSound == Init => Sound
<1> SUFFICES ASSUME Init PROVE Sound
  OBVIOUS
<1>1. LedgerLives
  BY SheetAssumption DEF Init, LedgerLives, Lives
<1>2. FormTyped
  BY TextsFit DEF Init, FormTyped, Assets
<1>3. WorkFits /\ SentFits
  BY DEF Init, WorkFits, SentFits
<1> QED
  BY <1>1, <1>2, <1>3 DEF Sound

LEMMA NextSound == Inv /\ Sound /\ [Next]_vars => Sound'
BY FormActionsSound, ReviewSound, SendSound, SubmitSound, ConfirmedSound, LandSound,
   OutsideSound DEF Next

(***************************************************************************)
(* The chain, the form, what is planned and what is sent are of their       *)
(* types, no account is left with less than its rent, and every plan says  *)
(* what was found for its request.                                         *)
(***************************************************************************)
THEOREM SoundCorrect == Spec => []Sound
BY InvCorrect, InitSound, NextSound, PTL DEF Spec

(***************************************************************************)
(* Max fills in the most that can be sent, for every balance, fee, rent    *)
(* and number of decimals.                                                 *)
(***************************************************************************)
LEMMA MostIsFilledIn ==
    ASSUME holdings \in Holdings, NEW asset \in Listed(holdings),
           NEW to \in Accounts \ {holdings.wallet}
    PROVE  LET raw == UiAmountToRaw(MaxText(asset), Decimals(asset))
               Problem(amount) ==
                   TransferProblem([owner |-> holdings.wallet, asset |-> asset, recipient |-> to,
                                    amount |-> amount, openAccount |-> FALSE],
                                   holdings, SystemAccountRent)
           IN IF raw = NoAmount THEN Problem(1) # "none"
              ELSE /\ Problem(raw) = "none" \/ (asset # Sol /\ NeedsSolForFees(holdings))
                   /\ Problem(raw + 1) # "none"
<1> DEFINE raw == UiAmountToRaw(MaxText(asset), Decimals(asset))
           most == MaxSendable(holdings, asset, FALSE)
           Problem(amount) ==
               TransferProblem(Asked(holdings.wallet, asset, to, amount), holdings,
                               SystemAccountRent)
<1>1. holdings.lamports \in Nat /\ asset \in Assets
  BY ListedFits DEF Holdings
<1>2. SystemAccountRent \in Nat \ {0} /\ holdings.wallet # to
  BY Costs
<1>3. most \in Nat
  BY <1>1, MostFits
<1>4. raw = IF most = 0 THEN NoAmount ELSE most
  BY <1>3, DecimalsFit, AmountsReadBack DEF MaxText
<1>5. ASSUME NEW amount \in Nat
      PROVE  /\ Problem(amount) = "none" => amount \in 1 .. most
             /\ amount \in 1 .. most =>
                  Problem(amount) = "none" \/ (asset # Sol /\ NeedsSolForFees(holdings))
  <2>1. CASE asset = Sol
    <3>1. TransferProblem(Asked(holdings.wallet, Sol, to, amount), holdings,
                            SystemAccountRent) = "none"
            <=> amount \in 1 .. MaxSendable(holdings, Sol, FALSE)
      BY <1>1, <1>2, MostOfSol
    <3>2. Problem(amount) = "none" <=> amount \in 1 .. most
      BY <2>1, <3>1, Zenon
    <3> QED
      BY <3>2
  <2>2. CASE asset # Sol
    <3>1. asset = holdings.token /\ ~asset.frozen /\ asset.kind = "token" /\ asset.amount \in Nat
      BY <2>2 DEF Listed, Holdings, Tokens
    <3>2. SystemAccountRent \in Nat
      BY <1>2
    <3>3. /\ holdings.lamports \in Nat /\ holdings.wallet # to /\ asset.kind = "token"
          /\ ~asset.frozen /\ asset.amount \in Nat
      BY <1>1, <1>2, <3>1
    <3>4. TransferProblem(Asked(holdings.wallet, asset, to, amount), holdings,
                          SystemAccountRent) = "none"
            <=> amount \in 1 .. MaxSendable(holdings, asset, FALSE) /\ ~NeedsSolForFees(holdings)
      BY <3>2, <3>3, MostOfToken, Zenon
    <3>5. Problem(amount) = "none" <=> amount \in 1 .. most /\ ~NeedsSolForFees(holdings)
      BY <3>4
    <3> QED
      BY <2>2, <3>5
  <2> QED
    BY <2>1, <2>2
<1> HIDE DEF Problem, most, raw
<1>6. CASE most = 0
  <2>1. raw = NoAmount /\ ~(1 \in 1 .. most)
    BY <1>4, <1>6
  <2> QED
    BY <1>5, <2>1 DEF Problem, raw, Asked
<1>7. CASE most # 0
  <2>1. raw = most /\ raw # NoAmount /\ raw \in 1 .. most /\ ~(raw + 1 \in 1 .. most)
        /\ raw \in Nat /\ raw + 1 \in Nat
    BY <1>3, <1>4, <1>7 DEF NoAmount
  <2>2. Problem(raw) = "none" \/ (asset # Sol /\ NeedsSolForFees(holdings))
    BY <1>5, <2>1
  <2>3. Problem(raw + 1) # "none"
    BY <1>5, <2>1
  <2> QED
    BY <2>1, <2>2, <2>3 DEF Problem, raw, Asked
<1> QED
  BY <1>6, <1>7

(***************************************************************************)
(* Max fills in the most that can be sent, whatever the wallet holds.      *)
(***************************************************************************)
THEOREM AlwaysMaxIsMost == Spec => []MaxIsMost
<1>1. Sound => MaxIsMost
  BY MostIsFilledIn DEF Sound, FormTyped, MaxIsMost
<1> QED
  BY <1>1, SoundCorrect, PTL

(***************************************************************************)
(* A plan without a problem, made of what is still so, can be paid.        *)
(***************************************************************************)
LEMMA BuiltFits ==
    ASSUME NEW request \in Requests
    PROVE  LET tx == BuildTransferTransaction(request)
           IN /\ tx \in Transactions /\ tx.feePayer = request.owner
              /\ tx.calls = TransferInstructions(request)
<1> DEFINE tx == BuildTransferTransaction(request)
<1>1. tx \in Altered(tx)
  BY DEF Altered
<1>2. tx \in Transactions
  BY <1>1, AlteredFits
<1> QED
  BY <1>2 DEF BuildTransferTransaction

\* What is so when no reason against a transfer applies.
LEMMA NoProblem ==
    ASSUME NEW request \in Requests, NEW held \in Holdings, NEW lamports \in Nat,
           TransferProblem(request, held, lamports) = "none"
    PROVE  /\ request.recipient # request.owner /\ request.amount > 0
           /\ request.asset # Sol => ~request.asset.frozen /\ request.amount <= request.asset.amount
           /\ LET rent == RentToOpen(request.openAccount)
                  out == (IF request.asset = Sol THEN request.amount ELSE 0)
                            + TransferFeeLamports + rent
              IN /\ TransferCost(request).solOut = out /\ out \in Nat
                 /\ held.lamports >= out + SystemAccountRent
           /\ request.asset = Sol /\ lamports = 0 => request.amount >= SystemAccountRent
<1> DEFINE rent == RentToOpen(request.openAccount)
           out == (IF request.asset = Sol THEN request.amount ELSE 0) + TransferFeeLamports + rent
<1>1. /\ request.amount \in Nat /\ request.asset \in Assets /\ held.lamports \in Nat
      /\ rent \in Nat /\ TransferFeeLamports \in Nat
      /\ SystemAccountRent \in Nat /\ SystemAccountRent > 0
  BY Costs DEF Requests, Holdings, RentToOpen
<1>2. /\ request.asset = Sol <=> request.asset.kind = "sol"
      /\ request.asset # Sol <=> request.asset.kind = "token"
  BY <1>1 DEF Assets, Tokens, Sol
<1>3. request.asset # Sol => request.asset.frozen \in BOOLEAN /\ request.asset.amount \in Nat
  BY <1>1 DEF Assets, Tokens
<1> HIDE DEF rent
<1>4. TransferCost(request).solOut = out /\ out \in Nat
  BY <1>1, <1>2 DEF TransferCost, rent
<1> HIDE DEF out
<1>5. Left(request, held) = held.lamports - out
  BY <1>4 DEF Left
<1>6. /\ request.recipient # request.owner /\ ~(request.amount <= 0)
      /\ ~(request.asset.kind = "token" /\ request.asset.frozen)
      /\ ~(request.asset.kind = "token" /\ request.amount > request.asset.amount)
      /\ ~(Left(request, held) < SystemAccountRent)
      /\ ~(request.asset.kind = "sol" /\ lamports = 0 /\ request.amount < SystemAccountRent)
  BY DEF TransferProblem
<1>7. held.lamports >= out + SystemAccountRent
  <2> DEFINE has == held.lamports
  <2>1. has \in Nat /\ ~(has - out < SystemAccountRent)
    BY <1>1, <1>5, <1>6
  <2> HIDE DEF has
  <2>2. has >= out + SystemAccountRent
    BY <1>1, <1>4, <2>1
  <2> QED
    BY <2>2 DEF has
<1> QED
  BY <1>1, <1>2, <1>3, <1>4, <1>6, <1>7 DEF out, rent

LEMMA FeeIsPaid ==
    ASSUME NEW l \in Ledger, NEW tx \in Transactions,
           l.lamports[tx.feePayer] >= TransferFeeLamports + SystemAccountRent
    PROVE  /\ Payable(l, tx)
           /\ Charged(l, tx) = [l EXCEPT !.lamports[tx.feePayer] = @ - TransferFeeLamports]
           /\ Charged(l, tx) \in Ledger
<1> DEFINE payer == tx.feePayer
           has == l.lamports[payer]
<1>1. payer \in Accounts /\ has \in Nat
  BY DEF Transactions, Ledger
<1>2. Charged(l, tx).lamports[payer] = has - TransferFeeLamports
  BY <1>1 DEF Charged, Ledger
<1>3. has >= TransferFeeLamports /\ has - TransferFeeLamports >= SystemAccountRent
  <2>1. has >= TransferFeeLamports + SystemAccountRent
    OBVIOUS
  <2> HIDE DEF has
  <2> QED
    BY <1>1, <2>1, Costs
<1>4. Payable(l, tx)
  BY <1>2, <1>3 DEF Payable, Lives
<1> QED
  BY <1>4, ChargedFits

\* Every account whose balance changes lives on.
LiveOn(l, end) ==
    \A a \in Accounts : end.lamports[a] = l.lamports[a] \/ Lives(end.lamports[a])

LEMMA LandsAs ==
    ASSUME NEW l \in Ledger, NEW tx \in Transactions, Payable(l, tx), NEW end \in Ledger,
           After(l, tx)[Len(tx.calls)] = end, LiveOn(l, end)
    PROVE  Succeeds(l, tx) /\ Outcome(l, tx) = end
<1>1. end # None
  BY SheetAssumption
<1>2. Outcome(l, tx) = end
  BY <1>1 DEF Outcome, LiveOn
<1> QED
  BY <1>1, <1>2 DEF Succeeds

LEMMA OneCall ==
    ASSUME NEW l \in Ledger, NEW tx \in Transactions, Payable(l, tx), Len(tx.calls) = 1
    PROVE  After(l, tx)[Len(tx.calls)] = Execute(Charged(l, tx), tx.calls[1])
<1>1. /\ After(l, tx)[0] = Charged(l, tx)
      /\ \A n \in 1 .. 1 : After(l, tx)[n] = Execute(After(l, tx)[n - 1], tx.calls[n])
  BY AfterStep
<1>2. After(l, tx)[1] = Execute(After(l, tx)[1 - 1], tx.calls[1])
  BY <1>1
<1> QED
  BY <1>1, <1>2

LEMMA TwoCalls ==
    ASSUME NEW l \in Ledger, NEW tx \in Transactions, Payable(l, tx), Len(tx.calls) = 2
    PROVE  After(l, tx)[Len(tx.calls)] =
              Execute(Execute(Charged(l, tx), tx.calls[1]), tx.calls[2])
<1>1. /\ After(l, tx)[0] = Charged(l, tx)
      /\ \A n \in 1 .. 2 : After(l, tx)[n] = Execute(After(l, tx)[n - 1], tx.calls[n])
  BY AfterStep
<1>2. /\ After(l, tx)[1] = Execute(After(l, tx)[1 - 1], tx.calls[1])
      /\ After(l, tx)[2] = Execute(After(l, tx)[2 - 1], tx.calls[2])
  BY <1>1
<1> QED
  BY <1>1, <1>2

LEMMA PayMoves ==
    ASSUME NEW l \in Ledger, NEW from \in Accounts, NEW to \in Accounts, NEW amount \in Nat,
           from # to, amount <= l.lamports[from]
    PROVE  LET end == Execute(l, Pay(from, to, amount))
           IN /\ end \in Ledger
              /\ end.lamports[from] = l.lamports[from] - amount
              /\ end.lamports[to] = l.lamports[to] + amount
              /\ \A a \in Accounts \ {from, to} : end.lamports[a] = l.lamports[a]
<1> DEFINE end == Execute(l, Pay(from, to, amount))
<1>1. l.lamports \in [Accounts -> Nat] /\ ~(amount > l.lamports[from])
  BY DEF Ledger
<1>2. end \in Ledger /\ end = [l EXCEPT !.lamports = Moved(@, from, to, amount)]
  BY <1>1, PayFits
<1>3. end.lamports = Moved(l.lamports, from, to, amount)
  BY <1>2 DEF Ledger
<1>4. AsMoved(l.lamports, Moved(l.lamports, from, to, amount), from, to, amount)
  BY <1>1, MovedFits
<1> HIDE DEF end
<1> QED
  BY <1>2, <1>3, <1>4 DEF end, AsMoved

LEMMA TokenMoves ==
    ASSUME NEW l \in Ledger, NEW from \in Accounts, NEW to \in Accounts, NEW amount \in Nat,
           from # to, amount <= l.tokens[from], to \in l.opened,
           from \notin l.frozen, to \notin l.frozen
    PROVE  LET end == Execute(l, TransferToken(from, from, to, amount))
           IN /\ end \in Ledger
              /\ end.tokens[to] = l.tokens[to] + amount
              /\ end.lamports = l.lamports
<1> DEFINE end == Execute(l, TransferToken(from, from, to, amount))
<1>1. /\ l.tokens \in [Accounts -> Nat] /\ ~(amount > l.tokens[from])
      /\ {from, to} \cap l.frozen = {}
  BY DEF Ledger
<1>2. end \in Ledger /\ end = [l EXCEPT !.tokens = Moved(@, from, to, amount)]
  BY <1>1, TokenFits
<1>3. end.tokens = Moved(l.tokens, from, to, amount) /\ end.lamports = l.lamports
  BY <1>2 DEF Ledger
<1>4. AsMoved(l.tokens, Moved(l.tokens, from, to, amount), from, to, amount)
  BY <1>1, MovedFits
<1> HIDE DEF end
<1> QED
  BY <1>2, <1>3, <1>4 DEF end, AsMoved

\* What the wallet keeps of its lamports, of what a request costs in fact.
Keeps(request) ==
    ledger.lamports[request.owner] - TransferCost(request).solOut - LeftOut(request)

LEMMA SolArrives ==
    ASSUME Living(ledger), NEW request \in Requests, request.asset = Sol,
           ~request.openAccount,
           NEW held \in Holdings, held.lamports = ledger.lamports[request.owner],
           TransferProblem(request, held, ledger.lamports[request.recipient]) = "none"
    PROVE  LET tx == BuildTransferTransaction(request)
               end == Outcome(ledger, tx)
           IN /\ Succeeds(ledger, tx)
              /\ Lives(Keeps(request)) /\ end.lamports[request.owner] = Keeps(request)
              /\ end.lamports[request.recipient] - ledger.lamports[request.recipient]
                    = request.amount
<1> DEFINE owner == request.owner
           to == request.recipient
           amount == request.amount
           fee == TransferFeeLamports
           tx == BuildTransferTransaction(request)
           charged == Charged(ledger, tx)
           end == Execute(charged, Pay(owner, to, amount))
           had == ledger.lamports[owner]
           has == ledger.lamports[to]
<1>1. /\ owner \in Accounts /\ to \in Accounts /\ amount \in Nat
      /\ ledger \in Ledger /\ had \in Nat /\ has \in Nat /\ Lives(has)
      /\ ledger.lamports \in [Accounts -> Nat]
  BY DEF Requests, Accounts, Living, Ledger
<1>2. fee \in Nat /\ SystemAccountRent \in Nat /\ SystemAccountRent > 0
  BY Costs
<1> HIDE DEF fee
<1>3. RentToOpen(request.openAccount) = 0
  BY DEF RentToOpen
<1>4. /\ to # owner /\ TransferCost(request).solOut = amount + fee
      /\ had >= amount + fee + SystemAccountRent
      /\ has = 0 => amount >= SystemAccountRent
  <2>1. /\ to # owner
        /\ has = 0 => amount >= SystemAccountRent
        /\ TransferCost(request).solOut = amount + fee + 0
        /\ had >= amount + fee + 0 + SystemAccountRent
    BY <1>1, <1>3, NoProblem DEF fee
  <2> HIDE DEF amount, had, has
  <2> QED
    BY <1>1, <1>2, <2>1
<1>5. /\ tx \in Transactions /\ tx.feePayer = owner /\ tx.calls = <<Pay(owner, to, amount)>>
  BY BuiltFits, CallsOf DEF Tokens, Sol
<1>6. ledger.lamports[tx.feePayer] >= TransferFeeLamports + SystemAccountRent
  <2>1. had >= fee + SystemAccountRent
    <3> HIDE DEF had, amount
    <3> QED
      BY <1>1, <1>2, <1>4
  <2> QED
    BY <1>5, <2>1 DEF fee
<1> HIDE DEF tx
<1>7. /\ Payable(ledger, tx) /\ charged \in Ledger
      /\ charged = [ledger EXCEPT !.lamports[owner] = @ - fee]
  BY <1>1, <1>5, <1>6, FeeIsPaid DEF fee
<1>8. /\ charged.lamports[owner] = had - fee
      /\ \A a \in Accounts \ {owner} : charged.lamports[a] = ledger.lamports[a]
      /\ charged.lamports \in [Accounts -> Nat]
  BY <1>1, <1>7 DEF Ledger
<1>9. After(ledger, tx)[Len(tx.calls)] = end
  <2>1. Len(tx.calls) = 1 /\ tx.calls[1] = Pay(owner, to, amount)
    BY <1>5
  <2>2. After(ledger, tx)[Len(tx.calls)] = Execute(charged, tx.calls[1])
    BY <1>1, <1>5, <1>7, <2>1, OneCall
  <2> QED
    BY <2>1, <2>2
<1> HIDE DEF charged
<1>10. amount <= charged.lamports[owner]
  <2>1. amount <= had - fee
    <3> HIDE DEF had, amount
    <3> QED
      BY <1>1, <1>2, <1>4
  <2> QED
    BY <1>8, <2>1
<1>11. /\ end \in Ledger
       /\ end.lamports[owner] = charged.lamports[owner] - amount
       /\ end.lamports[to] = charged.lamports[to] + amount
       /\ \A a \in Accounts \ {owner, to} : end.lamports[a] = charged.lamports[a]
  <2>1. charged \in Ledger /\ owner # to
    BY <1>4, <1>7
  <2>2. owner \in Accounts /\ to \in Accounts /\ amount \in Nat
    BY <1>1
  <2> HIDE DEF owner, to, amount
  <2> QED
    BY <1>10, <2>1, <2>2, PayMoves, Zenon
<1>12. /\ end.lamports[owner] = had - fee - amount
       /\ end.lamports[to] = has + amount
       /\ \A a \in Accounts \ {owner, to} : end.lamports[a] = ledger.lamports[a]
  <2> HIDE DEF end, owner, to, amount
  <2> QED
    BY <1>1, <1>4, <1>8, <1>11
<1> HIDE DEF end, had, has, owner, to, amount
<1>13. Lives(end.lamports[owner]) /\ Lives(end.lamports[to])
  BY <1>1, <1>2, <1>4, <1>12 DEF Lives
<1>14. LiveOn(ledger, end)
  BY <1>12, <1>13 DEF LiveOn
<1>15. Succeeds(ledger, tx) /\ Outcome(ledger, tx) = end
  <2>1. ledger \in Ledger /\ tx \in Transactions /\ Payable(ledger, tx) /\ end \in Ledger
    BY <1>1, <1>5, <1>7, <1>11
  <2> QED
    BY <1>9, <1>14, <2>1, LandsAs
<1>16. end.lamports[owner] = Keeps(request) /\ end.lamports[to] - has = amount
  <2>1. Keeps(request) = had - (amount + fee) - 0
    BY <1>4 DEF Keeps, LeftOut, had, owner
  <2> QED
    BY <1>1, <1>2, <1>12, <2>1
<1> QED
  BY <1>13, <1>15, <1>16 DEF tx, had, has, owner, to, amount

LEMMA AccountOpens ==
    ASSUME NEW l \in Ledger, NEW payer \in Accounts, NEW owner \in Accounts,
           owner \notin l.opened, l.lamports[payer] >= TokenAccountRent + ExtensionRent
    PROVE  LET end == Execute(l, OpenAccount(payer, owner))
           IN /\ end \in Ledger
              /\ end.lamports[payer] = l.lamports[payer] - (TokenAccountRent + ExtensionRent)
              /\ \A a \in Accounts \ {payer} : end.lamports[a] = l.lamports[a]
              /\ owner \in end.opened /\ end.tokens = l.tokens /\ end.frozen = l.frozen
<1> DEFINE end == Execute(l, OpenAccount(payer, owner))
           rent == TokenAccountRent + ExtensionRent
<1>1. rent \in Nat
  BY Costs
<1>2. l.lamports \in [Accounts -> Nat] /\ l.opened \subseteq Accounts
  BY DEF Ledger
<1>3. ~(l.lamports[payer] < rent)
  BY <1>1, <1>2
<1>4. /\ end \in Ledger
      /\ end = [l EXCEPT !.opened = @ \cup {owner}, !.lamports[payer] = @ - rent]
  BY <1>3, OpenFits
<1> HIDE DEF rent, end
<1>5. /\ end.lamports = [l.lamports EXCEPT ![payer] = @ - rent]
      /\ end.opened = l.opened \cup {owner} /\ end.tokens = l.tokens /\ end.frozen = l.frozen
  BY <1>4 DEF Ledger
<1>6. /\ end.lamports[payer] = l.lamports[payer] - rent
      /\ \A a \in Accounts \ {payer} : end.lamports[a] = l.lamports[a]
  BY <1>2, <1>5
<1> QED
  BY <1>4, <1>5, <1>6 DEF end, rent

LEMMA TokenArrives ==
    ASSUME Living(ledger), NEW request \in Requests,
           request.asset = Snapshot(request.owner).token,
           request.openAccount = (request.recipient \notin ledger.opened),
           request.recipient \notin ledger.frozen,
           NEW held \in Holdings, held.lamports = ledger.lamports[request.owner],
           TransferProblem(request, held, ledger.lamports[request.recipient]) = "none",
           Lives(Keeps(request))
    PROVE  LET tx == BuildTransferTransaction(request)
               end == Outcome(ledger, tx)
           IN /\ Succeeds(ledger, tx)
              /\ end.lamports[request.owner] = Keeps(request)
              /\ end.tokens[request.recipient] - ledger.tokens[request.recipient]
                    = request.amount
<1> DEFINE owner == request.owner
           to == request.recipient
           amount == request.amount
           fee == TransferFeeLamports
           rent == RentToOpen(request.openAccount)
           extra == LeftOut(request)
           tx == BuildTransferTransaction(request)
           open == OpenAccount(owner, to)
           token == TransferToken(owner, owner, to, amount)
           charged == Charged(ledger, tx)
           opened == IF to \in ledger.opened THEN charged ELSE Execute(charged, open)
           end == Execute(opened, token)
           had == ledger.lamports[owner]
           has == ledger.tokens[to]
<1>1. /\ owner \in Accounts /\ to \in Accounts /\ amount \in Nat
      /\ ledger \in Ledger /\ had \in Nat /\ has \in Nat /\ ledger.tokens[owner] \in Nat
      /\ ledger.lamports[to] \in Nat
      /\ ledger.lamports \in [Accounts -> Nat]
  BY DEF Requests, Accounts, Living, Ledger
<1>2. /\ request.asset \in Tokens /\ request.asset # Sol /\ request.asset.account = owner
      /\ request.asset.amount = ledger.tokens[owner]
      /\ request.asset.frozen = (owner \in ledger.frozen)
  BY <1>1 DEF Snapshot, Tokens, Sol
<1>3. /\ fee \in Nat /\ SystemAccountRent \in Nat /\ rent \in Nat /\ extra \in Nat
      /\ rent = IF to \in ledger.opened THEN 0 ELSE TokenAccountRent
      /\ extra = IF to \in ledger.opened THEN 0 ELSE ExtensionRent
  BY Costs DEF RentToOpen, LeftOut
<1>4. /\ owner # to /\ amount <= ledger.tokens[owner] /\ owner \notin ledger.frozen
      /\ TransferCost(request).solOut = fee + rent
      /\ had >= fee + rent + SystemAccountRent
  <2>1. /\ owner # to
        /\ ~request.asset.frozen /\ amount <= request.asset.amount
        /\ TransferCost(request).solOut = 0 + fee + rent
        /\ had >= 0 + fee + rent + SystemAccountRent
    BY <1>1, <1>2, NoProblem
  <2>2. fee \in Nat /\ rent \in Nat /\ SystemAccountRent \in Nat /\ had \in Nat
    BY <1>1, <1>3
  <2> HIDE DEF had, fee, rent, owner, to, amount
  <2>3. 0 + fee + rent = fee + rent
    BY <2>2
  <2>4. had >= fee + rent + SystemAccountRent /\ TransferCost(request).solOut = fee + rent
    BY <2>1, <2>3
  <2> QED
    BY <1>2, <2>1, <2>4
<1>5. /\ tx \in Transactions /\ tx.feePayer = owner
      /\ tx.calls = IF to \in ledger.opened THEN <<token>> ELSE <<open, token>>
  BY <1>2, BuiltFits, CallsOf
<1>0. Keeps(request) = had - (fee + rent) - extra /\ Lives(had - (fee + rent) - extra)
  BY <1>4 DEF Keeps
<1> HIDE DEF fee, rent, extra, tx
<1>6. ledger.lamports[tx.feePayer] >= TransferFeeLamports + SystemAccountRent
  <2>1. had >= fee + SystemAccountRent
    <3> HIDE DEF had
    <3> QED
      BY <1>1, <1>3, <1>4
  <2> QED
    BY <1>5, <2>1 DEF fee
<1>7. /\ Payable(ledger, tx) /\ charged \in Ledger
      /\ charged = [ledger EXCEPT !.lamports[owner] = @ - fee]
  BY <1>1, <1>5, <1>6, FeeIsPaid DEF fee
<1>8. /\ charged.lamports[owner] = had - fee
      /\ \A a \in Accounts \ {owner} : charged.lamports[a] = ledger.lamports[a]
      /\ charged.tokens = ledger.tokens /\ charged.opened = ledger.opened
      /\ charged.frozen = ledger.frozen
  BY <1>1, <1>7 DEF Ledger
<1>9. After(ledger, tx)[Len(tx.calls)] = end
  <2> HIDE DEF token, open, charged
  <2>1. CASE to \in ledger.opened
    <3>1. Len(tx.calls) = 1 /\ tx.calls[1] = token
      BY <1>5, <2>1
    <3>2. After(ledger, tx)[Len(tx.calls)] = Execute(charged, tx.calls[1])
      BY <1>1, <1>5, <1>7, <3>1, OneCall DEF charged
    <3> QED
      BY <2>1, <3>1, <3>2
  <2>2. CASE to \notin ledger.opened
    <3>1. Len(tx.calls) = 2 /\ tx.calls[1] = open /\ tx.calls[2] = token
      BY <1>5, <2>2
    <3>2. After(ledger, tx)[Len(tx.calls)] = Execute(Execute(charged, tx.calls[1]), tx.calls[2])
      BY <1>1, <1>5, <1>7, <3>1, TwoCalls DEF charged
    <3> QED
      BY <2>2, <3>1, <3>2
  <2> QED
    BY <2>1, <2>2
<1> HIDE DEF charged
<1>10. /\ opened \in Ledger /\ to \in opened.opened
       /\ opened.lamports[owner] = had - (fee + rent) - extra
       /\ \A a \in Accounts \ {owner} : opened.lamports[a] = ledger.lamports[a]
       /\ opened.tokens = ledger.tokens /\ opened.frozen = ledger.frozen
  <2>1. CASE to \in ledger.opened
    <3>1. opened = charged /\ had - fee = had - (fee + rent) - extra
      <4>1. rent = 0 /\ extra = 0
        BY <1>3, <2>1
      <4> HIDE DEF had
      <4>2. had - fee = had - (fee + rent) - extra
        BY <1>1, <1>3, <4>1
      <4> QED
        BY <2>1, <4>2
    <3> HIDE DEF opened
    <3> QED
      BY <1>7, <1>8, <2>1, <3>1
  <2>2. CASE to \notin ledger.opened
    <3>1. /\ rent = TokenAccountRent /\ extra = ExtensionRent
          /\ opened = Execute(charged, open)
      BY <1>3, <2>2
    <3>0. /\ TokenAccountRent + ExtensionRent \in Nat
          /\ had - fee >= TokenAccountRent + ExtensionRent
          /\ had - fee - (TokenAccountRent + ExtensionRent) = had - (fee + rent) - extra
      <4>1. had - (fee + rent) - extra >= 0
        <5> HIDE DEF had
        <5> QED
          BY <1>0, <1>1, <1>3 DEF Lives
      <4> HIDE DEF had
      <4> QED
        BY <1>1, <1>3, <3>1, <4>1
    <3>2. charged.lamports[owner] >= TokenAccountRent + ExtensionRent
      BY <1>8, <3>0
    <3>3. to \notin charged.opened
      BY <1>8, <2>2
    <3> DEFINE after == Execute(charged, open)
    <3>4. /\ after \in Ledger
          /\ after.lamports[owner] = charged.lamports[owner] - (TokenAccountRent + ExtensionRent)
          /\ \A a \in Accounts \ {owner} : after.lamports[a] = charged.lamports[a]
          /\ to \in after.opened /\ after.tokens = charged.tokens /\ after.frozen = charged.frozen
      <4>1. owner \in Accounts /\ to \in Accounts /\ charged \in Ledger
        BY <1>1, <1>7
      <4> HIDE DEF owner, to
      <4> QED
        BY <3>2, <3>3, <4>1, AccountOpens, Zenon
    <3> HIDE DEF opened, after
    <3> QED
      BY <1>8, <3>0, <3>1, <3>4 DEF after
  <2> QED
    BY <2>1, <2>2
<1> HIDE DEF opened
<1>11. /\ end \in Ledger /\ end.tokens[to] = has + amount
       /\ end.lamports = opened.lamports
  <2>1. /\ owner \in Accounts /\ to \in Accounts /\ amount \in Nat /\ owner # to
        /\ opened \in Ledger /\ amount <= opened.tokens[owner] /\ to \in opened.opened
        /\ owner \notin opened.frozen /\ to \notin opened.frozen
    BY <1>1, <1>4, <1>10
  <2>2. opened.tokens[to] = has
    BY <1>10
  <2> HIDE DEF owner, to, amount, has
  <2>3. /\ end \in Ledger /\ end.tokens[to] = opened.tokens[to] + amount
        /\ end.lamports = opened.lamports
    BY <2>1, TokenMoves, Zenon
  <2> QED
    BY <2>2, <2>3
<1> HIDE DEF opened, end, had, has, owner, to, amount
<1>12. LiveOn(ledger, end)
  <2>1. Lives(end.lamports[owner])
    BY <1>0, <1>1, <1>10, <1>11
  <2> QED
    BY <1>10, <1>11, <2>1 DEF LiveOn
<1>13. Succeeds(ledger, tx) /\ Outcome(ledger, tx) = end
  <2>1. ledger \in Ledger /\ tx \in Transactions /\ Payable(ledger, tx) /\ end \in Ledger
    BY <1>1, <1>5, <1>7, <1>11
  <2> QED
    BY <1>9, <1>12, <2>1, LandsAs
<1>14. end.lamports[owner] = Keeps(request) /\ end.tokens[to] - has = amount
  BY <1>0, <1>1, <1>10, <1>11
<1> QED
  BY <1>13, <1>14 DEF tx, had, has, owner, to, amount

(***************************************************************************)
(* It does not, if what opening the account really costs leaves the wallet *)
(* with less than its rent.                                                *)
(***************************************************************************)
LEMMA TokenRefused ==
    ASSUME Living(ledger), NEW request \in Requests,
           request.asset = Snapshot(request.owner).token, request.openAccount,
           request.recipient \notin ledger.opened,
           ~Lives(Keeps(request))
    PROVE  ~Succeeds(ledger, BuildTransferTransaction(request))
<1> DEFINE owner == request.owner
           to == request.recipient
           fee == TransferFeeLamports
           rent == TokenAccountRent + ExtensionRent
           tx == BuildTransferTransaction(request)
           open == OpenAccount(owner, to)
           token == TransferToken(owner, owner, to, request.amount)
           charged == Charged(ledger, tx)
           opened == Execute(charged, open)
           end == Execute(opened, token)
           had == ledger.lamports[owner]
<1> SUFFICES ASSUME Succeeds(ledger, tx) PROVE Lives(Keeps(request))
  OBVIOUS
<1>1. /\ owner \in Accounts /\ to \in Accounts /\ request.amount \in Nat
      /\ ledger \in Ledger /\ had \in Nat /\ Lives(had)
      /\ ledger.lamports \in [Accounts -> Nat]
  BY DEF Requests, Accounts, Living, Ledger
<1>2. /\ request.asset \in Tokens /\ request.asset # Sol /\ request.asset.account = owner
  BY <1>1 DEF Snapshot, Tokens, Sol, Ledger
<1>3. fee \in Nat /\ rent \in Nat /\ TokenAccountRent \in Nat /\ ExtensionRent \in Nat
  BY Costs
<1>4. Keeps(request) = had - fee - rent
  <2>1. TransferCost(request).solOut = 0 + fee + TokenAccountRent
    BY <1>2 DEF TransferCost, RentToOpen, Tokens
  <2>2. LeftOut(request) = ExtensionRent
    BY DEF LeftOut
  <2> HIDE DEF had, fee
  <2>3. had - (0 + fee + TokenAccountRent) - ExtensionRent = had - fee - rent
    BY <1>1, <1>3
  <2> QED
    BY <2>1, <2>2, <2>3 DEF Keeps, had
<1>5. /\ tx \in Transactions /\ tx.feePayer = owner /\ tx.calls = <<open, token>>
  BY <1>2, BuiltFits, CallsOf
<1>6. Payable(ledger, tx) /\ Outcome(ledger, tx) # None
  BY DEF Succeeds
<1> HIDE DEF tx
<1>7. /\ charged.lamports[owner] = had - fee /\ charged.opened = ledger.opened
      /\ charged \in Ledger
  BY <1>1, <1>5, <1>6, ChargedFits DEF Ledger, Charged
<1> HIDE DEF charged
<1>8. After(ledger, tx)[Len(tx.calls)] = end
  <2> HIDE DEF open, token
  <2>1. Len(tx.calls) = 2 /\ tx.calls[1] = open /\ tx.calls[2] = token
    BY <1>5
  <2> QED
    BY <1>1, <1>5, <1>6, <2>1, TwoCalls DEF charged
<1>9. end # None /\ (end.lamports[owner] = had \/ Lives(end.lamports[owner]))
  <2> HIDE DEF end
  <2> QED
    BY <1>1, <1>6, <1>8 DEF Outcome
<1>10. opened # None /\ end.lamports = opened.lamports
  <2> HIDE DEF opened
  <2>1. opened # None
    BY <1>9 DEF Execute
  <2>2. end.lamports = opened.lamports
    BY <1>9, <2>1 DEF Execute, TransferToken
  <2> QED
    BY <2>1, <2>2
<1>11. opened.lamports[owner] = had - fee - rent
  <2>1. charged # None /\ to \notin charged.opened
    BY <1>7, SheetAssumption
  <2>2. charged.lamports[owner] >= rent
    <3>1. opened = IF charged.lamports[owner] < TokenAccountRent + ExtensionRent THEN None
                   ELSE [charged EXCEPT !.opened = @ \cup {to},
                             !.lamports[owner] = @ - TokenAccountRent - ExtensionRent]
      <4>1. open.call = "open" /\ open.owner = to /\ open.payer = owner
        BY DEF OpenAccount
      <4> HIDE DEF open
      <4> QED
        BY <2>1, <4>1 DEF Execute
    <3>2. charged.lamports[owner] \in Nat
      BY <1>1, <1>7 DEF Ledger
    <3> HIDE DEF opened
    <3> QED
      BY <1>3, <1>10, <3>1, <3>2
  <2> HIDE DEF rent
  <2>3. opened.lamports[owner] = charged.lamports[owner] - rent
    BY <1>1, <1>7, <2>1, <2>2, AccountOpens DEF rent
  <2> QED
    BY <1>7, <2>3
<1> HIDE DEF end, opened, had
<1> QED
  BY <1>1, <1>4, <1>9, <1>10, <1>11

(***************************************************************************)
(* What is offered to be sent is accepted by the chain, unless something   *)
(* changed since it was reviewed or the extensions of the account it opens *)
(* cost what the wallet must keep: for every balance, fee, rent and        *)
(* amount.  What arrives and what leaves is exact.                         *)
(***************************************************************************)
THEOREM AlwaysOfferedIsSendable == Spec => []OfferedIsSendable
<1>1. ASSUME Sound PROVE OfferedIsSendable
  <2> DEFINE plan == sheet.plan
             request == plan.request
             held == plan.read.holdings
             lamports == plan.read.lamports
             tx == BuildTransferTransaction(request)
             end == Outcome(ledger, tx)
             had == ledger.lamports[request.owner]
             out == TransferCost(request).solOut
             arrives == IF request.asset = Sol
                        THEN end.lamports[request.recipient]
                               - ledger.lamports[request.recipient] = request.amount
                        ELSE end.tokens[request.recipient]
                               - ledger.tokens[request.recipient] = request.amount
  <2> SUFFICES ASSUME Offers(sheet, holdings), StillTrue(plan)
               PROVE  /\ had - plan.cost.solOut >= SystemAccountRent
                      /\ Succeeds(ledger, tx)
                            <=> Lives(had - plan.cost.solOut - LeftOut(request))
                      /\ Succeeds(ledger, tx) =>
                            /\ end.lamports[request.owner]
                                  = had - plan.cost.solOut - LeftOut(request)
                            /\ arrives
    BY DEF OfferedIsSendable
  <2>1. Living(ledger) /\ ledger \in Ledger /\ PlanFits(plan) /\ plan.problem = "none"
    BY <1>1 DEF Sound, LedgerLives, Living, WorkFits, Offers
  <2>2. /\ request \in Requests /\ plan.cost.solOut = out
        /\ plan.read.asset = request.asset /\ plan.read.open = request.openAccount
        /\ TransferProblem(request, held, lamports) = "none"
    BY <2>1 DEF PlanFits
  <2>3. /\ held = Snapshot(request.owner) /\ lamports = ledger.lamports[request.recipient]
        /\ request.asset \in {Sol, held.token}
        /\ request.openAccount = (request.asset # Sol /\ request.recipient \notin ledger.opened)
        /\ request.recipient \notin ledger.frozen
    BY <2>2 DEF StillTrue
  <2>4. request.owner \in Wallets /\ held \in Holdings
    BY <2>1, <2>2, <2>3, SnapshotFits DEF Requests
  <2>5. held.lamports = had
    BY <2>3 DEF Snapshot
  <2>6. TransferProblem(request, held, ledger.lamports[request.recipient]) = "none"
    BY <2>2, <2>3
  <2> DEFINE to == ledger.lamports[request.recipient]
  <2>12. to \in Nat
    BY <2>1, <2>2 DEF Requests, Ledger
  <2> HIDE DEF plan, request, held, lamports
  <2>11. /\ out \in Nat /\ held.lamports >= out + SystemAccountRent
         /\ held.lamports \in Nat
    <3>1. TransferProblem(request, held, to) = "none"
      BY <2>6
    <3> HIDE DEF to, out
    <3>2. /\ held.lamports \in Nat
          /\ LET rent == RentToOpen(request.openAccount)
                 spent == (IF request.asset = Sol THEN request.amount ELSE 0)
                            + TransferFeeLamports + rent
             IN /\ TransferCost(request).solOut = spent /\ spent \in Nat
                /\ held.lamports >= spent + SystemAccountRent
      BY <2>2, <2>4, <2>12, <3>1, NoProblem DEF Holdings
    <3> QED
      BY <3>2 DEF out
  <2>7. had - out >= SystemAccountRent
    <3> HIDE DEF had, out
    <3> QED
      BY <2>5, <2>11, Costs
  <2>8. Keeps(request) = had - out - LeftOut(request)
    BY DEF Keeps
  <2>9. Lives(Keeps(request)) =>
            Succeeds(ledger, tx) /\ end.lamports[request.owner] = Keeps(request) /\ arrives
    <3>1. CASE request.asset = Sol
      <4>1. ~request.openAccount
        BY <2>3, <3>1
      <4> QED
        BY <2>1, <2>2, <2>4, <2>5, <2>6, <3>1, <4>1, SolArrives
    <3>2. CASE request.asset # Sol
      <4>1. /\ request.asset = Snapshot(request.owner).token
            /\ request.openAccount = (request.recipient \notin ledger.opened)
        BY <2>3, <3>2
      <4> QED
        BY <2>1, <2>2, <2>3, <2>4, <2>5, <2>6, <3>2, <4>1, TokenArrives
    <3> QED
      BY <3>1, <3>2
  <2>10. ~Lives(Keeps(request)) => ~Succeeds(ledger, tx)
    <3> SUFFICES ASSUME ~Lives(Keeps(request)) PROVE ~Succeeds(ledger, tx)
      OBVIOUS
    <3>1. request.openAccount
      <4> SUFFICES ASSUME ~request.openAccount PROVE Lives(Keeps(request))
        OBVIOUS
      <4>1. Keeps(request) = had - out - 0 /\ had \in Nat /\ out \in Nat
        BY <2>5, <2>8, <2>11 DEF LeftOut
      <4> HIDE DEF had, out
      <4> QED
        BY <2>7, <4>1 DEF Lives
    <3>2. /\ request.asset = Snapshot(request.owner).token
          /\ request.recipient \notin ledger.opened
      BY <2>3, <3>1
    <3> QED
      BY <2>1, <2>2, <3>1, <3>2, TokenRefused
  <2> HIDE DEF had, out, end, tx, arrives
  <2> QED
    BY <2>2, <2>7, <2>8, <2>9, <2>10
<1> QED
  BY <1>1, SoundCorrect, PTL

(***************************************************************************)
(* What an intact transaction takes from the wallet.                       *)
(***************************************************************************)

\* A call takes no more than that from an account.
TakesAtMost(call, payer, cost) ==
    \A l \in Ledger :
        Execute(l, call) \in Ledger => Execute(l, call).lamports[payer] >= l.lamports[payer] - cost

LEMMA FreeCalls ==
    ASSUME NEW payer \in Accounts
    PROVE  /\ TakesAtMost(Guard, payer, 0)
           /\ \A from, authority, to \in Accounts, amount \in Nat :
                 TakesAtMost(TransferToken(from, authority, to, amount), payer, 0)
<1>1. \A l \in Ledger : l.lamports[payer] \in Nat
  BY DEF Ledger
<1>2. TakesAtMost(Guard, payer, 0)
  BY <1>1, GuardFits DEF TakesAtMost
<1>3. ASSUME NEW from \in Accounts, NEW authority \in Accounts, NEW to \in Accounts,
             NEW amount \in Nat
      PROVE  TakesAtMost(TransferToken(from, authority, to, amount), payer, 0)
  <2> SUFFICES ASSUME NEW l \in Ledger,
                      Execute(l, TransferToken(from, authority, to, amount)) \in Ledger
               PROVE  Execute(l, TransferToken(from, authority, to, amount)).lamports[payer]
                        >= l.lamports[payer] - 0
    BY DEF TakesAtMost
  <2> DEFINE end == Execute(l, TransferToken(from, authority, to, amount))
  <2>1. end = [l EXCEPT !.tokens = Moved(@, from, to, amount)]
    BY TokenFits, SheetAssumption
  <2> HIDE DEF end
  <2>2. end.lamports = l.lamports
    BY <2>1 DEF Ledger
  <2> QED
    BY <1>1, <2>2 DEF end
<1> QED
  BY <1>2, <1>3

LEMMA PayTakes ==
    ASSUME NEW from \in Accounts, NEW to \in Accounts, NEW amount \in Nat
    PROVE  TakesAtMost(Pay(from, to, amount), from, amount)
<1> SUFFICES ASSUME NEW l \in Ledger, Execute(l, Pay(from, to, amount)) \in Ledger
             PROVE  Execute(l, Pay(from, to, amount)).lamports[from] >= l.lamports[from] - amount
  BY DEF TakesAtMost
<1> DEFINE end == Execute(l, Pay(from, to, amount))
<1>1. l.lamports \in [Accounts -> Nat] /\ l.lamports[from] \in Nat
  BY DEF Ledger
<1>2. ~(amount > l.lamports[from]) /\ end = [l EXCEPT !.lamports = Moved(@, from, to, amount)]
  BY PayFits, SheetAssumption
<1> HIDE DEF end
<1>3. end.lamports = Moved(l.lamports, from, to, amount)
  BY <1>2 DEF Ledger
<1>4. amount <= l.lamports[from]
  BY <1>1, <1>2
<1>5. AsMoved(l.lamports, Moved(l.lamports, from, to, amount), from, to, amount)
  BY <1>1, <1>4, MovedFits
<1> QED
  BY <1>1, <1>3, <1>5 DEF end, AsMoved

LEMMA OpenTakes ==
    ASSUME NEW payer \in Accounts, NEW owner \in Accounts
    PROVE  TakesAtMost(OpenAccount(payer, owner), payer, TokenAccountRent + ExtensionRent)
<1> DEFINE rent == TokenAccountRent + ExtensionRent
<1> SUFFICES ASSUME NEW l \in Ledger, Execute(l, OpenAccount(payer, owner)) \in Ledger
             PROVE  Execute(l, OpenAccount(payer, owner)).lamports[payer]
                      >= l.lamports[payer] - rent
  BY DEF TakesAtMost
<1> DEFINE end == Execute(l, OpenAccount(payer, owner))
<1>1. l.lamports[payer] \in Nat /\ rent \in Nat
  BY Costs DEF Ledger
<1>2. CASE owner \in l.opened
  <2>1. end = l
    BY <1>2, OpenFits
  <2> HIDE DEF end, rent
  <2> QED
    BY <1>1, <2>1 DEF end
<1>3. CASE owner \notin l.opened
  <2>1. ~(l.lamports[payer] < rent)
    BY <1>3, OpenFits, SheetAssumption
  <2>2. l.lamports[payer] >= rent
    <3> HIDE DEF rent
    <3> QED
      BY <1>1, <2>1
  <2>3. end.lamports[payer] = l.lamports[payer] - rent
    BY <1>3, <2>2, AccountOpens
  <2> HIDE DEF end, rent
  <2> QED
    BY <1>1, <2>3 DEF end
<1> QED
  BY <1>2, <1>3

LEMMA FailureStays ==
    ASSUME NEW call PROVE Execute(None, call) = None
BY DEF Execute

(***************************************************************************)
(* If one call may take something and the others nothing, no more than     *)
(* that and the fee is taken.                                              *)
(***************************************************************************)
LEMMA TakenInAll ==
    ASSUME NEW l \in Ledger, NEW tx \in Transactions, Payable(l, tx), NEW cost \in Nat,
           NEW place \in 1 .. Len(tx.calls), TakesAtMost(tx.calls[place], tx.feePayer, cost),
           \A n \in 1 .. Len(tx.calls) : n # place => TakesAtMost(tx.calls[n], tx.feePayer, 0),
           Outcome(l, tx) # None
    PROVE  l.lamports[tx.feePayer] - Outcome(l, tx).lamports[tx.feePayer]
             <= TransferFeeLamports + cost
<1> DEFINE payer == tx.feePayer
           places == Len(tx.calls)
           after == After(l, tx)
           had == l.lamports[payer]
           fee == TransferFeeLamports
           taken(n) == fee + (IF n < place THEN 0 ELSE cost)
           Kept(n) == after[n] # None => after[n].lamports[payer] >= had - taken(n)
           T == {n \in Nat : n <= places => Kept(n)}
<1>1. payer \in Accounts /\ had \in Nat /\ fee \in Nat /\ place \in Nat /\ place >= 1
  BY Costs DEF Transactions, Ledger
<1>2. /\ places \in Nat /\ after \in [0 .. places -> Ledger \cup {None}]
      /\ after[0] = Charged(l, tx)
      /\ \A n \in 1 .. places : after[n] = Execute(after[n - 1], tx.calls[n])
  BY AfterStep
<1>3. Charged(l, tx).lamports[payer] = had - fee
  BY <1>1 DEF Charged, Ledger
<1>4. \A n \in Nat : taken(n) \in Nat
  BY <1>1
<1> HIDE DEF after, places, had, fee
<1>5. 0 \in T
  <2>1. Kept(0)
    BY <1>1, <1>2, <1>3
  <2> QED
    BY <2>1
<1>6. ASSUME NEW n \in Nat, n \in T
      PROVE  n + 1 \in T
  <2> SUFFICES ASSUME n + 1 <= places, after[n + 1] # None
               PROVE  after[n + 1].lamports[payer] >= had - taken(n + 1)
    OBVIOUS
  <2>1. n + 1 \in 1 .. places /\ n \in 0 .. places /\ (n + 1) - 1 = n
    BY <1>2
  <2> DEFINE call == tx.calls[n + 1]
             before == after[n]
             now == after[n + 1]
             step == IF n + 1 = place THEN cost ELSE 0
  <2>2. now = Execute(before, call)
    BY <1>2, <2>1
  <2>3. before # None /\ before \in Ledger /\ now \in Ledger
    <3>1. before \in Ledger \cup {None} /\ now \in Ledger \cup {None} /\ now # None
      BY <1>2, <2>1
    <3> HIDE DEF call, before, now
    <3> QED
      BY <2>2, <3>1, FailureStays
  <2>4. TakesAtMost(call, payer, step)
    BY <2>1 DEF places
  <2> HIDE DEF call
  <2>5. now.lamports[payer] >= before.lamports[payer] - step
    BY <2>2, <2>3, <2>4 DEF TakesAtMost
  <2>6. before.lamports[payer] >= had - taken(n)
    BY <1>6, <2>1, <2>3
  <2>7. before.lamports[payer] \in Nat /\ now.lamports[payer] \in Nat
    BY <1>1, <2>3 DEF Ledger
  <2>8. taken(n + 1) = taken(n) + step /\ step \in Nat
    BY <1>1
  <2> DEFINE left == now.lamports[payer]
             was == before.lamports[payer]
             so == taken(n)
  <2>9. so \in Nat
    BY <1>4
  <2> HIDE DEF now, before, step, taken, left, was, so
  <2>10. left >= was - step /\ was >= had - so /\ left \in Nat /\ was \in Nat
    BY <2>5, <2>6, <2>7 DEF left, was, so
  <2>11. left >= had - (so + step)
    BY <1>1, <2>8, <2>9, <2>10
  <2>12. now.lamports[payer] >= had - taken(n + 1)
    BY <2>8, <2>11 DEF left, so
  <2> QED
    BY <2>12 DEF now
<1>7. Nat \subseteq T
  <2> HIDE DEF T
  <2> QED
    BY <1>5, <1>6, SetInduction
<1>8. Kept(places) /\ taken(places) = fee + cost
  <2>1. places \in T /\ places <= places
    BY <1>2, <1>7
  <2>2. Kept(places)
    <3> HIDE DEF Kept
    <3> QED
      BY <2>1
  <2>3. ~(places < place)
    BY <1>1, <1>2 DEF places
  <2> QED
    BY <2>2, <2>3
<1>9. Outcome(l, tx) = after[places] /\ after[places] # None
  BY DEF Outcome, after, places
<1>10. after[places].lamports[payer] \in Nat /\ after[places].lamports[payer] >= had - (fee + cost)
  <2>1. after[places] \in Ledger
    BY <1>2, <1>9
  <2> QED
    BY <1>1, <1>8, <1>9, <2>1 DEF Ledger
<1> QED
  <2> DEFINE left == after[places].lamports[payer]
  <2>1. left \in Nat /\ left >= had - (fee + cost)
    BY <1>10
  <2> HIDE DEF left
  <2>2. had - left <= fee + cost
    BY <1>1, <2>1
  <2> QED
    BY <1>9, <2>2 DEF left, had, fee

LEMMA IntactTakes ==
    ASSUME NEW l \in Ledger, NEW request \in Requests,
           NEW tx \in Transactions, IntactFor(tx, request), Succeeds(l, tx)
    PROVE  l.lamports[tx.feePayer] - Outcome(l, tx).lamports[tx.feePayer]
             <= TransferCost(request).solOut + LeftOut(request)
<1> DEFINE owner == request.owner
           to == request.recipient
           amount == request.amount
           calls == tx.calls
           expected == TransferInstructions(request)
           pay == Pay(owner, to, amount)
           open == OpenAccount(owner, to)
           token == TransferToken(request.asset.account, owner, to, amount)
           rent == RentToOpen(request.openAccount) + LeftOut(request)
           cost == IF request.asset = Sol THEN amount ELSE rent
           fee == TransferFeeLamports
<1>1. /\ owner \in Accounts /\ to \in Accounts /\ amount \in Nat /\ request.asset \in Assets
      /\ request.asset \in Tokens => request.asset.account \in Accounts
  BY DEF Requests, Accounts, Tokens
<1>2. /\ cost \in Nat /\ fee \in Nat /\ LeftOut(request) \in Nat
      /\ RentToOpen(request.openAccount) \in Nat
  BY <1>1, Costs DEF RentToOpen, LeftOut
<1>3. TransferCost(request).solOut + LeftOut(request) >= fee + cost
  <2>1. CASE request.asset = Sol
    <3>1. TransferCost(request).solOut = amount + fee + RentToOpen(request.openAccount)
      BY <2>1 DEF TransferCost, Sol
    <3>2. cost = amount
      BY <2>1
    <3> HIDE DEF cost, fee, amount
    <3> QED
      BY <1>1, <1>2, <3>1, <3>2
  <2>2. CASE request.asset # Sol
    <3>1. request.asset.kind = "token"
      BY <1>1, <2>2 DEF Assets, Tokens
    <3>2. TransferCost(request).solOut = 0 + fee + RentToOpen(request.openAccount)
      BY <3>1 DEF TransferCost
    <3>3. cost = RentToOpen(request.openAccount) + LeftOut(request)
      BY <2>2
    <3> HIDE DEF cost, fee
    <3> QED
      BY <1>2, <3>2, <3>3
  <2> QED
    BY <2>1, <2>2
<1>4. /\ TakesAtMost(pay, owner, amount)
      /\ TakesAtMost(open, owner, TokenAccountRent + ExtensionRent)
      /\ TakesAtMost(Guard, owner, 0)
      /\ request.asset \in Tokens => TakesAtMost(token, owner, 0)
  BY <1>1, PayTakes, OpenTakes, FreeCalls
<1>5. \/ expected = <<pay>> /\ TakesAtMost(pay, owner, cost)
      \/ /\ expected = <<open, token>>
         /\ TakesAtMost(open, owner, cost) /\ TakesAtMost(token, owner, 0)
      \/ expected = <<token>> /\ TakesAtMost(token, owner, cost)
  <2>1. CASE request.asset = Sol
    <3>1. expected = <<pay>> /\ cost = amount
      BY <2>1, CallsOf DEF Tokens, Sol
    <3> QED
      BY <1>4, <3>1
  <2>2. CASE request.asset \in Tokens /\ request.openAccount
    <3>1. expected = <<open, token>> /\ cost = TokenAccountRent + ExtensionRent
      BY <2>2, CallsOf DEF Tokens, Sol, RentToOpen, LeftOut
    <3> QED
      BY <1>4, <2>2, <3>1
  <2>3. CASE request.asset \in Tokens /\ ~request.openAccount
    <3>1. expected = <<token>> /\ cost = 0
      BY <2>3, CallsOf DEF Tokens, Sol, RentToOpen, LeftOut
    <3> QED
      BY <1>4, <2>3, <3>1
  <2> QED
    BY <2>1, <2>2, <2>3, CallsOf
<1> HIDE DEF pay, open, token, cost, expected, calls
<1>6. /\ 1 \in DOMAIN expected /\ TakesAtMost(expected[1], owner, cost)
      /\ \A m \in DOMAIN expected : m # 1 => TakesAtMost(expected[m], owner, 0)
  <2>1. ASSUME NEW c, expected = <<c>>, TakesAtMost(c, owner, cost)
        PROVE  /\ 1 \in DOMAIN expected /\ TakesAtMost(expected[1], owner, cost)
               /\ \A m \in DOMAIN expected : m # 1 => TakesAtMost(expected[m], owner, 0)
    BY <2>1
  <2>2. CASE expected = <<open, token>> /\ TakesAtMost(open, owner, cost)
             /\ TakesAtMost(token, owner, 0)
    <3>1. DOMAIN expected = {1, 2} /\ expected[1] = open /\ expected[2] = token
      BY <2>2
    <3> QED
      BY <2>2, <3>1
  <2> QED
    BY <1>5, <2>1, <2>2
<1>7. tx.feePayer = owner
      /\ \E place \in Matching(calls, expected) :
           \A i \in DOMAIN calls : calls[i] # Guard => \E n \in DOMAIN expected : place[n] = i
  BY DEF IntactFor, AssertTransferIntact, calls, expected
<1>8. PICK place \in Matching(calls, expected) :
         \A i \in DOMAIN calls : calls[i] # Guard => \E n \in DOMAIN expected : place[n] = i
  BY <1>7
<1>9. /\ place \in [DOMAIN expected -> DOMAIN calls]
      /\ \A n \in DOMAIN expected : calls[place[n]] = expected[n]
  BY DEF Matching
<1> DEFINE first == place[1]
<1>10. first \in DOMAIN calls /\ TakesAtMost(calls[first], owner, cost)
  BY <1>6, <1>9
<1>11. ASSUME NEW n \in DOMAIN calls, n # first
       PROVE  TakesAtMost(calls[n], owner, 0)
  <2>1. CASE calls[n] = Guard
    BY <1>4, <2>1
  <2>2. CASE calls[n] # Guard
    <3>1. PICK m \in DOMAIN expected : place[m] = n
      BY <1>8, <2>2
    <3> QED
      BY <1>6, <1>9, <1>11, <3>1
  <2> QED
    BY <2>1, <2>2
<1> HIDE DEF first, owner
<1>12. DOMAIN calls = 1 .. Len(calls)
  BY LenProperties DEF Transactions, calls
<1>13. l.lamports[tx.feePayer] - Outcome(l, tx).lamports[tx.feePayer] <= fee + cost
  <2>1. /\ first \in 1 .. Len(tx.calls) /\ TakesAtMost(tx.calls[first], tx.feePayer, cost)
        /\ \A n \in 1 .. Len(tx.calls) : n # first => TakesAtMost(tx.calls[n], tx.feePayer, 0)
    BY <1>7, <1>10, <1>11, <1>12 DEF calls
  <2>2. Payable(l, tx) /\ Outcome(l, tx) # None
    BY DEF Succeeds
  <2> QED
    BY <1>2, <2>1, <2>2, TakenInAll
<1> DEFINE taken == l.lamports[tx.feePayer] - Outcome(l, tx).lamports[tx.feePayer]
           out == TransferCost(request).solOut + LeftOut(request)
<1>14. taken \in Int /\ out \in Int
  <2>1. tx.feePayer \in Accounts /\ l.lamports[tx.feePayer] \in Int
    BY DEF Transactions, Ledger
  <2>2. Outcome(l, tx) \in Ledger
    <3>1. Outcome(l, tx) = After(l, tx)[Len(tx.calls)] /\ Outcome(l, tx) # None
      BY DEF Outcome, Succeeds
    <3>2. /\ Len(tx.calls) \in 0 .. Len(tx.calls)
          /\ After(l, tx) \in [0 .. Len(tx.calls) -> Ledger \cup {None}]
      BY AfterStep DEF Succeeds
    <3> QED
      BY <3>1, <3>2
  <2>3. Outcome(l, tx).lamports[tx.feePayer] \in Int
    BY <2>1, <2>2 DEF Ledger
  <2>4. out \in Int
    BY <1>1, <1>2, Costs DEF TransferCost, RentToOpen
  <2> QED
    BY <2>1, <2>3, <2>4
<1> HIDE DEF taken, out, fee, cost
<1>15. taken <= out
  BY <1>2, <1>3, <1>13, <1>14 DEF taken, out
<1> QED
  BY <1>15 DEF taken, out

(***************************************************************************)
(* No step but the landing of a transaction changes what becomes of it.    *)
(***************************************************************************)
LEMMA StatusStays ==
    ASSUME Inv, [Next]_vars, ~Land, NEW i \in DOMAIN sent
    PROVE  sent'[i] = sent[i]
<1>1. CASE UNCHANGED sent
  BY <1>1
<1>2. CASE Broadcast \/ WalletSends
  <2>1. IsSequence(sent) /\ \E e : sent' = Append(sent, e)
    BY <1>2 DEF Broadcast, WalletSends, Submitted, Inv, TypeOK
  <2> QED
    BY <2>1, AppendKeeps
<1> QED
  BY <1>1, <1>2 DEF Next, OpenSheet, CloseSheet, Choose, TypeRecipient, TypeAmount, PressMax,
     PressReview, ReadRecipient, Planned, PlanFails, PressSend, SendFails, SendDismissed,
     WalletSigns, Confirmed, ChainChanges, SwitchWallet, Fetch, sendVars, vars

LEMMA LandedTakes ==
    ASSUME Inv, Sound, [Next]_vars, NEW i \in DOMAIN sent, sent'[i].status = "landed",
           sent[i].status = "pending", sent[i].by = "page"
    PROVE  ledger.lamports[sent[i].tx.feePayer] - ledger'.lamports[sent[i].tx.feePayer]
             <= sent[i].plan.cost.solOut + LeftOut(sent[i].plan.request)
<1>1. Land
  BY StatusStays
<1>2. Succeeds(ledger, sent[i].tx) /\ ledger' = Outcome(ledger, sent[i].tx)
  <2>1. PICK j \in DOMAIN sent :
           \/ /\ Succeeds(ledger, sent[j].tx)
              /\ ledger' = Outcome(ledger, sent[j].tx)
              /\ sent' = [sent EXCEPT ![j].status = "landed"]
           \/ sent' = [sent EXCEPT ![j].status = "failed"]
           \/ sent' = [sent EXCEPT ![j].status = "dropped"]
    BY <1>1 DEF Land
  <2>2. PICK status : /\ sent' = [sent EXCEPT ![j].status = status]
                      /\ status = "landed" => /\ Succeeds(ledger, sent[j].tx)
                                              /\ ledger' = Outcome(ledger, sent[j].tx)
    BY <2>1
  <2> DEFINE new == [sent[j] EXCEPT !.status = status]
  <2>3. DOMAIN sent[j] = {"tx", "by", "plan", "press", "status"} /\ IsSequence(sent)
    BY DEF Inv, TypeOK
  <2>4. new.status = status /\ sent' = [sent EXCEPT ![j] = new]
    BY <2>2, <2>3
  <2> HIDE DEF new
  <2>5. sent'[i] = IF i = j THEN new ELSE sent[i]
    BY <2>3, <2>4, ChangeKeeps
  <2>6. i = j /\ status = "landed"
    BY <2>4, <2>5
  <2> QED
    BY <2>2, <2>6
<1>3. /\ ledger \in Ledger /\ sent[i].tx \in Transactions
      /\ sent[i].plan.request \in Requests
      /\ sent[i].plan.cost = TransferCost(sent[i].plan.request)
      /\ IntactFor(sent[i].tx, sent[i].plan.request)
  BY DEF Sound, LedgerLives, SentFits, PlanFits
<1> QED
  BY <1>2, <1>3, IntactTakes

(***************************************************************************)
(* A transfer that succeeds takes no more than the total it was reviewed   *)
(* with and, if it opens an account, the rent of the extensions the token  *)
(* program adds to it: whatever changed since it was reviewed, and         *)
(* whatever guards the wallet put in.                                      *)
(***************************************************************************)
THEOREM TotalMissesExtensionsOnly ==
    Spec => [][\A i \in DOMAIN sent :
                 sent'[i].status = "landed" /\ sent[i].status = "pending" /\ sent[i].by = "page" =>
                    LET payer == sent[i].tx.feePayer
                        plan  == sent[i].plan
                    IN ledger.lamports[payer] - ledger'.lamports[payer]
                         <= plan.cost.solOut + LeftOut(plan.request)]_vars
<1> DEFINE Kept == \A i \in DOMAIN sent :
         sent'[i].status = "landed" /\ sent[i].status = "pending" /\ sent[i].by = "page" =>
            LET payer == sent[i].tx.feePayer
                plan  == sent[i].plan
            IN ledger.lamports[payer] - ledger'.lamports[payer]
                 <= plan.cost.solOut + LeftOut(plan.request)
<1>1. ASSUME Inv, Sound, [Next]_vars PROVE [Kept]_vars
  <2> SUFFICES ASSUME NEW i \in DOMAIN sent, sent'[i].status = "landed",
                      sent[i].status = "pending", sent[i].by = "page"
               PROVE  ledger.lamports[sent[i].tx.feePayer] - ledger'.lamports[sent[i].tx.feePayer]
                        <= sent[i].plan.cost.solOut + LeftOut(sent[i].plan.request)
    OBVIOUS
  <2> QED
    BY <1>1, LandedTakes
<1> QED
  BY <1>1, InvCorrect, SoundCorrect, PTL DEF Spec

(***************************************************************************)
(* So the total shown is all the SOL that leaves the wallet, if a token    *)
(* program adds no extensions to the accounts it opens.                    *)
(***************************************************************************)
THEOREM TotalCoversAllButExtensions ==
    ASSUME ExtensionRent = 0
    PROVE  Spec => NoMoreThanShown
<1> DEFINE Kept == \A i \in DOMAIN sent :
         sent'[i].status = "landed" /\ sent[i].status = "pending" /\ sent[i].by = "page" =>
            LET payer == sent[i].tx.feePayer
            IN ledger.lamports[payer] - ledger'.lamports[payer] <= sent[i].plan.cost.solOut
<1>1. ASSUME Inv, Sound, [Next]_vars PROVE [Kept]_vars
  <2> SUFFICES ASSUME NEW i \in DOMAIN sent, sent'[i].status = "landed",
                      sent[i].status = "pending", sent[i].by = "page"
               PROVE  ledger.lamports[sent[i].tx.feePayer] - ledger'.lamports[sent[i].tx.feePayer]
                        <= sent[i].plan.cost.solOut
    OBVIOUS
  <2>1. ledger.lamports[sent[i].tx.feePayer] - ledger'.lamports[sent[i].tx.feePayer]
          <= sent[i].plan.cost.solOut + LeftOut(sent[i].plan.request)
    BY <1>1, LandedTakes
  <2>2. LeftOut(sent[i].plan.request) = 0
    BY DEF LeftOut
  <2>3. sent[i].plan.cost.solOut \in Int
    <3>1. /\ sent[i].plan.request \in Requests
          /\ sent[i].plan.cost = TransferCost(sent[i].plan.request)
      BY <1>1 DEF Sound, SentFits, PlanFits
    <3> DEFINE request == sent[i].plan.request
    <3>2. request.amount \in Nat
      BY <3>1 DEF Requests
    <3> HIDE DEF request
    <3>3. TransferCost(request).solOut \in Int
      BY <3>2, Costs DEF TransferCost, RentToOpen
    <3> QED
      BY <3>1, <3>3 DEF request
  <2>4. sent[i].plan.cost.solOut + LeftOut(sent[i].plan.request) = sent[i].plan.cost.solOut
    BY <2>2, <2>3
  <2> QED
    BY <2>1, <2>4
<1> QED
  BY <1>1, InvCorrect, SoundCorrect, PTL DEF Spec, NoMoreThanShown
=============================================================================
