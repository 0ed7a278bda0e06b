SPECIFICATION MoneySpec
CONSTANTS
  Amounts = {30, 10039}
  Prices = {16, 17, 18, 20}
  FeeRates = {25, 250}
  Recipients = {w1, w2}
  Slippage = 1000
  NetGas = {0, 1000}
  ReceivesSui = TRUE
  Nothing = Nothing
CHECK_DEADLOCK FALSE
INVARIANT ReviewedMinimum
